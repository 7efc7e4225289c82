------------------------------- MODULE Request -------------------------------
(***************************************************************************)
(* One request from the constructor of fcgiserver::Request                 *)
(* (src/lib/request.cpp) to its destructor: the calls a handler makes in   *)
(* any order, what thread_function (src/lib/server.cpp) does once the      *)
(* handler has returned or thrown, and what reaches the web server.  A     *)
(* Request belongs to one thread.                                          *)
(***************************************************************************)
EXTENDS Naturals, Sequences

CONSTANTS
    MaxWrites,   \* bound on the pieces written to the response
    StatusCodes, \* what a handler sets as status: set_header takes any text
    Unset        \* a header the map does not hold

ASSUME BoundsAssumption == MaxWrites \in Nat
ASSUME UnsetAssumption ==
    Unset \notin StatusCodes \cup {"200", "404", "405", "500", "text/html",
                                   "text/plain", "image/png", "empty", "42"}

Keys         == {"Status", "Content-Type", "Content-Length"}
ContentTypes == {"text/html", "text/plain", "image/png", "empty"}
Encodings    == {"Verbatim", "UTF8", "HTML"}
RouteResults == {"Handled", "NotFound", "InvalidMethod", "InternalError"}

VARIABLES
    request,  \* the fields of RequestPrivate and what cgi_data was given
    stream,   \* the format of the RequestStream the handler holds, or "none"
    served,   \* the request is run by thread_function, not by a test or tool
    phase,    \* how far the thread is
    result,   \* route_result of the handler
    answer,   \* history: the last setter, its argument and what it returned
    refused,  \* history: a setter, of handler or server, came after the
              \* headers were sent
    untouched,\* history: the handler left status and headers to the server
    logged    \* history: the status log_request has seen

vars == <<request, stream, served, phase, result, answer, refused,
          untouched, logged>>

(* encoding is not initialised by the constructor: the member holds what   *)
(* the memory held, a valid encoding or another value.                     *)
NewRequest(garbage) ==
    [headers |-> [key \in Keys |-> Unset], headers_sent |-> FALSE,
     encoding |-> garbage, warned |-> FALSE, complaints |-> 0, wire |-> <<>>]

NoAnswer == [key |-> "Status", value |-> Unset, ok |-> FALSE]

Init ==
    /\ \E garbage \in Encodings \cup {"invalid"} : request = NewRequest(garbage)
    /\ stream = "none"
    /\ served \in BOOLEAN
    /\ phase = "handler"
    /\ result = "InternalError"
    /\ answer = NoAnswer
    /\ refused = FALSE
    /\ untouched = FALSE
    /\ logged = Unset

-----------------------------------------------------------------------------
(* The member functions, as functions of the request.                      *)

(* std::map::emplace: a key that is present keeps its value.               *)
Emplace(r, key, value) ==
    IF r.headers[key] = Unset THEN [r EXCEPT !.headers[key] = value] ELSE r

(* set_header.  headers_sent_warning is a once_flag.                       *)
ComplainEveryTime(r) == [r EXCEPT !.complaints = @ + 1]
Complain(r) ==
    IF r.warned THEN r ELSE [r EXCEPT !.warned = TRUE, !.complaints = @ + 1]

SetHeaderLate(r, key, value) == Emplace(r, key, value)
SetHeader(r, key, value) ==
    IF r.headers_sent THEN Complain(r) ELSE Emplace(r, key, value)

SetContentTypeAs(r, value, encoding) ==
    IF r.headers_sent
    THEN SetHeader(r, "Content-Type", value)
    ELSE [SetHeader(r, "Content-Type", value) EXCEPT !.encoding = encoding]

Detect(value) ==
    CASE value = "text/html"  -> "HTML"
      [] value = "text/plain" -> "UTF8"
      [] OTHER                -> "Verbatim"

SetContentType(r, value) == SetContentTypeAs(r, value, Detect(value))

SendHeadersAgain(r) ==
    LET h == Emplace(r, "Status", "200").headers
    IN  [r EXCEPT !.headers = h, !.wire = Append(@, [headers |-> h])]

SendHeaders(r) ==
    LET h == Emplace(r, "Status", "200").headers
    IN  IF r.headers_sent
        THEN r
        ELSE [r EXCEPT !.headers = h, !.headers_sent = TRUE,
                       !.wire = Append(@, [headers |-> h])]

Put(r, body) == [r EXCEPT !.wire = Append(@, [body |-> body])]

Write(r, body) == Put(SendHeaders(r), body)

-----------------------------------------------------------------------------
(* The handler.                                                            *)

Setter(key, value, new) ==
    /\ phase = "handler"
    /\ request' = new
    /\ answer' = [key |-> key, value |-> value, ok |-> ~request.headers_sent]
    /\ refused' = (refused \/ request.headers_sent)
    /\ UNCHANGED <<stream, served, phase, result, untouched, logged>>

HandlerSetsStatus ==
    \E code \in StatusCodes :
        Setter("Status", code, SetHeader(request, "Status", code))

HandlerSetsLength ==
    Setter("Content-Length", "42", SetHeader(request, "Content-Length", "42"))

HandlerSetsType ==
    \E value \in ContentTypes :
        \/ Setter("Content-Type", value, SetContentType(request, value))
        \/ \E encoding \in Encodings :
              Setter("Content-Type", value, SetContentTypeAs(request, value, encoding))

HandlerDoes(new) ==
    /\ phase = "handler"
    /\ request' = new
    /\ UNCHANGED <<stream, served, phase, result, answer, refused, untouched, logged>>

SetEncoding == \E encoding \in Encodings :
                  HandlerDoes([request EXCEPT !.encoding = encoding])

HandlerSendsHeaders == HandlerDoes(SendHeaders(request))

HandlerWrites ==
    /\ Len(request.wire) < MaxWrites
    /\ HandlerDoes(Write(request, "Verbatim"))

(* write_stream: the format is that of the encoding now, and stays it.  An *)
(* invalid one fails to_format's assertion, or becomes Verbatim in a build *)
(* without assertions.                                                     *)
WriteStream ==
    /\ phase = "handler"
    /\ stream' = request.encoding
    /\ UNCHANGED <<request, served, phase, result, answer, refused, untouched, logged>>

StreamAppend ==
    /\ stream # "none"
    /\ Len(request.wire) < MaxWrites
    /\ HandlerDoes(Write(request, stream))

(* An exception leaves route_result at InternalError.  Without a server    *)
(* nothing is done between the handler and the destructor.                 *)
HandlerEnds(route_result) ==
    /\ phase = "handler"
    /\ result' = route_result
    /\ stream' = "none"
    /\ phase' = IF served THEN "status" ELSE "destructor"
    /\ untouched' = (request.headers["Status"] = Unset /\ ~request.headers_sent)
    /\ UNCHANGED <<request, served, answer, refused, logged>>

HandlerReturns == \E route_result \in RouteResults : HandlerEnds(route_result)
HandlerThrows  == HandlerEnds("InternalError")

-----------------------------------------------------------------------------
(* thread_function after the handler.                                      *)

(* What http_status().empty() and content_type().empty() cannot tell       *)
(* apart: a header that is not there and one that was set to no text,      *)
(* which is written "empty" here.                                          *)
Empty(r, key) == r.headers[key] \in {Unset, "empty"}

StatusName(route_result) == route_result
StatusCode(route_result) ==
    CASE route_result = "Handled"       -> "200"
      [] route_result = "NotFound"      -> "404"
      [] route_result = "InvalidMethod" -> "405"
      [] route_result = "InternalError" -> "500"

Proceed(next, new) ==
    /\ request' = new
    /\ phase' = next
    /\ UNCHANGED <<stream, served, result, answer, untouched>>

NoDefaultStatus ==
    /\ phase = "status"
    /\ Proceed("respond", request)
    /\ UNCHANGED <<refused, logged>>

(* The server's own setter is too late when the handler has sent a status  *)
(* without text.                                                           *)
DefaultStatus ==
    /\ phase = "status"
    /\ Proceed("respond", IF Empty(request, "Status")
                          THEN SetHeader(request, "Status", StatusCode(result))
                          ELSE request)
    /\ refused' = (refused \/ (Empty(request, "Status") /\ request.headers_sent))
    /\ UNCHANGED logged

(* Without headers on the wire, a response with a content type gets its    *)
(* headers, one without becomes a text page with the status.  A type or    *)
(* status that was set to no text stays so: emplace does not replace it,   *)
(* and a UTF-8 stream writes nothing for no text, no headers either.       *)
Page(r) ==
    LET typed == SetContentType(r, "text/plain")
    IN  IF Empty(typed, "Status") THEN typed ELSE Write(typed, typed.encoding)

Respond ==
    /\ phase = "respond"
    /\ Proceed("log",
               IF request.headers_sent
               THEN request
               ELSE IF Empty(request, "Content-Type")
                    THEN Page(request)
                    ELSE SendHeaders(request))
    /\ UNCHANGED <<refused, logged>>

LogResult ==
    /\ phase = "log"
    /\ Proceed("destructor", request)
    /\ logged' = StatusCode(result)
    /\ UNCHANGED refused

LogRequest ==
    /\ phase = "log"
    /\ Proceed("destructor", request)
    /\ logged' = request.headers["Status"]
    /\ UNCHANGED refused

(* ~Request answers for a data processor that wrote nothing.               *)
Fallback(r) ==
    LET status == SetHeader(r, "Status", "500")
        typed  == SetContentType(status, "text/plain")
        sized  == SetHeader(typed, "Content-Length", "42")
    IN  Write(sized, "Verbatim")

Destructor ==
    /\ phase = "destructor"
    /\ Proceed("done", IF request.headers_sent THEN request ELSE Fallback(request))
    /\ UNCHANGED <<refused, logged>>

Done == phase = "done" /\ UNCHANGED vars

Next ==
    \/ HandlerSetsStatus
    \/ HandlerSetsLength
    \/ HandlerSetsType
    \/ SetEncoding
    \/ HandlerSendsHeaders
    \/ HandlerWrites
    \/ WriteStream
    \/ StreamAppend
    \/ HandlerReturns
    \/ HandlerThrows
    \/ DefaultStatus
    \/ Respond
    \/ LogRequest
    \/ Destructor
    \/ Done

Spec == Init /\ [][Next]_vars

-----------------------------------------------------------------------------
(* Correctness.                                                            *)

HeaderMaps == [Keys -> StatusCodes \cup {"200", "404", "405", "500"}
                           \cup ContentTypes \cup {"42", Unset}]
Formats    == Encodings \cup {"invalid"}

TypeOK ==
    /\ request \in [headers : HeaderMaps, headers_sent : BOOLEAN,
                    encoding : Formats, warned : BOOLEAN, complaints : Nat,
                    wire : Seq([headers : HeaderMaps] \cup [body : Formats])]
    /\ stream \in Formats \cup {"none"}
    /\ served \in BOOLEAN
    /\ phase \in {"handler", "status", "respond", "log", "destructor", "done"}
    /\ result \in RouteResults
    /\ refused \in BOOLEAN
    /\ untouched \in BOOLEAN

(* What the web server parses: nothing, or one block of headers and then   *)
(* only body, whatever the handler calls and in whatever order, with the   *)
(* default pages included.                                                 *)
HeadersThenBody ==
    LET wire == request.wire
    IN  /\ request.headers_sent <=> wire # <<>>
        /\ \A i \in 1 .. Len(wire) : "headers" \in DOMAIN wire[i] <=> i = 1

(* Once sent, the headers the program sees, and logs, are the ones that    *)
(* were sent ("After this point, the headers must remain unchanging"), and *)
(* a status is among them.                                                 *)
SentHeadersAreFinal ==
    request.wire # <<>> => /\ request.wire[1].headers = request.headers
                           /\ request.headers["Status"] # Unset

(* Every request is answered, even when the handler wrote nothing, threw,  *)
(* or ran outside a server; and within one, the access log shows the       *)
(* status the client got.                                                  *)
AnsweredAsLogged ==
    phase = "done" =>
        /\ request.wire # <<>>
        /\ served => logged = request.wire[1].headers["Status"]

(* A handler that leaves status and headers to the server gets the status  *)
(* of its result; an exception is an internal error.                       *)
ResultSetsStatus ==
    phase = "done" /\ served /\ untouched =>
        <<result, request.wire[1].headers["Status"]>> \in
            {<<"Handled", "200">>, <<"NotFound", "404">>,
             <<"InvalidMethod", "405">>, <<"InternalError", "500">>}

(* "Complains once about headers already sent": once, however many setters *)
(* come too late, the server's own for the default status included, and    *)
(* never when none does.                                                   *)
ComplainsOnce == request.complaints = IF refused THEN 1 ELSE 0

(* test_request.cpp: a setter that returned true has set the header.       *)
TrueMeansSet == answer.ok => request.headers[answer.key] = answer.value

(* to_format: assert(false && "invalid content encoding").                 *)
ValidFormat == stream # "invalid"
=============================================================================
