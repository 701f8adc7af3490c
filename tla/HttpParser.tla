----------------------------- MODULE HttpParser -----------------------------
(***************************************************************************)
(* HttpParser::parse on the bytes of a connection, and what handle_read    *)
(* does with its verdicts: after a request it resets the parser and goes   *)
(* on with the same HttpRequest, after an error it answers 413 or 400 and  *)
(* clears both (what follows a refusal is in HttpConnection).              *)
(*                                                                         *)
(* What parse knows between two bytes is in the parser and in the request, *)
(* so it makes no difference where the reads cut the bytes.  A byte is a   *)
(* delimiter ("SP", "CR", "LF", ":", "?", ";"), "CTL" (a byte that no line *)
(* may hold), a digit, or any other string; a field name or a value that   *)
(* matters counts as one byte, in lower case already.                      *)
(***************************************************************************)
EXTENDS Integers, Sequences, SequencesExt, FiniteSetsExt

CONSTANTS
    Connections,        \* the sequences of requests a client sends
    Encode(_),          \* the bytes of a request
    Meaning(_),         \* what it should be delivered as, or refused with
    Digit,              \* the value of every hexadecimal digit byte
    MAX_BODY_SIZE, MAX_REQUEST_LINE_SIZE, MAX_HEADER_LINE_SIZE, MAX_HEADERS_SIZE,
    MaxHex              \* bytes in chunk_size_hex_buffer_ (16 in the code)

ASSUME ParserConstants ==
    {MAX_BODY_SIZE, MAX_REQUEST_LINE_SIZE, MAX_HEADER_LINE_SIZE, MAX_HEADERS_SIZE, MaxHex}
        \subseteq Nat \ {0}

VARIABLES
    sent,       \* the requests of this connection
    stream,     \* their bytes that are not parsed yet
    parser,     \* parsers_[sock]
    request,    \* requests_[sock]
    results     \* per request what handle_read was given: the request or a status

vars == <<sent, stream, parser, request, results>>

FreshParser ==
    [state |-> "METHOD", chunk |-> "SIZE", buffer |-> <<>>, content_length |-> 0,
     body_read |-> 0, headers_read |-> 0, error |-> "NONE", hex |-> <<>>,
     remaining |-> 0, cr_seen |-> FALSE]

NoHeaders == [n \in {} |-> <<>>]

EmptyRequest ==
    [method |-> <<>>, path |-> <<>>, version |-> <<>>, query |-> <<>>,
     headers |-> NoHeaders, body |-> <<>>]

Init ==
    /\ sent \in Connections
    /\ stream = FlattenSeq([i \in DOMAIN sent |-> Encode(sent[i])])
    /\ parser = FreshParser
    /\ request = EmptyRequest
    /\ results = <<>>

-----------------------------------------------------------------------------
(* Classes of bytes and numbers.                                           *)

Delimiters == {"SP", "CR", "LF", ":", "?", ";", "CTL"}

is_tchar(b) == b \notin Delimiters

is_valid_field_value_char(b) == b \notin {"CR", "LF", "CTL"}

is_valid_request_line_char(b) == b \notin {"SP", "CR", "LF", "CTL"}

IsDecimal(b) == b \in DOMAIN Digit /\ Digit[b] < 10

Bad == -1
Capped == -2

\* The loop over Content-Length: it stops at a byte that is no digit, and at
\* a digit after the value has passed the cap.
ContentLength(value) ==
    IF value = <<>> THEN Bad
    ELSE FoldLeft(LAMBDA n, b : IF n < 0 THEN n
                                ELSE IF ~IsDecimal(b) THEN Bad
                                ELSE IF n > MAX_BODY_SIZE THEN Capped
                                ELSE n * 10 + Digit[b], 0, value)

\* The loop over a chunk size without its extension: it stops as soon as the
\* value has passed the cap.
ChunkLength(line) ==
    LET semi == {i \in DOMAIN line : line[i] = ";"}
        hex  == IF semi = {} THEN line ELSE SubSeq(line, 1, Min(semi) - 1)
    IN  IF hex = <<>> THEN Bad
        ELSE FoldLeft(LAMBDA n, b : IF n < 0 \/ n > MAX_BODY_SIZE THEN n
                                    ELSE IF b \notin DOMAIN Digit THEN Bad
                                    ELSE n * 16 + Digit[b], 0, hex)

Trimmed(value) ==
    LET text == {i \in DOMAIN value : value[i] # "SP"}
    IN  IF text = {} THEN <<>> ELSE SubSeq(value, Min(text), Max(text))

-----------------------------------------------------------------------------
(* One byte.                                                               *)

c == Head(stream)

\* The parser is in this state and takes the next byte.
Takes(state) ==
    /\ parser.state = state
    /\ parser.error = "NONE"
    /\ stream # <<>>
    /\ stream' = Tail(stream)
    /\ UNCHANGED <<sent, results>>

fail(e) == parser' = [parser EXCEPT !.error = e] /\ UNCHANGED request

\* A part of the request line is complete: it is the request's field.
Part(field, next) ==
    /\ request' = [request EXCEPT ![field] = parser.buffer]
    /\ parser' = [parser EXCEPT !.buffer = <<>>, !.cr_seen = FALSE, !.state = next]

\* A byte more of the line in buffer_, which may be this long.
Buffer(limit, tooLong) ==
    /\ parser' = [parser EXCEPT !.buffer = Append(@, c), !.cr_seen = FALSE,
                                !.error = IF Len(parser.buffer) + 1 > limit THEN tooLong ELSE @]
    /\ UNCHANGED request

RequestLineByte ==
    IF is_valid_request_line_char(c)
    THEN Buffer(MAX_REQUEST_LINE_SIZE, "REQUEST_LINE_TOO_LONG")
    ELSE fail("INVALID_HEADER")

Method ==
    /\ Takes("METHOD")
    /\ \/ c = "SP" /\ Part("method", "PATH")
       \/ c # "SP" /\ RequestLineByte

Path ==
    /\ Takes("PATH")
    /\ \/ c = "SP" /\ Part("path", "VERSION")
       \/ c = "?" /\ Part("path", "QUERY")
       \/ c \notin {"SP", "?"} /\ RequestLineByte

Query ==
    /\ Takes("QUERY")
    /\ \/ c = "SP" /\ Part("query", "VERSION")
       \/ c # "SP" /\ RequestLineByte

Version ==
    /\ Takes("VERSION")
    /\ \/ c = "CR" /\ parser' = [parser EXCEPT !.cr_seen = TRUE] /\ UNCHANGED request
       \/ c = "LF" /\ parser.cr_seen /\ Part("version", "HEADER")
       \/ c # "CR" /\ ~(c = "LF" /\ parser.cr_seen) /\ RequestLineByte

-----------------------------------------------------------------------------
(* The header block.                                                       *)

\* What a header line is refused for, given the headers already stored.
LineError(key, value) ==
    LET has(name) == <<name>> \in DOMAIN request.headers
    IN  CASE \/ key = <<>>
             \/ \E i \in DOMAIN key : ~is_tchar(key[i])
             \/ \E i \in DOMAIN value : ~is_valid_field_value_char(value[i]) ->
               "INVALID_HEADER"
          [] key = <<"content-length">> /\ has("content-length") -> "DUPLICATE_CONTENT_LENGTH"
          [] key = <<"content-length">> /\ ~has("content-length") /\ has("transfer-encoding") ->
               "CL_TE_CONFLICT"
          [] key = <<"transfer-encoding">> /\ has("content-length") -> "CL_TE_CONFLICT"
          [] key = <<"transfer-encoding">> /\ ~has("content-length") /\ has("transfer-encoding") ->
               "INVALID_TRANSFER_ENCODING"
          [] OTHER -> "NONE"

\* A line of the block ends: what is in buffer_ becomes a header.
HeaderLine(p) ==
    LET colons == {i \in DOMAIN p.buffer : p.buffer[i] = ":"}
        key    == SubSeq(p.buffer, 1, Min(colons) - 1)
        value  == Trimmed(SubSeq(p.buffer, Min(colons) + 1, Len(p.buffer)))
        error  == IF colons = {} THEN "INVALID_HEADER" ELSE LineError(key, value)
    IN  IF error # "NONE"
        THEN parser' = [p EXCEPT !.error = error] /\ UNCHANGED request
        ELSE /\ parser' = [p EXCEPT !.buffer = <<>>]
             /\ request' = [request EXCEPT !.headers =
                              [n \in DOMAIN @ \cup {key} |-> IF n = key THEN value ELSE @[n]]]

\* The empty line ends the block: the stored headers say which body follows.
EndOfHeaders(p) ==
    LET h      == request.headers
        te     == <<"transfer-encoding">>
        cl     == <<"content-length">>
        length == ContentLength(h[cl])
    IN  /\ UNCHANGED request
        /\ parser' =
             CASE te \in DOMAIN h /\ h[te] # <<"chunked">> ->
                    [p EXCEPT !.error = "INVALID_TRANSFER_ENCODING"]
               [] te \in DOMAIN h /\ h[te] = <<"chunked">> ->
                    [p EXCEPT !.state = "CHUNKED_BODY", !.chunk = "SIZE", !.hex = <<>>,
                              !.remaining = 0]
               [] DOMAIN h \cap {te, cl} = {} -> [p EXCEPT !.state = "DONE"]
               [] DOMAIN h \cap {te, cl} = {cl} ->
                    CASE length = Bad -> [p EXCEPT !.error = "INVALID_CONTENT_LENGTH"]
                      [] length = Capped \/ length > MAX_BODY_SIZE ->
                           [p EXCEPT !.error = "BODY_TOO_LARGE"]
                      [] length = 0 -> [p EXCEPT !.state = "DONE"]
                      [] length \in 1..MAX_BODY_SIZE ->
                           [p EXCEPT !.state = "BODY", !.content_length = length,
                                     !.body_read = 0]

Header ==
    LET read == parser.headers_read + 1
        p    == [parser EXCEPT !.headers_read = read, !.cr_seen = (c = "CR")]
        line == Append(parser.buffer, c)
    IN  /\ Takes("HEADER")
        /\ \/ read > MAX_HEADERS_SIZE /\ fail("HEADERS_TOO_LARGE")
           \/ /\ read <= MAX_HEADERS_SIZE
              /\ \/ c = "CR" /\ parser' = p /\ UNCHANGED request
                 \/ c = "LF" /\ ~parser.cr_seen /\ fail("INVALID_HEADER")
                 \/ c = "LF" /\ parser.cr_seen /\ parser.buffer # <<>> /\ HeaderLine(p)
                 \/ c = "LF" /\ parser.cr_seen /\ parser.buffer = <<>> /\ EndOfHeaders(p)
                 \/ /\ c \notin {"CR", "LF"}
                    /\ parser' = [p EXCEPT !.buffer = line,
                                           !.error = IF Len(line) > MAX_HEADER_LINE_SIZE
                                                     THEN "HEADER_TOO_LONG" ELSE @]
                    /\ UNCHANGED request

-----------------------------------------------------------------------------
(* The body.                                                               *)

\* The LF of a chunk-size line; an empty line is the end of the chunk before.
SizeLine ==
    LET size == ChunkLength(parser.hex)
    IN  CASE parser.hex = <<>> -> parser' = parser
          [] parser.hex # <<>> /\ size = Bad ->
               parser' = [parser EXCEPT !.error = "INVALID_CHUNK_SIZE"]
          [] parser.hex # <<>> /\ size = 0 ->
               parser' = [parser EXCEPT !.hex = <<>>, !.chunk = "TRAILER", !.buffer = <<>>]
          [] parser.hex # <<>> /\ size > 0 ->
               parser' = [parser EXCEPT !.hex = <<>>, !.chunk = "DATA", !.remaining = size]

ChunkSize ==
    /\ parser.chunk = "SIZE"
    /\ Takes("CHUNKED_BODY")
    /\ UNCHANGED request
    /\ \/ c = "CR" /\ UNCHANGED parser
       \/ c = "LF" /\ SizeLine
       \/ /\ c \notin {"CR", "LF"}
          /\ parser' = [parser EXCEPT !.hex = Append(@, c),
                                      !.error = IF Len(parser.hex) + 1 > MaxHex
                                                THEN "INVALID_CHUNK_SIZE" ELSE @]

ChunkData ==
    LET left == parser.remaining - 1
        over == Len(request.body) + 1 > MAX_BODY_SIZE
    IN  /\ parser.chunk = "DATA"
        /\ Takes("CHUNKED_BODY")
        /\ request' = [request EXCEPT !.body = Append(@, c)]
        /\ parser' = [parser EXCEPT !.remaining = left,
                                    !.error = IF over THEN "BODY_TOO_LARGE" ELSE @,
                                    !.chunk = IF ~over /\ left = 0 THEN "SIZE" ELSE @]

\* Mutant: the first line end after the last chunk ends the message.
TrailerFirstLine ==
    /\ parser.chunk = "TRAILER"
    /\ Takes("CHUNKED_BODY")
    /\ UNCHANGED request
    /\ \/ c = "CR" /\ UNCHANGED parser
       \/ c = "LF" /\ parser' = [parser EXCEPT !.state = "DONE"]
       \/ c \notin {"CR", "LF"} /\ Buffer(MAX_HEADER_LINE_SIZE, "HEADER_TOO_LONG")

Trailer ==
    /\ parser.chunk = "TRAILER"
    /\ Takes("CHUNKED_BODY")
    /\ UNCHANGED request
    /\ \/ c = "CR" /\ UNCHANGED parser
       \/ /\ c = "LF"
          /\ parser' = IF parser.buffer = <<>> THEN [parser EXCEPT !.state = "DONE"]
                       ELSE [parser EXCEPT !.buffer = <<>>]
       \/ c \notin {"CR", "LF"} /\ Buffer(MAX_HEADER_LINE_SIZE, "HEADER_TOO_LONG")

Body ==
    /\ Takes("BODY")
    /\ \/ parser.body_read >= MAX_BODY_SIZE /\ fail("BODY_TOO_LARGE")
       \/ /\ parser.body_read < MAX_BODY_SIZE
          /\ request' = [request EXCEPT !.body = Append(@, c)]
          /\ parser' = [parser EXCEPT !.body_read = @ + 1,
                                      !.state = IF parser.body_read + 1 >= parser.content_length
                                                THEN "DONE" ELSE @]

-----------------------------------------------------------------------------
(* The verdicts, as handle_read takes them.                                *)

\* parse returned true: the request is handled, and only the parser is reset.
Parsed ==
    /\ parser.state = "DONE"
    /\ results' = Append(results, [status |-> 200,
                                   request |-> [request EXCEPT !.headers = NoHeaders]])
    /\ parser' = FreshParser
    /\ UNCHANGED <<sent, stream, request>>

\* parse failed: 413 or 400; the next bytes are parsed afresh.
Rejected ==
    /\ parser.error # "NONE"
    /\ results' = Append(results, [status |-> IF parser.error = "BODY_TOO_LARGE"
                                              THEN 413 ELSE 400,
                                   request |-> EmptyRequest])
    /\ parser' = FreshParser
    /\ request' = EmptyRequest
    /\ UNCHANGED <<sent, stream>>

Next ==
    \/ Method \/ Path \/ Query \/ Version \/ Header
    \/ ChunkSize \/ ChunkData \/ Trailer \/ Body
    \/ Parsed \/ Rejected

Spec == Init /\ [][Next]_vars

-----------------------------------------------------------------------------
(* Properties.                                                             *)

Carries(r, bytes) == \E i \in DOMAIN Encode(r) : Encode(r)[i] \in bytes

\* The i-th request is read with nothing of an earlier one: none was refused,
\* and none left in the request object a framing header, or a query that the
\* i-th does not replace.
Unaffected(i) ==
    \A j \in 1..(i - 1) :
        /\ Meaning(sent[j]).status = 200
        /\ ~Carries(sent[j], {"content-length", "transfer-encoding"})
        /\ Carries(sent[j], {"?"}) => Carries(sent[i], {"?"})

\* Requests that follow each other on a connection are told apart byte for
\* byte: each is delivered by parse with its own path, query and body, or
\* refused with 413 or 400 exactly when it exceeds a limit or is malformed, and
\* once all bytes are parsed none is left half read and no byte left over; as
\* long as the HttpRequest that handle_read keeps for the connection holds
\* nothing of an earlier request that changes its reading.
Framed ==
    \A i \in DOMAIN sent :
        Unaffected(i) =>
            /\ i \in DOMAIN results => results[i] = Meaning(sent[i])
            /\ (stream = <<>> /\ parser = FreshParser) => i \in DOMAIN results
            /\ (i = Len(sent) /\ Meaning(sent[i]).status = 200) =>
                   /\ Len(results) <= i
                   /\ stream = <<>> => parser = FreshParser \/ parser.state = "DONE"
=============================================================================
