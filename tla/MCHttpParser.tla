---------------------------- MODULE MCHttpParser ----------------------------
(***************************************************************************)
(* Connections with one request, with two of which the first is delivered  *)
(* and has no body, or with three of a few.                                *)
(* A request is described by the lengths of its parts; the limits are      *)
(* small, and each length reaches its limit and the first value above it.  *)
(***************************************************************************)
EXTENDS HttpParser

DigitBytes == <<"0", "1", "2", "3", "4", "5", "6", "7", "8", "9", "a", "b", "c", "d", "e", "f">>

MCDigit == [b \in Range(DigitBytes) |-> (CHOOSE i \in 1..16 : DigitBytes[i] = b) - 1]

Fill(n) == [i \in 1..n |-> "w"]

\* A body whose bytes tell where it starts, and if one is lost or repeated.
Payload(n) == [i \in 1..n |-> IF i = 1 THEN "p" ELSE IF i % 2 = 0 THEN "q" ELSE "r"]

CRLF == <<"CR", "LF">>

\* path, query: lengths (-1: no query); filler: the length of the value of one
\* more header, -1 for none; lines: how many more empty-valued headers; framing
\* and body: how the body is sent, and its length; ext: the length of a chunk
\* extension; fault: malformed or not.
Plain == [path |-> 1, query |-> -1, filler |-> -1, lines |-> 0,
          framing |-> "none", body |-> 0, trailer |-> FALSE, ext |-> 1, fault |-> FALSE]

Numeral(n, base) ==
    IF n < base THEN <<DigitBytes[n + 1]>>
    ELSE <<DigitBytes[(n \div base) + 1], DigitBytes[(n % base) + 1]>>

Hex(n) == Numeral(n, 16)

Chunk(bytes) == Hex(Len(bytes)) \o CRLF \o bytes \o CRLF

\* The body in two chunks, the first of one byte and with an extension.
Chunked(bytes, ext) ==
    IF Len(bytes) < 2 THEN (IF bytes = <<>> THEN <<>> ELSE Chunk(bytes))
    ELSE Hex(1) \o <<";">> \o Fill(ext) \o CRLF \o <<bytes[1]>> \o CRLF \o Chunk(Tail(bytes))

HeaderBlock(r) ==
    (IF r.filler < 0 THEN <<>> ELSE <<"x", ":", "SP">> \o Fill(r.filler) \o CRLF)
    \o FlattenSeq([i \in 1..r.lines |-> <<"y", ":">> \o CRLF])
    \o (IF r.fault THEN <<"z">> \o CRLF ELSE <<>>)
    \o CASE r.framing = "none" -> <<>>
         [] r.framing = "length" ->
              <<"content-length", ":", "SP">> \o Numeral(r.body, 10) \o <<"SP">> \o CRLF
         [] r.framing = "chunked" -> <<"transfer-encoding", ":", "chunked">> \o CRLF

MCEncode(r) ==
    <<"GET", "SP">> \o Fill(r.path)
    \o (IF r.query < 0 THEN <<>> ELSE <<"?">> \o Fill(r.query))
    \o <<"SP", "HTTP/1.1">> \o CRLF \o HeaderBlock(r) \o CRLF
    \o CASE r.framing = "none" -> <<>>
         [] r.framing = "length" -> Payload(r.body)
         [] r.framing = "chunked" ->
              Chunked(Payload(r.body), r.ext) \o Hex(0) \o CRLF
              \o (IF r.trailer THEN <<"t", ":", "w">> \o CRLF ELSE <<>>) \o CRLF

\* The reference: what the limits say of such a request.  The header block
\* includes the empty line; the request line is limited part by part.
TooLong(r) ==
    \/ r.path > MAX_REQUEST_LINE_SIZE \/ r.query > MAX_REQUEST_LINE_SIZE
    \/ r.filler + 3 > MAX_HEADER_LINE_SIZE
    \/ r.framing = "chunked" /\ r.body > 1 /\ r.ext + 2 > MaxHex
    \/ Len(HeaderBlock(r)) + 2 > MAX_HEADERS_SIZE

MCMeaning(r) ==
    IF r.fault \/ TooLong(r) THEN [status |-> 400, request |-> EmptyRequest]
    ELSE IF r.body > MAX_BODY_SIZE THEN [status |-> 413, request |-> EmptyRequest]
    ELSE [status |-> 200,
          request |-> [method |-> <<"GET">>, path |-> Fill(r.path), query |-> Fill(r.query),
                       version |-> <<"HTTP/1.1">>, headers |-> NoHeaders,
                       body |-> Payload(r.body)]]

\* Without a body: every combination of a path, a query and headers.
Bodiless ==
    {[Plain EXCEPT !.path = p, !.query = q, !.filler = f, !.lines = l] :
        p \in {1, 3, 4}, q \in {-1, 0, 3, 4}, f \in {-1, 0, 1, 4, 5}, l \in {0, 2, 3}}

\* With a body: below, at and above the limit.
Bodied ==
    {[Plain EXCEPT !.framing = k[1], !.trailer = k[2], !.ext = k[3],
                    !.body = n, !.filler = f] :
        k \in {<<"length", FALSE, 1>>, <<"chunked", FALSE, 1>>, <<"chunked", TRUE, 1>>,
              <<"chunked", FALSE, 2>>},
        n \in {0, 1, 2, 12, 16, 17, 18}, f \in {-1, 0}}

MCRequests == Bodiless \cup Bodied \cup {[Plain EXCEPT !.fault = TRUE]}

\* What may come first in a claim about the second.
Opening == {r \in Bodiless : r.path = 1 /\ MCMeaning(r).status = 200}

Few == {Plain, [Plain EXCEPT !.query = 2], [Plain EXCEPT !.filler = 0],
        [Plain EXCEPT !.framing = "length", !.body = 2],
        [Plain EXCEPT !.framing = "chunked", !.body = 2]}

MCConnections ==
    {<<r>> : r \in MCRequests} \cup (Opening \X MCRequests) \cup (Few \X Few \X Few)

=============================================================================
