--------------------------- MODULE HttpConnection ---------------------------
(***************************************************************************)
(* HttpConnection::recvResponse() (htttp/http_connection.cc) with          *)
(* HttpResponseParser::execute() (http_parser.cc) and the automaton of     *)
(* httpclient_parser.rl, reading one response that arrives in reads of any *)
(* size.  Only where a read ends decides what can go wrong, so a line of   *)
(* the header is a few tokens, one for each part between whose bytes the   *)
(* parser does the same; in a token an underscore stands for a blank.      *)
(*                                                                         *)
(* Between two calls of execute() for the header the parser keeps its      *)
(* automaton and sets its marks to the start of the buffer; before a call  *)
(* for a chunk-size line it is initialised anew.  What is unzipped, and    *)
(* trailers, are left out.                                                 *)
(***************************************************************************)
EXTENDS Integers, Sequences, FiniteSetsExt, SequencesExt

CONSTANTS
    Responses,      \* [content : Seq(byte)] or [chunks : Seq([size : Seq(digit), data : Seq(byte)])]
    buff_size,      \* tokens in the buffer
    Radix           \* of a chunk size, 16

VARIABLES
    response,       \* what the server has sent
    arriving,       \* the tokens of it that were not read
    recv,           \* where recvResponse() is
    parser,         \* HttpResponseParser, in the header
    data,           \* the tokens behind what execute() has consumed
    content_len,    \* of the chunk, or of the body
    left,           \* tokens of them, and of the CRLF behind a chunk, to be read
    body,
    cut             \* history: the lines that a read has cut, and "peer" if it closed

connectionVars == <<response, arriving, recv, parser, data, content_len, left, body, cut>>

Digits == {"0", "1", "2", "3"}

DigitValue == [d \in Digits |-> CASE d = "0" -> 0 [] d = "1" -> 1 [] d = "2" -> 2 [] d = "3" -> 3]

\* strtol(PTR_TO(mark), NULL, 16)
Number(digits) == FoldLeft(LAMBDA n, d : n * Radix + DigitValue[d], 0, digits)

CRLF == <<"CR", "LF">>

IsChunked(r) == "chunks" \in DOMAIN r

\* A response as it is to be: a chunk-size line says how long its chunk is, and the
\* last chunk is the empty one.
WellFormed(r) ==
    IF IsChunked(r)
      THEN /\ r.chunks \in Seq([size : Seq(Digits), data : Seq(STRING)])
           /\ r.chunks # <<>>
           /\ \A k \in DOMAIN r.chunks :
                /\ r.chunks[k].size # <<>>
                /\ Number(r.chunks[k].size) = Len(r.chunks[k].data)
                /\ r.chunks[k].data = <<>> <=> k = Len(r.chunks)
      ELSE r.content \in Seq(STRING)

ASSUME HttpConnectionConstants ==
    /\ buff_size \in Nat \ {0} /\ Radix \in Nat \ {0, 1}
    /\ \A r \in Responses : WellFormed(r)

\* The body that the server means.
Content(r) ==
    IF IsChunked(r) THEN FlattenSeq([k \in DOMAIN r.chunks |-> r.chunks[k].data]) ELSE r.content

\* The response on the wire; the second part of a header line has its CR.
Wire(r) ==
    <<"HTTP", "/1.1_2", "00_OK", "LF">>
        \o (IF IsChunked(r) THEN <<"Transfer-", "Encoding:chunked", "LF">>
                            ELSE <<"Content-", "Length:n", "LF">>)
        \o CRLF
        \o (IF IsChunked(r)
              THEN FlattenSeq([k \in DOMAIN r.chunks |->
                       r.chunks[k].size \o CRLF \o r.chunks[k].data \o CRLF])
              ELSE r.content)

NewParser ==
    [last |-> "none", marked |-> FALSE, status |-> "none", length |-> FALSE, chunked |-> FALSE,
     error |-> FALSE, finished |-> FALSE, nparse |-> 0]

ConnectionInit ==
    /\ response \in Responses
    /\ arriving = Wire(response)
    /\ recv = "header"
    /\ parser = NewParser
    /\ data = <<>> /\ body = <<>>
    /\ content_len = 0 /\ left = 0
    /\ cut = {}
-----------------------------------------------------------------------------
(* The parser.                                                             *)

\* One token of the header.  The marks are the starts of the parts of a line: a field
\* whose start lies in an earlier read has an empty name, or the tail of its name.
\* The version is "1.1" then, which is none; the status is only its tail.
ParseToken(p, token) ==
    LET q == [p EXCEPT !.last = token, !.nparse = @ + 1]
    IN  IF p.error \/ p.finished THEN p
        ELSE CASE token \in {"HTTP", "Content-", "Transfer-"} -> [q EXCEPT !.marked = TRUE]
               [] token = "/1.1_2" -> [q EXCEPT !.error = ~ p.marked, !.marked = TRUE]
               [] token = "00_OK" ->
                    [q EXCEPT !.status = IF p.marked THEN "200" ELSE "0", !.marked = FALSE]
               [] token = "Length:n" -> [q EXCEPT !.length = p.marked, !.marked = FALSE]
               [] token = "Encoding:chunked" -> [q EXCEPT !.marked = FALSE]
               [] token = "LF" ->
                    [q EXCEPT !.chunked = @ \/ p.last = "Encoding:chunked",
                              !.finished = p.last = "CR"]
               [] OTHER -> q

\* execute(data, len, false)
Execute(p, tokens) ==
    LET after[k \in 0 .. Len(tokens)] ==
            IF k = 0 THEN [p EXCEPT !.marked = FALSE, !.nparse = 0]
                     ELSE ParseToken(after[k - 1], tokens[k])
    IN  after[Len(tokens)]

\* execute(data, len, true): digits, CR, LF, from the first state of the automaton.
ExecuteChunk(tokens) ==
    LET n == Max({k \in 0 .. Len(tokens) : \A i \in 1 .. k : tokens[i] \in Digits})
        rest == SubSeq(tokens, n + 1, Len(tokens))
    IN  [error    |-> rest # <<>> /\ (n = 0 \/ ~ (IsPrefix(rest, CRLF) \/ IsPrefix(CRLF, rest))),
         finished |-> n > 0 /\ IsPrefix(CRLF, rest),
         nparse   |-> n + 2,
         value    |-> Number(SubSeq(tokens, 1, n))]
-----------------------------------------------------------------------------
(* recvResponse().                                                         *)

\* close() and nullptr; what arrives later stays in the socket.
Fails == recv' = "null" /\ UNCHANGED <<response, content_len, left, body>>

\* read() returns 0 or an error.
PeerCloses ==
    /\ recv \in {"header", "content", "data"} \/ (recv = "size" /\ data = <<>>)
    /\ Fails
    /\ cut' = cut \cup {"peer"}
    /\ UNCHANGED <<arriving, parser, data>>

Reads(n, most) ==
    /\ n <= Min({Len(arriving), most})
    /\ arriving' = SubSeq(arriving, n + 1, Len(arriving))

\* A turn of the first loop, lines 40-65.  Everything is consumed until the header
\* ends, so that offset is 0 at each read.
ReadHeader(n) ==
    LET tokens == SubSeq(arriving, 1, n)
        p == Execute(parser, tokens)
        rest == SubSeq(tokens, p.nparse + 1, n)
        length == IF p.length THEN Len(Content(response)) ELSE 0
    IN  /\ recv = "header"
        /\ Reads(n, buff_size)
        /\ parser' = p
        /\ cut' = IF p.marked
                    THEN cut \cup {CASE p.last = "Content-" -> "length"
                                     [] p.last = "Transfer-" -> "encoding"
                                     [] OTHER -> "status"}
                    ELSE cut
        /\ \/ p.error /\ Fails /\ UNCHANGED data
           \/ /\ ~ p.error /\ ~ p.finished
              /\ UNCHANGED <<response, recv, data, content_len, left, body>>
           \/ /\ p.finished /\ p.chunked
              /\ recv' = "size"
              /\ data' = rest
              /\ UNCHANGED <<response, content_len, left, body>>
           \/ /\ p.finished /\ ~ p.chunked
              /\ content_len' = length
              /\ body' = SubSeq(rest, 1, Min({length, Len(rest)}))
              /\ left' = length - Len(body')
              /\ recv' = IF left' > 0 THEN "content" ELSE "response"
              /\ data' = <<>>
              /\ UNCHANGED response

\* A turn of readFixSize().
ReadContent(n) ==
    /\ recv = "content"
    /\ Reads(n, left)
    /\ body' = body \o SubSeq(arriving, 1, n)
    /\ left' = left - n
    /\ recv' = IF left' > 0 THEN recv ELSE "response"
    /\ UNCHANGED <<response, parser, data, content_len, cut>>

AfterChunk(size) == IF size = 0 THEN "response" ELSE "size"

\* Faulty variant: the CRLF behind the chunk is not taken off what is left to be read.
TakeChunkWithoutCrlf(size, rest) ==
    IF size + 2 <= Len(rest)
      THEN /\ body' = body \o SubSeq(rest, 1, size)
           /\ data' = SubSeq(rest, size + 3, Len(rest))
           /\ recv' = AfterChunk(size)
           /\ UNCHANGED left
      ELSE /\ body' = body \o rest
           /\ left' = size + 2
           /\ data' = <<>>
           /\ recv' = "data"

\* Lines 101-123: the chunk is in the buffer with its CRLF, or is read to its end.
TakeChunk(size, rest) ==
    IF size + 2 <= Len(rest)
      THEN /\ body' = body \o SubSeq(rest, 1, size)
           /\ data' = SubSeq(rest, size + 3, Len(rest))
           /\ recv' = AfterChunk(size)
           /\ UNCHANGED left
      ELSE /\ body' = body \o rest
           /\ left' = size - Len(rest) + 2
           /\ data' = <<>>
           /\ recv' = "data"

\* A turn of the loop of lines 73-98 on the tokens of a chunk-size line.
ParseSize(tokens) ==
    LET chunk == ExecuteChunk(tokens)
    IN  /\ UNCHANGED <<response, parser>>
        /\ cut' = IF chunk.finished \/ chunk.error THEN cut ELSE cut \cup {"size"}
        /\ \/ chunk.error /\ Fails /\ UNCHANGED data
           \/ /\ ~ chunk.error /\ ~ chunk.finished
              /\ data' = <<>>
              /\ UNCHANGED <<recv, content_len, left, body>>
           \/ /\ chunk.finished
              /\ content_len' = chunk.value
              /\ TakeChunk(chunk.value, SubSeq(tokens, chunk.nparse + 1, Len(tokens)))

\* begin, with something in the buffer: no read.
SizeInBuffer ==
    /\ recv = "size" /\ data # <<>>
    /\ ParseSize(data)
    /\ UNCHANGED arriving

ReadChunkSize(n) ==
    /\ recv = "size" /\ data = <<>>
    /\ Reads(n, buff_size)
    /\ ParseSize(SubSeq(arriving, 1, n))

\* A turn of the loop that reads the rest of a chunk, and body.resize(size - 2).
ReadData(n) ==
    LET all == body \o SubSeq(arriving, 1, n)
    IN  /\ recv = "data"
        /\ Reads(n, Min({left, buff_size}))
        /\ left' = left - n
        /\ body' = IF left' > 0 THEN all ELSE SubSeq(all, 1, Len(all) - 2)
        /\ recv' = IF left' > 0 THEN recv ELSE AfterChunk(content_len)
        /\ UNCHANGED <<response, parser, data, content_len, cut>>

ConnectionNext ==
    \/ PeerCloses
    \/ SizeInBuffer
    \/ \E n \in 1 .. Len(arriving) :
         ReadHeader(n) \/ ReadContent(n) \/ ReadChunkSize(n) \/ ReadData(n)

ConnectionSpec == ConnectionInit /\ [][ConnectionNext]_connectionVars
-----------------------------------------------------------------------------
(* Properties.                                                             *)

\* However the response is cut into reads, recvResponse() returns it with the body
\* that the server has sent, or nullptr if the peer has closed, as long as no read
\* ends inside the status line, the Content-Length line or a chunk-size line: chunks
\* and content may be cut anywhere.  A status line that is cut fails or has status 0;
\* a Content-Length line that is cut leaves the body unread; a chunk-size line that
\* is cut fails or has another size (http_parser.cc:210-212), with a wrong body.
ResponseExact ==
    LET intact == cut \cap {"status", "length", "size"} = {}
    IN  /\ recv = "response" /\ intact => parser.status = "200" /\ body = Content(response)
        /\ recv = "response" /\ "length" \in cut => body = <<>>
        /\ recv = "null" /\ intact => "peer" \in cut
=============================================================================
