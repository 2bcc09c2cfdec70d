------------------------ MODULE HttpResponseParser ------------------------
(***************************************************************************)
(* The HTTP response parser (sylar/http/parser11/httpclient_parser.rl and  *)
(* the automaton generated from it), its callbacks in                      *)
(* sylar/http/http_parser.cc and the first loop of                         *)
(* HttpConnection::recvResponse.  Pieces, offsets and reports are as in    *)
(* module HttpRequestParser.                                               *)
(*                                                                         *)
(* Besides any header, the grammar looks for three: Connection: close,     *)
(* Transfer-Encoding: chunked and Content-Length: digits.  The automaton   *)
(* follows a name or a value letter by letter with the words it may still  *)
(* become.  The class of a character that continues the word w is w itself *)
(* ("number" for a digit); "tok" is any other token character, "sep" one   *)
(* that may only be in a value, "sp" the blanks that space* skips, but for *)
(* CR and LF, which it skips as well.  No other header's name ends in one  *)
(* of the three.                                                           *)
(***************************************************************************)
EXTENDS Integers, FiniteSets, FiniteSetsExt

CONSTANTS
    Responses,   \* records [head, length, chars]: bounds on the status line or
                 \* chunk header, on the whole, and on the classes
    WordLength,  \* the words' lengths
    MaxReads     \* bound on the number of pieces that a response arrives in

Names == {"Connection", "Content-Length", "Transfer-Encoding"}
Values == {"close", "chunked", "number"}
Word == Names \cup Values

\* What the grammar wants to see as the value of each of the names.
ValueOf == [w \in Names |-> CASE w = "Connection" -> "close"
                              [] w = "Transfer-Encoding" -> "chunked"
                              [] w = "Content-Length" -> "number"]

\* How many letters two different words have in common at their start.
Common(v, w) ==
    CASE {v, w} = {"Connection", "Content-Length"} -> 3
      [] {v, w} \cap {"Transfer-Encoding", "number"} # {} -> 0
      [] OTHER -> 1

Class == Word \cup {"hex", "H", "T", "P", "/", ".", "tok", "sep", ":", ";", "=",
                    "sp", "CR", "LF"}

NULL == -1
Empty == <<>>

VARIABLES
    bound,    \* the bounds chosen for this response
    cs,       \* the region of the automaton
    kw,       \* the header that the regions whose names start with K belong to
    cand,     \* the words that the text since the last delimiter may become
    count,    \* the letters of them, or of "HTTP/", read so far
    p,        \* bytes of the response consumed
    base,     \* where in the response the buffer starts
    pieces,   \* history: where the pieces read so far start
    s,        \* the parser's offsets and flags, and its callbacks' arguments
    content_length,  \* the value m_headers holds under "content-length"
    head,     \* history: where the status line's blanks and end are
    line,     \* history: where the last header's name, colon, value and end are
    wants,    \* history: chunked, and the digits of a size, as the text has them
    lengths,  \* history: the Content-Length lines read
    result    \* how the loop ended

history == <<head, line, wants>>
lengthVars == <<content_length, lengths>>
vars == <<bound, cs, kw, cand, count, p, base, pieces, s, history, lengthVars, result>>

-----------------------------------------------------------------------------
(* The actions of the grammar and the callbacks.                           *)

Parser0 == [mark |-> 0, field_start |-> 0, field_len |-> 0,
            version |-> Empty, status |-> Empty, reason |-> Empty,
            field |-> Empty, value |-> Empty, dropped |-> FALSE,
            chunk |-> Empty, content_len |-> Empty, chunked |-> FALSE,
            close |-> FALSE, body_start |-> 0, error |-> FALSE]

Offset == p - base
From(at) == <<base + at, p>>

\* atoi or strtol at PTR_TO(mark): the digits the number is read from.  When a
\* read ended right behind the digits none are left in the buffer: the call then
\* skips blanks and line breaks, and reads whatever number, or 0, follows.
Digits(at) == IF at < Offset THEN From(at) ELSE <<p, NULL>>

mark(r) == [r EXCEPT !.mark = Offset]
start_field(r) == [r EXCEPT !.field_start = Offset]
start_value(r) == [r EXCEPT !.mark = Offset]

\* Slip: the length counts from the start of the buffer.
write_field_Whole(r) == [r EXCEPT !.field_len = Offset]

write_field(r) == [r EXCEPT !.field_len = Offset - r.field_start]

\* on_response_http_field ignores a field whose name has length 0.
write_value(r) ==
    IF r.field_len = 0 THEN [r EXCEPT !.dropped = TRUE]
    ELSE [r EXCEPT !.dropped = FALSE,
                   !.field = <<base + r.field_start,
                               base + r.field_start + r.field_len>>,
                   !.value = From(r.mark)]

write_content_len(r) == [r EXCEPT !.content_len = Digits(r.mark)]

write_connection_close(r) == [r EXCEPT !.close = TRUE]
trans_chunked(r) == [r EXCEPT !.chunked = TRUE]
chunk_size(r) == [r EXCEPT !.chunked = TRUE, !.chunk = From(r.mark),
                           !.content_len = Digits(r.mark)]

\* on_response_status: atoi(at), without the length.
status_code(r) == [r EXCEPT !.status = Digits(r.mark)]
reason_phrase(r) == [r EXCEPT !.reason = From(r.mark)]

\* on_response_version: strncmp over the length reported, which is satisfied by a
\* length of 0 and otherwise by the whole of HTTP/1.1 or HTTP/1.0 (known) only.
http_version(r, known) ==
    [r EXCEPT !.version = From(r.mark),
              !.error = Offset # r.mark /\ ~(known /\ From(r.mark) = <<0, 8>>)]

\* done: fbreak leaves the automaton with the character consumed.
done(r) == [r EXCEPT !.body_start = Offset + 1]

-----------------------------------------------------------------------------
TypeOK ==
    /\ bound \in Responses
    /\ kw \in Names \cup {"none"} /\ cand \subseteq Word
    /\ p \in 0..bound.length /\ pieces \subseteq 0..p /\ base = Max(pieces)
    /\ s.mark \in 0..Offset /\ s.field_start \in 0..Offset
    /\ s.field_len \in 0..Offset
    /\ \A w \in cand \ {"number"} : count <= WordLength[w]
    /\ result \in {"none", "head", "closed", "asserts"}

Head0 == [sp1 |-> NULL, sp2 |-> NULL, end |-> NULL]
Wants0 == [chunked |-> FALSE, size |-> Empty]
Line0 == [start |-> NULL, colon |-> NULL, value |-> NULL, end |-> NULL]

Init ==
    /\ bound \in Responses
    /\ cs = "start" /\ kw = "none" /\ cand = {} /\ count = 0
    /\ p = 0 /\ base = 0 /\ pieces = {0} /\ s = Parser0
    /\ head = Head0 /\ line = Line0 /\ wants = Wants0 /\ result = "none"
    /\ content_length = Empty /\ lengths = {}

HeadRegion ==
    {"start", "http", "vmajor", "vdot", "vminor", "status0", "status", "reason0",
     "reason", "chunksize", "ext0", "ext", "extval0", "extval"}

Running == result = "none" /\ cs # "done"

Starts(l) == IF l.value = NULL THEN [l EXCEPT !.value = p] ELSE l
Ends(l) == [Starts(l) EXCEPT !.end = p]

\* c ends a line whose name is Content-Length; every such line is reported.
LengthEnds(c) ==
    /\ kw = "Content-Length" /\ c \in {"CR", "LF"}
    /\ cs \in {"Kcolon", "Kvalue", "value", "Kfold"}

\* setHeader, which getContentLength looks the length up by, with the header that
\* r has reported: under "content-length" if that is all of the name it was given.
setHeader(c, r) ==
    IF LengthEnds(c) /\ r.field_len = WordLength["Content-Length"] THEN r.value
    ELSE content_length

\* One character of class c is consumed.  A region that follows `done` is only
\* left in the next call of http_parser_execute.
Consumes(c, to, r) ==
    /\ Running
    /\ p < bound.length /\ c \in bound.chars
    /\ cs \in HeadRegion => p < bound.head
    /\ cs = "Kdone" => p = base
    /\ cs' = to /\ s' = r /\ p' = p + 1
    /\ content_length' = setHeader(c, r)
    /\ lengths' = IF LengthEnds(c)
                  THEN lengths \cup {[colon |-> line.colon, value |-> Starts(line).value, end |-> p]}
                  ELSE lengths
    /\ UNCHANGED <<bound, base, pieces, result>>

Plain(c, to, r) == Consumes(c, to, r) /\ UNCHANGED <<kw, cand, count, history>>

\* The same, at a delimiter of the status line.
Delimits(c, to, r, at) ==
    /\ Consumes(c, to, r)
    /\ head' = [head EXCEPT ![at] = p]
    /\ UNCHANGED <<kw, cand, count, line, wants>>

-----------------------------------------------------------------------------
(* A chunk's header: its size in hexadecimal and its extensions.           *)

Start ==
    /\ cs = "start"
    /\ \/ \E c \in {"number", "hex"} : Plain(c, "chunksize", mark(s))
       \/ Consumes("H", "http", mark(s)) /\ count' = 1 /\ UNCHANGED <<kw, cand, history>>

ChunkSize ==
    /\ cs = "chunksize"
    /\ \/ \E c \in {"number", "hex"} : Plain(c, "chunksize", s)
       \/ /\ \/ Consumes("LF", "done", done(chunk_size(s)))
             \/ Consumes("CR", "endcr", chunk_size(s))
             \/ Consumes(";", "ext0", chunk_size(s))
          /\ wants' = [wants EXCEPT !.chunked = TRUE, !.size = <<0, p>>]
          /\ UNCHANGED <<kw, cand, count, head, line>>

ChunkExtension ==
    \/ cs = "ext0" /\ Plain("tok", "ext", start_field(s))
    \/ /\ cs = "ext"
       /\ LET r == start_value(write_field(s)) IN
          \/ Plain("tok", "ext", s)
          \/ Plain("=", "extval0", r)
          \/ Plain(";", "ext0", write_value(r))
          \/ Plain("LF", "done", done(write_value(r)))
          \/ Plain("CR", "endcr", write_value(r))
    \/ cs = "extval0" /\ Plain("tok", "extval", start_value(s))
    \/ /\ cs = "extval"
       /\ \/ Plain("tok", "extval", s)
          \/ Plain(";", "ext0", write_value(s))
          \/ Plain("LF", "done", done(write_value(s)))
          \/ Plain("CR", "endcr", write_value(s))

\* The CR of the line that ends a chunk's header or a response's head.
EndCR == cs = "endcr" /\ Plain("LF", "done", done(s))

-----------------------------------------------------------------------------
(* The status line.                                                        *)

HttpText == <<"H", "T", "T", "P", "/">>

Http ==
    /\ cs = "http"
    /\ \/ /\ count < 5
          /\ Consumes(HttpText[count + 1], "http", s)
          /\ count' = count + 1
       \/ /\ count = 5
          /\ Consumes("number", "vmajor", s)
          /\ count' = 0
    /\ UNCHANGED <<kw, cand, history>>

HttpNumber ==
    \/ cs = "vmajor" /\ (Plain("number", "vmajor", s) \/ Plain(".", "vdot", s))
    \/ cs = "vdot" /\ Plain("number", "vminor", s)
    \/ /\ cs = "vminor"
       /\ \/ Plain("number", "vminor", s)
          \/ \E known \in BOOLEAN :
                Delimits("sp", "status0", http_version(s, known), "sp1")

\* Slip: the status code is not marked.
StatusCode_NoMark ==
    \/ cs = "status0" /\ Plain("number", "status", s)
    \/ /\ cs = "status"
       /\ \/ Plain("number", "status", s)
          \/ Delimits("sp", "reason0", status_code(s), "sp2")

StatusCode ==
    \/ cs = "status0" /\ Plain("number", "status", mark(s))
    \/ /\ cs = "status"
       /\ \/ Plain("number", "status", s)
          \/ Delimits("sp", "reason0", status_code(s), "sp2")

ReasonPhrase ==
    \/ /\ cs = "reason0"
       /\ \E c \in {"tok", "sep", "sp", "CR"} : Plain(c, "reason", mark(s))
    \/ /\ cs = "reason"
       /\ \/ \E c \in {"tok", "sep", "sp"} : Plain(c, "reason", s)
          \/ Delimits("LF", "line", reason_phrase(s), "end")
          \/ Delimits("CR", "cr", reason_phrase(s), "end")

-----------------------------------------------------------------------------
(* Words.                                                                  *)

\* Character c continues the words in `words`, n letters of which were read, or
\* is a token character that continues none.
Letter(c, to, r, words, n) ==
    /\ c \in words \cup {"tok"}
    /\ c \in words \ {"number"} => n < WordLength[c]
    /\ Consumes(c, to, r)
    /\ cand' = IF c = "tok" THEN {} ELSE {v \in words : v = c \/ Common(v, c) > n}
    /\ count' = IF cand' \subseteq {"number"} THEN 0 ELSE n + 1
    /\ UNCHANGED <<head, wants>>

Whole(w) == w \in cand /\ (w # "number" => count = WordLength[w])

\* The end of a line whose value is the whole word w; `reported` says whether
\* the grammar's alternative for it reports the header.
ValueEnds(w, reported) ==
    LET r == IF w = "number" THEN write_content_len(s) ELSE s
        r1 == IF reported THEN write_value(r) ELSE r
    IN  /\ \/ /\ w = "close"
             /\ (Consumes("LF", "closeline", r1) \/ Consumes("CR", "closecr", r1))
          \/ /\ w = "chunked"
             /\ \/ Consumes("LF", "line", trans_chunked(r1))
                \/ Consumes("CR", "chunkedcr", r1)
          \/ /\ w = "number"
             /\ (Consumes("LF", "line", r1) \/ Consumes("CR", "cr", r1))
        /\ wants' = CASE w = "close" -> wants
                      [] w = "chunked" -> [wants EXCEPT !.chunked = TRUE]
                      [] w = "number" ->
                            [wants EXCEPT !.size = <<Max({line.start, line.value}), p>>]
        /\ cand' = {} /\ count' = 0 /\ UNCHANGED <<kw, head>>

-----------------------------------------------------------------------------
(* Headers.                                                                *)

\* A line begins; write_connection_close is due after Connection: close.
HeaderLine ==
    /\ cs \in {"line", "closeline"}
    /\ LET r == IF cs = "closeline" THEN write_connection_close(s) ELSE s IN
       \/ /\ \E c \in Class : Letter(c, "name", start_field(r), Names, 0)
          /\ line' = [Line0 EXCEPT !.start = p] /\ kw' = "none"
       \/ Plain("LF", "done", done(r))
       \/ Plain("CR", "endcr", r)

\* A name.  After an empty value of one of the three headers it may also be the
\* value, one line late.
FieldName ==
    /\ cs = "name"
    /\ \/ /\ \E c \in Class : Letter(c, "name", s, cand, count)
          /\ UNCHANGED <<kw, line>>
       \/ /\ \E w \in Names : /\ Whole(w)
                              /\ Consumes(":", "Kcolon", write_field(s)) /\ kw' = w
          /\ line' = [line EXCEPT !.colon = p]
          /\ cand' = {} /\ count' = 0 /\ UNCHANGED <<head, wants>>
       \/ /\ ~\E w \in Names : Whole(w)
          /\ Consumes(":", "colon", write_field(s))
          /\ line' = [line EXCEPT !.colon = p]
          /\ cand' = {} /\ count' = 0 /\ UNCHANGED <<kw, head, wants>>
       \/ /\ \E w \in Values : Whole(w) /\ ValueEnds(w, w # "close")
          /\ line' = Line0

FieldValue ==
    /\ cs \in {"colon", "value"}
    /\ LET r == IF cs = "colon" THEN start_value(s) ELSE s IN
       \/ /\ \E c \in {"tok", "sep", ":"} : Consumes(c, "value", r)
          /\ line' = Starts(line)
       \/ Consumes("sp", cs, r) /\ UNCHANGED line
       \/ Consumes("LF", "line", write_value(r)) /\ line' = Ends(line)
       \/ Consumes("CR", "cr", write_value(r)) /\ line' = Ends(line)
    /\ UNCHANGED <<kw, cand, count, head, wants>>

\* Slip: trans_chunked is only run for a bare LF.
CarriageReturn_ForgetsChunked ==
    \/ cs \in {"cr", "chunkedcr"} /\ Plain("LF", "line", s)
    \/ cs = "closecr" /\ Plain("LF", "closeline", s)

CarriageReturn ==
    \/ cs = "cr" /\ Plain("LF", "line", s)
    \/ cs = "closecr" /\ Plain("LF", "closeline", s)
    \/ cs = "chunkedcr" /\ Plain("LF", "line", trans_chunked(s))

\* Behind the colon of one of the three headers.
KeywordColon ==
    /\ cs = "Kcolon"
    /\ \/ /\ Letter(ValueOf[kw], "Kvalue", start_value(s), {ValueOf[kw]}, 0)
          /\ line' = Starts(line)
       \/ /\ \E c \in {"tok", "sep", ":"} : Consumes(c, "value", start_value(s))
          /\ line' = Starts(line) /\ UNCHANGED <<cand, count, head, wants>>
       \/ /\ Consumes("sp", "Kcolon", start_value(s))
          /\ UNCHANGED <<cand, count, history>>
       \/ /\ \/ Consumes("LF", "Kline", write_value(start_value(s)))
             \/ Consumes("CR", "Kcolcr", write_value(start_value(s)))
          /\ line' = Ends(line) /\ UNCHANGED <<cand, count, head, wants>>
    /\ UNCHANGED kw

\* Inside the value, as long as it may be the word that the grammar wants.
KeywordValue ==
    /\ cs = "Kvalue"
    /\ LET w == ValueOf[kw] IN
       \/ Letter(w, "Kvalue", s, cand, count) /\ UNCHANGED <<kw, line>>
       \/ /\ \E c \in {"tok", "sep", "sp", ":"} : Consumes(c, "value", s)
          /\ cand' = {} /\ count' = 0 /\ UNCHANGED <<kw, history>>
       \/ Whole(w) /\ ValueEnds(w, TRUE) /\ line' = Ends(line)
       \/ /\ ~Whole(w)
          /\ \/ Consumes("LF", "line", write_value(s))
             \/ Consumes("CR", "cr", write_value(s))
          /\ cand' = {} /\ count' = 0 /\ line' = Ends(line)
          /\ UNCHANGED <<kw, head, wants>>

\* The first letter of the value, behind line breaks that space* took in.
FoldedStart ==
    /\ Letter(ValueOf[kw], "Kfold", IF kw = "Connection" THEN s ELSE start_value(s),
              {ValueOf[kw]}, 0)
    /\ line' = Starts([Line0 EXCEPT !.colon = line.colon]) /\ UNCHANGED kw

\* The line behind an empty value is a header, the end of the head (in a state
\* that is not the one httpclient_parser_is_finished asks for) or the value.
KeywordLine ==
    /\ cs = "Kline"
    /\ LET w == ValueOf[kw]
           marks == CASE w = "close" -> {}
                      [] w = "chunked" -> {w, "Connection", "Content-Length"}
                      [] w = "number" -> {w}
           r(c) == IF c \in marks THEN start_field(start_value(s)) ELSE start_field(s)
       IN  \/ /\ \E c \in Class : Letter(c, "name", r(c), Names \cup {w}, 0)
              /\ line' = [Line0 EXCEPT !.start = p] /\ kw' = "none"
           \/ Plain("sp", "Kspace", s)
           \/ Plain("LF", "Kdone", done(s))
           \/ Plain("CR", "Kendcr", s)

KeywordSpace ==
    \/ /\ cs \in {"Kspace", "Kdone"}
       /\ (\E c \in {"sp", "CR", "LF"} : Plain(c, "Kspace", s)) \/ FoldedStart
    \/ /\ cs \in {"Kendcr", "Kcolcr"}
       /\ \/ \E c \in {"sp", "CR"} : Plain(c, "Kspace", s)
          \/ FoldedStart
          \/ cs = "Kendcr" /\ Plain("LF", "Kdone", done(s))
          \/ cs = "Kcolcr" /\ Plain("LF", "Kline", s)

FoldedValue ==
    /\ cs = "Kfold"
    /\ LET w == ValueOf[kw] IN
       \/ Letter(w, "Kfold", s, cand, count) /\ UNCHANGED kw
       \/ Whole(w) /\ ValueEnds(w, w # "close")
    /\ UNCHANGED line

\* The automaton spells the three headers out, each with states of its own: the
\* name, the line behind the colon, the value, and the value one line late.
ConnectionName == cand \cap Values = {} /\ "Connection" \in cand /\ FieldName
TransferEncodingName == cand = {"Transfer-Encoding"} /\ FieldName
ContentLengthName == cand = {"Content-Length"} /\ FieldName
OtherName == cand = {} /\ FieldName

KeywordHeader(w) == kw = w /\ (KeywordColon \/ KeywordLine \/ KeywordSpace)
Connection == KeywordHeader("Connection")
TransferEncoding == KeywordHeader("Transfer-Encoding")
ContentLength == KeywordHeader("Content-Length")

Close == kw = "Connection" /\ KeywordValue
Chunked == kw = "Transfer-Encoding" /\ KeywordValue
Length == kw = "Content-Length" /\ KeywordValue

FoldedClose == kw = "Connection" /\ FoldedValue
FoldedChunked == kw = "Transfer-Encoding" /\ FoldedValue
FoldedLength == kw = "Content-Length" /\ FoldedValue

LateClose == "close" \in cand /\ FieldName
LateChunked == "chunked" \in cand /\ FieldName
LateLength == "number" \in cand /\ FieldName

Header ==
    \/ HeaderLine \/ FieldValue \/ CarriageReturn
    \/ ConnectionName \/ TransferEncodingName \/ ContentLengthName \/ OtherName
    \/ Connection \/ TransferEncoding \/ ContentLength
    \/ Close \/ Chunked \/ Length
    \/ FoldedClose \/ FoldedChunked \/ FoldedLength
    \/ LateClose \/ LateChunked \/ LateLength

-----------------------------------------------------------------------------
(* The read loop.                                                          *)

Untouched == UNCHANGED <<bound, cs, kw, cand, count, p, base, pieces, s, history, lengthVars>>

\* execute consumed a piece to its end, or to `done`; its assertions hold.
PieceOK == p - base >= s.body_start

\* Slip: the offsets of the piece before are kept.
NextRead_KeepsOffsets ==
    /\ Running /\ ~s.error /\ PieceOK
    /\ p > base /\ Cardinality(pieces) < MaxReads
    /\ base' = p /\ pieces' = pieces \cup {p}
    /\ UNCHANGED <<bound, cs, kw, cand, count, p, s, history, lengthVars, result>>

NextRead ==
    /\ Running /\ ~s.error /\ PieceOK
    /\ p > base /\ Cardinality(pieces) < MaxReads
    /\ base' = p /\ pieces' = pieces \cup {p}
    /\ s' = [s EXCEPT !.mark = 0, !.field_start = 0, !.field_len = 0]
    /\ UNCHANGED <<bound, cs, kw, cand, count, p, history, lengthVars, result>>

\* "body starts after buffer end": body_start is of an earlier, longer piece.
Asserts ==
    /\ result = "none" /\ p > base /\ ~PieceOK
    /\ result' = "asserts"
    /\ Untouched

Closes == Running /\ result' = "closed" /\ Untouched

\* isFinished: the automaton is in the first of its final states.
Finishes ==
    /\ result = "none" /\ cs = "done" /\ PieceOK
    /\ result' = IF s.error THEN "closed" ELSE "head"
    /\ Untouched

Done == result # "none" /\ UNCHANGED vars

Next ==
    \/ Start \/ ChunkSize \/ ChunkExtension \/ EndCR
    \/ Http \/ HttpNumber \/ StatusCode \/ ReasonPhrase
    \/ Header
    \/ NextRead \/ Asserts \/ Closes \/ Finishes \/ Done

Spec == Init /\ [][Next]_vars

-----------------------------------------------------------------------------
(* Correctness.                                                            *)

\* Where the piece that holds position q starts.
Piece(q) == Max({b \in pieces : b <= q})

\* The part of a range that is in the piece in which the character behind it is.
Kept(r) == <<Max({r[1], Piece(r[2])}), r[2]>>

\* The digits a number is read from, or that none of them are in that piece.
Number(r) == IF Kept(r)[1] < r[2] THEN Kept(r) ELSE <<r[2], NULL>>

\* When the loop ends with a status line read, the callbacks were given all of
\* the version, and of the reason phrase the part that came in the same piece as
\* its end, and the status is the number that this part of the code spells (or
\* what atoi finds behind it).  (A version that is cut is an error, unless
\* nothing of it is left: strncmp then compares 0 characters.)
StatusLineAgrees ==
    result = "head" /\ head.end # NULL =>
       /\ s.version \in {<<0, head.sp1>>, <<head.sp1, head.sp1>>}
       /\ s.status = Number(<<head.sp1 + 1, head.sp2>>)
       /\ s.reason = Kept(<<head.sp2 + 1, head.end>>)

HeaderRead ==
    /\ cs \in {"line", "cr", "closeline", "closecr", "chunkedcr", "Kline", "Kcolcr"}
    /\ line.start # NULL /\ line.end # NULL

\* A header line is handed to on_response_http_field with its name and value
\* exactly when no read ended between the last character of the name and the end
\* of the line; otherwise it is lost.  Only the beginning of a name can be cut.
HeaderAgrees ==
    HeaderRead =>
       LET stored == Piece(line.end) < line.colon IN
       /\ s.dropped = ~stored
       /\ stored => /\ s.field = Kept(<<line.start, line.colon>>)
                    /\ s.value = <<line.value, line.end>>

\* The Content-Length lines that came in one piece from name to end.
WholeLengths ==
    {l \in lengths : Piece(l.end) <= l.colon - WordLength["Content-Length"]}

\* When the loop ends, recvResponse frames the body as the text asks for.
\* `chunked` (http_connection.cc:62) is set exactly when a line, or a chunk's
\* header, says so, wherever the reads ended.  The header that getContentLength
\* (:113) looks up is the last Content-Length line that no read split, or none:
\* a line that a read splits is not found under its name.  And content_len, by
\* which the chunk loop (:91) cuts what follows a chunk's header, is read from the
\* digits of the size that are in the buffer when they end.
FramingAgrees ==
    result = "head" =>
       /\ s.chunked = wants.chunked
       /\ IF WholeLengths = {} THEN content_length = Empty
          ELSE \E l \in WholeLengths :
                  /\ content_length = <<l.value, l.end>>
                  /\ \A k \in WholeLengths : k.end <= l.end
       /\ s.content_len = IF wants.size = Empty THEN Empty ELSE Number(wants.size)

=============================================================================
