---------------------------- MODULE ResponseProofs ----------------------------
(* httpclient_parser_execute behind recvResponse, for responses of any length  *)
(* that arrive in any pieces: status line, headers and what frames the body.   *)
EXTENDS ParserProofs

-----------------------------------------------------------------------------
(* The inductive invariant *)

\* Where a number was read from: its digits, or what follows them.
Num == Cut \cup (Nat \X {NULL})

RspFields ==
    [mark : Nat, field_start : Nat, field_len : Nat, version : Cut, status : Num, reason : Cut, field : Cut,
     value : Cut, dropped : BOOLEAN, chunk : Cut, content_len : Num, chunked : BOOLEAN, close : BOOLEAN,
     body_start : Nat, error : BOOLEAN]
RspHeads == [sp1 : Pos, sp2 : Pos, end : Pos]
RspLines == [start : Pos, colon : Pos, value : Pos, end : Pos]
RspWants == [chunked : BOOLEAN, size : Cut]

\* Offsets are inside the piece.
RspGood(r) ==
    /\ r \in RspFields
    /\ base + r.mark <= p /\ base + r.field_start <= p /\ base + r.field_len <= p

\* No more letters than a word has were read of it.
RspWords ==
    /\ count \in Nat /\ cand \subseteq R!Word
    /\ \A w \in cand \ {"number"} : count <= WordLength[w]
    /\ cs \in {"start", "http"} => cand = {}

RspTypes ==
    /\ bound \in Responses /\ kw \in R!Names \cup {"none"}
    /\ p \in 0..bound.length /\ PiecesOK /\ RspGood(s)
    /\ head \in RspHeads /\ line \in RspLines /\ wants \in RspWants
    /\ result \in {"none", "head", "closed", "asserts"}
    /\ RspWords

\* The digits from a to q that are in the piece of q, or that there are none.
NumberAt(a, q) ==
    IF Later(a, LastPiece(pieces, q)) < q THEN <<Later(a, LastPiece(pieces, q)), q>> ELSE <<q, NULL>>

\* A version that is cut is an error, unless nothing is left of it.
VersionRead(r) ==
    /\ head.sp1 >= 0 /\ head.sp1 < p
    /\ r.error \/ r.version = <<0, head.sp1>> \/ r.version = <<head.sp1, head.sp1>>
StatusRead(r) ==
    /\ VersionRead(r) /\ head.sp2 >= 0 /\ head.sp2 < p
    /\ r.status = NumberAt(head.sp1 + 1, head.sp2)
StatusLineRead(r) ==
    /\ StatusRead(r) /\ head.end >= 0 /\ head.end < p
    /\ r.reason = <<Later(head.sp2 + 1, LastPiece(pieces, head.end)), head.end>>

ChunkRegion == {"chunksize", "ext0", "ext", "extval0", "extval"}
VersionRegion == {"http", "vmajor", "vdot", "vminor"}
StatusRegion == {"status0", "status", "reason0", "reason"}
HeaderRegion == {"line", "closeline", "cr", "closecr", "chunkedcr", "name", "colon", "value", "Kcolon", "Kvalue",
                 "Kline", "Kspace", "Kdone", "Kendcr", "Kcolcr", "Kfold"}
LineEnd == {"line", "closeline", "cr", "closecr", "chunkedcr", "Kline", "Kcolcr"}
LateEnd == {"endcr", "done"}

\* The status line.
HeadAt(region) ==
    /\ region = "start" => p = 0 /\ s.mark = 0 /\ head = R!Head0
    /\ region \in ChunkRegion => head = R!Head0
    /\ region = "chunksize" => s.mark = 0
    /\ region \in VersionRegion => s.mark = 0 /\ head = R!Head0
    /\ region = "status0" => VersionRead(s) /\ head.sp1 = p - 1 /\ head.end = NULL
    /\ region = "status" => VersionRead(s) /\ MarkAt(s, head.sp1 + 1) /\ head.end = NULL
    /\ region = "reason0" => StatusRead(s) /\ head.sp2 = p - 1 /\ head.end = NULL
    /\ region = "reason" => StatusRead(s) /\ MarkAt(s, head.sp2 + 1) /\ head.end = NULL
    /\ region \in HeaderRegion => StatusLineRead(s)
    /\ region \in LateEnd => head.end = NULL \/ StatusLineRead(s)

\* The last header was stored if no read ended behind its name.
FieldRead ==
    /\ line.start >= 0 /\ line.colon >= 0 /\ line.value >= 0 /\ line.colon < line.end /\ line.end < p
    /\ IF LastPiece(pieces, line.end) < line.colon
       THEN /\ s.dropped = FALSE
            /\ s.field = <<Later(line.start, LastPiece(pieces, line.colon)), line.colon>>
            /\ s.value = <<line.value, line.end>>
       ELSE s.dropped = TRUE

\* The name, unless a read ended behind it.
NameRead ==
    /\ line.start >= 0 /\ line.start < line.colon /\ line.colon < p /\ line.end = NULL
    /\ IF base <= line.colon
       THEN /\ base + s.field_start = Later(line.start, base)
            /\ base + s.field_start + s.field_len = line.colon
       ELSE s.field_len = 0
RspName ==
    /\ line.start >= 0 /\ line.start < p /\ line.colon = NULL /\ line.value = NULL /\ line.end = NULL
    /\ base + s.field_start = Later(line.start, base)
    /\ "number" \in cand => MarkAt(s, line.start)
RspColon == NameRead /\ line.value = NULL
RspValue == NameRead /\ line.colon < line.value /\ line.value < p /\ MarkAt(s, line.value)

\* The last header.
FieldAt(region) ==
    /\ region \in {"start"} \cup VersionRegion \cup StatusRegion => line = R!Line0
    /\ region \in LineEnd => line.start = NULL \/ FieldRead
    /\ region = "name" => RspName
    /\ region \in {"colon", "Kcolon"} => RspColon
    /\ region \in {"value", "Kvalue"} => RspValue
    /\ region = "Kfold" => /\ line.start = NULL /\ line.value >= 0 /\ line.value < p
                           /\ kw # "Connection" => MarkAt(s, line.value)

\* The digits of the length that came in the piece where they end.
LengthRead(r) ==
    IF wants.size = <<>> THEN r.content_len = <<>>
    ELSE /\ wants.size \in Nat \X Nat /\ wants.size[2] < p
         /\ r.content_len = NumberAt(wants.size[1], wants.size[2])

\* What frames the body.
FrameAt(region) ==
    /\ LengthRead(s)
    /\ IF region = "chunkedcr" THEN wants.chunked ELSE s.chunked = wants.chunked

RspInv ==
    /\ RspTypes /\ HeadAt(cs) /\ FieldAt(cs) /\ FrameAt(cs)
    /\ result = "head" => cs = "done" /\ ~s.error

RInv == parser = "response" => RspInv

-----------------------------------------------------------------------------
(* What the grammar's actions change *)

SameHead(u, v) == u.version = v.version /\ u.status = v.status /\ u.reason = v.reason /\ u.error = v.error
SameFrame(u, v) == u.content_len = v.content_len /\ u.chunked = v.chunked
SameName(u, v) == u.field_start = v.field_start /\ u.field_len = v.field_len
SameStored(u, v) == u.field = v.field /\ u.value = v.value /\ u.dropped = v.dropped

\* on_response_http_field has been given the header, in u, that r describes.
Stored(u, r) ==
    IF r.field_len = 0 THEN u.dropped = TRUE
    ELSE /\ u.dropped = FALSE
         /\ u.field = <<base + r.field_start, base + r.field_start + r.field_len>>
         /\ u.value = <<base + r.mark, p>>

\* The number that strtol or atoi reads now, at offset at.
ReadFrom(at) == IF base + at < p THEN <<base + at, p>> ELSE <<p, NULL>>

LEMMA RspFrom ==
    ASSUME PiecesOK, NEW r, RspGood(r)
    PROVE  /\ R!From(r.mark) \in Cut /\ R!From(r.mark) = <<base + r.mark, p>>
           /\ <<base + r.field_start, base + r.field_start + r.field_len>> \in Cut
           /\ R!Digits(r.mark) \in Num /\ R!Digits(r.mark) = ReadFrom(r.mark)
<1>1. p \in Nat /\ base \in Nat /\ r.mark \in Nat /\ r.field_start \in Nat /\ r.field_len \in Nat
    BY DEF PiecesOK, RspGood, RspFields
<1>2. R!From(r.mark) \in Cut /\ R!From(r.mark) = <<base + r.mark, p>>
    BY <1>1 DEF R!From, Cut
<1>3. r.mark < R!Offset <=> base + r.mark < p
    BY <1>1 DEF R!Offset
<1>4. R!Digits(r.mark) \in Num /\ R!Digits(r.mark) = ReadFrom(r.mark)
    BY <1>1, <1>2, <1>3 DEF R!Digits, ReadFrom, Num, NULL, R!NULL
<1> QED
    BY <1>1, <1>2, <1>4 DEF Cut

\* It is the number of the digits from q, when those are marked.
LEMMA ReadAt ==
    ASSUME PiecesOK, NEW q \in Int, MarkAt(s, q)
    PROVE  ReadFrom(s.mark) = NumberAt(q, p)
BY LastPieceIs DEF ReadFrom, NumberAt, MarkAt, PiecesOK

LEMMA RspMark ==
    ASSUME PiecesOK, NEW r, RspGood(r)
    PROVE  /\ RspGood(R!mark(r)) /\ SameHead(R!mark(r), r) /\ SameFrame(R!mark(r), r) /\ SameName(R!mark(r), r)
           /\ SameStored(R!mark(r), r) /\ base + R!mark(r).mark = p /\ R!start_value(r) = R!mark(r)
<1>1. R!mark(r) \in RspFields
    BY DEF PiecesOK, RspGood, RspFields, R!mark, R!Offset
<1> QED
    BY <1>1 DEF PiecesOK, RspGood, RspFields, SameHead, SameFrame, SameName, SameStored, R!mark, R!start_value, R!Offset

LEMMA RspStartField ==
    ASSUME PiecesOK, NEW r, RspGood(r)
    PROVE  /\ RspGood(R!start_field(r)) /\ SameHead(R!start_field(r), r) /\ SameFrame(R!start_field(r), r)
           /\ SameStored(R!start_field(r), r) /\ base + R!start_field(r).field_start = p
           /\ R!start_field(r).mark = r.mark
<1>1. R!start_field(r) \in RspFields
    BY DEF PiecesOK, RspGood, RspFields, R!start_field, R!Offset
<1> QED
    BY <1>1 DEF PiecesOK, RspGood, RspFields, SameHead, SameFrame, SameStored, R!start_field, R!Offset

LEMMA RspWriteField ==
    ASSUME PiecesOK, NEW r, RspGood(r)
    PROVE  /\ RspGood(R!write_field(r)) /\ SameHead(R!write_field(r), r) /\ SameFrame(R!write_field(r), r)
           /\ R!write_field(r).mark = r.mark /\ R!write_field(r).field_start = r.field_start
           /\ base + r.field_start + R!write_field(r).field_len = p
<1>1. R!write_field(r) \in RspFields
    BY DEF PiecesOK, RspGood, RspFields, R!write_field, R!Offset
<1> QED
    BY <1>1 DEF PiecesOK, RspGood, RspFields, SameHead, SameFrame, R!write_field, R!Offset

LEMMA RspWriteValue ==
    ASSUME PiecesOK, NEW r, RspGood(r)
    PROVE  /\ RspGood(R!write_value(r)) /\ SameHead(R!write_value(r), r) /\ SameFrame(R!write_value(r), r)
           /\ Stored(R!write_value(r), r)
<1>1. R!From(r.mark) \in Cut /\ <<base + r.field_start, base + r.field_start + r.field_len>> \in Cut
      /\ R!From(r.mark) = <<base + r.mark, p>>
    BY RspFrom
<1>2. CASE r.field_len = 0
    <2>1. R!write_value(r) = [r EXCEPT !.dropped = TRUE]
        BY <1>2 DEF R!write_value
    <2>2. R!write_value(r) \in RspFields
        BY <2>1 DEF RspGood, RspFields
    <2> QED
        BY <1>2, <2>1, <2>2 DEF RspGood, RspFields, SameHead, SameFrame, Stored
<1>3. CASE r.field_len # 0
    <2>1. R!write_value(r) = [r EXCEPT !.dropped = FALSE,
                              !.field = <<base + r.field_start, base + r.field_start + r.field_len>>,
                              !.value = R!From(r.mark)]
        BY <1>3 DEF R!write_value
    <2>2. R!write_value(r) \in RspFields
        BY <1>1, <2>1 DEF RspGood, RspFields
    <2> QED
        BY <1>1, <1>3, <2>1, <2>2 DEF RspGood, RspFields, SameHead, SameFrame, Stored
<1> QED
    BY <1>2, <1>3

LEMMA RspContentLen ==
    ASSUME PiecesOK, NEW r, RspGood(r)
    PROVE  LET u == R!write_content_len(r) IN
           /\ RspGood(u) /\ SameHead(u, r) /\ SameName(u, r) /\ SameStored(u, r) /\ u.mark = r.mark
           /\ u.chunked = r.chunked /\ u.content_len = ReadFrom(r.mark)
<1>1. R!Digits(r.mark) \in Num /\ R!Digits(r.mark) = ReadFrom(r.mark)
    BY RspFrom
<1>2. R!write_content_len(r) \in RspFields
    BY <1>1 DEF RspGood, RspFields, R!write_content_len
<1> QED
    BY <1>1, <1>2 DEF RspGood, RspFields, SameHead, SameName, SameStored, R!write_content_len

LEMMA RspClose ==
    ASSUME NEW r, RspGood(r)
    PROVE  LET u == R!write_connection_close(r) IN
           /\ RspGood(u) /\ SameHead(u, r) /\ SameFrame(u, r) /\ SameName(u, r) /\ SameStored(u, r) /\ u.mark = r.mark
<1>1. R!write_connection_close(r) \in RspFields
    BY DEF RspGood, RspFields, R!write_connection_close
<1> QED
    BY <1>1 DEF RspGood, RspFields, SameHead, SameFrame, SameName, SameStored, R!write_connection_close

LEMMA RspChunked ==
    ASSUME NEW r, RspGood(r)
    PROVE  LET u == R!trans_chunked(r) IN
           /\ RspGood(u) /\ SameHead(u, r) /\ SameName(u, r) /\ SameStored(u, r) /\ u.mark = r.mark
           /\ u.content_len = r.content_len /\ u.chunked = TRUE
<1>1. R!trans_chunked(r) \in RspFields
    BY DEF RspGood, RspFields, R!trans_chunked
<1> QED
    BY <1>1 DEF RspGood, RspFields, SameHead, SameName, SameStored, R!trans_chunked

LEMMA RspDone ==
    ASSUME PiecesOK, NEW r, RspGood(r)
    PROVE  LET u == R!done(r) IN RspGood(u) /\ SameHead(u, r) /\ SameFrame(u, r)
<1>1. R!done(r) \in RspFields
    BY DEF PiecesOK, RspGood, RspFields, R!done, R!Offset
<1> QED
    BY <1>1 DEF RspGood, RspFields, SameHead, SameFrame, R!done

LEMMA RspChunkSize ==
    ASSUME PiecesOK, NEW r, RspGood(r)
    PROVE  LET u == R!chunk_size(r) IN
           /\ RspGood(u) /\ SameHead(u, r) /\ u.chunked = TRUE /\ u.content_len = ReadFrom(r.mark)
<1>1. R!From(r.mark) \in Cut /\ R!Digits(r.mark) \in Num /\ R!Digits(r.mark) = ReadFrom(r.mark)
    BY RspFrom
<1>2. R!chunk_size(r) \in RspFields
    BY <1>1 DEF RspGood, RspFields, R!chunk_size
<1> QED
    BY <1>1, <1>2 DEF RspGood, RspFields, SameHead, R!chunk_size

LEMMA RspVersion ==
    ASSUME PiecesOK, NEW r, RspGood(r), NEW known
    PROVE  LET u == R!http_version(r, known) IN
           /\ RspGood(u) /\ SameFrame(u, r) /\ u.version = <<base + r.mark, p>>
           /\ u.error = (p - base # r.mark /\ ~(known /\ <<base + r.mark, p>> = <<0, 8>>))
<1>1. R!From(r.mark) \in Cut /\ R!From(r.mark) = <<base + r.mark, p>>
    BY RspFrom
<1>2. R!http_version(r, known) \in RspFields
    BY <1>1 DEF RspGood, RspFields, R!http_version
<1> QED
    BY <1>1, <1>2 DEF RspGood, RspFields, SameFrame, R!http_version, R!Offset

LEMMA RspStatus ==
    ASSUME PiecesOK, NEW r, RspGood(r)
    PROVE  /\ LET u == R!status_code(r) IN
              /\ RspGood(u) /\ SameFrame(u, r) /\ u.status = ReadFrom(r.mark)
              /\ u.version = r.version /\ u.error = r.error
           /\ LET u == R!reason_phrase(r) IN
              /\ RspGood(u) /\ SameFrame(u, r) /\ u.reason = <<base + r.mark, p>>
              /\ u.version = r.version /\ u.error = r.error /\ u.status = r.status
<1>1. /\ R!From(r.mark) \in Cut /\ R!From(r.mark) = <<base + r.mark, p>>
      /\ R!Digits(r.mark) \in Num /\ R!Digits(r.mark) = ReadFrom(r.mark)
    BY RspFrom
<1>2. R!status_code(r) \in RspFields /\ R!reason_phrase(r) \in RspFields
    BY <1>1 DEF RspGood, RspFields, R!status_code, R!reason_phrase
<1> QED
    BY <1>1, <1>2 DEF RspGood, RspFields, SameFrame, R!status_code, R!reason_phrase

-----------------------------------------------------------------------------
(* Steps of the automaton *)

LEMMA RspStep ==
    ASSUME RspInv, NEW c, NEW to, NEW r, RspGood(r), R!Consumes(c, to, r), head' \in RspHeads, line' \in RspLines,
           wants' \in RspWants, kw' \in R!Names \cup {"none"}, RspWords', HeadAt(to)', FieldAt(to)', FrameAt(to)'
    PROVE  RspInv'
<1>1. p' = p + 1 /\ s' = r /\ cs' = to /\ result' = "none" /\ UNCHANGED <<bound, base, pieces>> /\ p < bound.length
    BY DEF R!Consumes, R!Running
<1>2. p \in Nat /\ bound.length \in Nat /\ PiecesOK /\ p' \in 0..bound'.length
    BY <1>1, BoundsAssumption DEF RspInv, RspTypes
<1>3. RspGood(s)'
    BY <1>1, <1>2 DEF RspGood, RspFields, PiecesOK
<1>4. PiecesOK'
    BY <1>1, <1>2, PiecesStep
<1>5. RspTypes'
    BY <1>1, <1>2, <1>3, <1>4 DEF RspInv, RspTypes
<1> QED
    BY <1>1, <1>5 DEF RspInv

\* What the invariant says where a character is read, and what reading it keeps.
LEMMA RspHere ==
    ASSUME RspInv, NEW c, NEW to, NEW r, R!Consumes(c, to, r)
    PROVE  /\ PiecesOK /\ p \in Nat /\ base \in Nat /\ base <= p /\ LastPiece(pieces, p) = base /\ RspGood(s)
           /\ head \in RspHeads /\ line \in RspLines /\ wants \in RspWants /\ kw \in R!Names \cup {"none"}
           /\ RspWords /\ HeadAt(cs) /\ FieldAt(cs) /\ FrameAt(cs)
           /\ p' = p + 1 /\ s' = r /\ cs' = to /\ base' = base /\ pieces' = pieces /\ PastKept
BY LastPieceIs DEF RspInv, RspTypes, R!Consumes, R!Running, PiecesOK, PastKept

LEMMA RspInts ==
    /\ \A d \in RspHeads : /\ d.sp1 \in Int /\ d.sp2 \in Int /\ d.end \in Int
                           /\ d.sp1 >= -1 /\ d.sp2 >= -1 /\ d.end >= -1
    /\ \A l \in RspLines : /\ l.start \in Int /\ l.colon \in Int /\ l.value \in Int /\ l.end \in Int
                           /\ l.start >= -1 /\ l.colon >= -1 /\ l.value >= -1 /\ l.end >= -1
BY DEF RspHeads, RspLines, Pos, NULL

\* What was cut stays cut.
LEMMA StatusKept ==
    ASSUME PastKept, head \in RspHeads, head' = head, SameHead(s', s)
    PROVE  /\ VersionRead(s) => VersionRead(s)'
           /\ StatusRead(s) => StatusRead(s)'
           /\ StatusLineRead(s) => StatusLineRead(s)'
<1>1. head.sp1 \in Int /\ head.sp2 \in Int /\ head.end \in Int
    BY RspInts
<1>2. VersionRead(s) => VersionRead(s)'
    BY <1>1 DEF VersionRead, PastKept, SameHead
<1>3. StatusRead(s) => StatusRead(s)'
    BY <1>1, <1>2 DEF StatusRead, NumberAt, PastKept, SameHead
<1>4. StatusLineRead(s) => StatusLineRead(s)'
    BY <1>1, <1>3 DEF StatusLineRead, PastKept, SameHead
<1> QED
    BY <1>2, <1>3, <1>4

LEMMA FieldKept ==
    ASSUME PastKept, line \in RspLines, line' = line, SameStored(s', s), FieldRead
    PROVE  FieldRead'
<1>1. line.start \in Int /\ line.colon \in Int /\ line.value \in Int /\ line.end \in Int
    BY RspInts
<1>2. line.start >= 0 /\ line.colon >= 0 /\ line.value >= 0 /\ line.colon < line.end /\ line.end < p
    BY DEF FieldRead
<1>3. /\ LastPiece(pieces', line.end) = LastPiece(pieces, line.end)
      /\ LastPiece(pieces', line.colon) = LastPiece(pieces, line.colon)
      /\ line.end < p'
    BY <1>1, <1>2 DEF PastKept
<1> QED
    BY <1>2, <1>3 DEF FieldRead, SameStored

LEMMA LengthKept ==
    ASSUME PastKept, wants'.size = wants.size, s'.content_len = s.content_len, LengthRead(s)
    PROVE  LengthRead(s)'
<1>1. CASE wants.size = <<>>
    BY <1>1 DEF LengthRead
<1>2. CASE wants.size # <<>>
    <2>1. wants.size[2] \in Int /\ wants.size[2] < p /\ wants.size \in Nat \X Nat
        BY <1>2 DEF LengthRead
    <2>2. LastPiece(pieces', wants.size[2]) = LastPiece(pieces, wants.size[2]) /\ wants.size[2] < p'
        BY <2>1 DEF PastKept
    <2> QED
        BY <1>2, <2>1, <2>2 DEF LengthRead, NumberAt
<1> QED
    BY <1>1, <1>2

\* What an action leaves alone of the framing.
LEMMA FrameKept ==
    ASSUME RspInv, NEW c, NEW to, NEW r, R!Consumes(c, to, r), SameFrame(r, s), wants' = wants,
           cs # "chunkedcr", to # "chunkedcr"
    PROVE  FrameAt(to)'
<1>1. PastKept /\ FrameAt(cs) /\ s' = r
    BY RspHere
<1>2. LengthRead(s)'
    BY <1>1, LengthKept DEF FrameAt, SameFrame
<1> QED
    BY <1>1, <1>2 DEF FrameAt, SameFrame

\* Behind the status line it stays as it was read.
LEMMA HeaderRegionKept ==
    ASSUME RspInv, NEW c, NEW to \in HeaderRegion \cup LateEnd, NEW r, R!Consumes(c, to, r), SameHead(r, s),
           head' = head, cs \in HeaderRegion
    PROVE  HeadAt(to)'
<1>1. PastKept /\ HeadAt(cs) /\ s' = r /\ head \in RspHeads
    BY RspHere
<1>2. StatusLineRead(s)'
    BY <1>1, StatusKept DEF HeadAt
<1> QED
    BY <1>2 DEF HeadAt, HeaderRegion, LateEnd, ChunkRegion, VersionRegion

-----------------------------------------------------------------------------
(* Words *)

LEMMA WordsAre ==
    /\ R!Word = {"Connection", "Content-Length", "Transfer-Encoding", "close", "chunked", "number"}
    /\ R!Names = {"Connection", "Content-Length", "Transfer-Encoding"}
    /\ R!Values = {"close", "chunked", "number"}
BY DEF R!Word, R!Names, R!Values

LEMMA CommonLetters ==
    /\ \A v, w : R!Common(v, w) \in {0, 1, 3}
    /\ \A w : R!Common("number", w) = 0 /\ R!Common(w, "number") = 0
<1>1. \A w : {"number", w} # {"Connection", "Content-Length"} /\ {w, "number"} # {"Connection", "Content-Length"}
    OBVIOUS
<1>2. \A w : {"number", w} \cap {"Transfer-Encoding", "number"} # {}
             /\ {w, "number"} \cap {"Transfer-Encoding", "number"} # {}
    OBVIOUS
<1> QED
    BY <1>1, <1>2 DEF R!Common

LEMMA WordLengths ==
    /\ \A w \in R!Word \ {"number"} : WordLength[w] \in Nat
    /\ \A v, w \in R!Word \ {"number"} : v # w => R!Common(v, w) < WordLength[v]
<1>1. RClasses!Word = R!Word /\ \A v, w : RClasses!Common(v, w) = R!Common(v, w)
    BY DEF RClasses!Word, R!Word, RClasses!Names, R!Names, RClasses!Values, R!Values, RClasses!Common, R!Common
<1> QED
    BY <1>1, BoundsAssumption

\* One more letter of a word.
LEMMA RspLetter ==
    ASSUME NEW c, NEW to, NEW r, NEW words \in SUBSET R!Word, NEW n \in Nat, R!Letter(c, to, r, words, n),
           to \notin {"start", "http"}
    PROVE  /\ RspWords' /\ R!Consumes(c, to, r) /\ head' = head /\ wants' = wants
           /\ cand' \subseteq words /\ ("number" \in cand' => c = "number")
<1>1. /\ R!Consumes(c, to, r) /\ UNCHANGED <<head, wants>> /\ c \in words \cup {"tok"}
      /\ c \in words \ {"number"} => n < WordLength[c]
      /\ cand' = IF c = "tok" THEN {} ELSE {v \in words : v = c \/ R!Common(v, c) > n}
      /\ count' = IF cand' \subseteq {"number"} THEN 0 ELSE n + 1
      /\ cs' = to
    BY DEF R!Letter, R!Consumes
<1>2. cand' \subseteq words /\ count' \in Nat
    BY <1>1
<1>3. "number" \in cand' => c = "number"
    BY <1>1, CommonLetters
<1>4. ASSUME NEW w \in cand' \ {"number"}
      PROVE  count' <= WordLength[w]
    <2>1. c # "tok" /\ c \in words /\ (w = c \/ R!Common(w, c) > n) /\ w \in R!Word \ {"number"} /\ count' = n + 1
        BY <1>1, <1>2, <1>4
    <2>2. WordLength[w] \in Nat /\ R!Common(w, c) \in Nat
        BY <2>1, WordLengths, CommonLetters
    <2>3. CASE w = c
        BY <1>1, <2>1, <2>2, <2>3
    <2>4. CASE w # c
        <3>1. R!Common(w, c) > n /\ c # "number"
            BY <2>1, <2>4, CommonLetters
        <3>2. R!Common(w, c) < WordLength[w]
            BY <2>1, <2>4, <3>1, WordLengths
        <3> QED
            BY <2>1, <2>2, <3>1, <3>2
    <2> QED
        BY <2>3, <2>4
<1> QED
    BY <1>1, <1>2, <1>3, <1>4 DEF RspWords

LEMMA WordsKept ==
    ASSUME RspWords, NEW to, cs' = to, to \notin {"start", "http"},
           UNCHANGED <<cand, count>> \/ (cand' = {} /\ count' = 0)
    PROVE  RspWords'
BY DEF RspWords

-----------------------------------------------------------------------------
(* A chunk's header, and the status line *)

\* In the status line nothing of a header is known.
LEMMA NoLineYet ==
    ASSUME NEW to \in {"start"} \cup VersionRegion \cup StatusRegion \cup ChunkRegion \cup LateEnd, line' = line,
           to \in {"start"} \cup VersionRegion \cup StatusRegion => line = R!Line0
    PROVE  FieldAt(to)'
BY DEF FieldAt, VersionRegion, StatusRegion, ChunkRegion, LateEnd, LineEnd, R!Line0, R!NULL

LEMMA RspStartStep ==
    ASSUME RspInv, R!Start
    PROVE  RspInv'
<1>1. PICK c \in {"number", "hex", "H"}, to \in {"chunksize", "http"} :
         /\ R!Consumes(c, to, R!mark(s)) /\ UNCHANGED <<kw, cand, head, line, wants>>
         /\ count' = count \/ count' = 1
    BY DEF R!Start, R!Plain, R!history
<1>2. cs = "start"
    BY DEF R!Start
<1>3. /\ PiecesOK /\ p \in Nat /\ base \in Nat /\ base <= p /\ RspGood(s) /\ HeadAt("start") /\ FieldAt("start")
      /\ s' = R!mark(s) /\ cs' = to /\ kw \in R!Names \cup {"none"} /\ RspWords
      /\ head \in RspHeads /\ line \in RspLines /\ wants \in RspWants
    BY <1>1, <1>2, RspHere
<1>4. RspGood(R!mark(s)) /\ SameFrame(R!mark(s), s) /\ base + R!mark(s).mark = p
    BY <1>3, RspMark
<1>5. p = 0 /\ head = R!Head0 /\ line = R!Line0
    BY <1>3 DEF HeadAt, FieldAt
<1>6. s'.mark = 0
    <2>1. s'.mark \in Nat
        BY <1>3, <1>4 DEF RspGood, RspFields
    <2> QED
        BY <1>3, <1>4, <1>5, <2>1
<1>7. HeadAt(to)'
    BY <1>1, <1>5, <1>6 DEF HeadAt, ChunkRegion, VersionRegion, HeaderRegion, LateEnd, R!Head0, R!NULL
<1>8. FieldAt(to)'
    BY <1>1, <1>5, NoLineYet DEF ChunkRegion, VersionRegion
<1>9. FrameAt(to)'
    BY <1>1, <1>2, <1>4, FrameKept
<1>10. RspWords'
    BY <1>1, <1>2, <1>3 DEF RspWords
<1> QED
    BY <1>1, <1>3, <1>4, <1>7, <1>8, <1>9, <1>10, RspStep

\* In a chunk's header, or at the end of a head.
LEMMA RspLateStep ==
    ASSUME RspInv, cs \in ChunkRegion \cup {"endcr"}, NEW c, NEW r, RspGood(r), SameHead(r, s), SameFrame(r, s),
           NEW to \in ChunkRegion \cup LateEnd, R!Plain(c, to, r),
           to = "chunksize" => r.mark = 0, to \in ChunkRegion => cs \in ChunkRegion
    PROVE  RspInv'
<1>1. R!Consumes(c, to, r) /\ UNCHANGED <<kw, cand, count, head, line, wants>>
    BY DEF R!Plain, R!history
<1>2. /\ HeadAt(cs) /\ s' = r /\ cs' = to /\ kw \in R!Names \cup {"none"} /\ RspWords /\ PastKept
      /\ head \in RspHeads /\ line \in RspLines /\ wants \in RspWants
    BY <1>1, RspHere
<1>3. StatusLineRead(s) => StatusLineRead(s)'
    BY <1>1, <1>2, StatusKept
<1>4. cs \in ChunkRegion => head = R!Head0 /\ head.end = NULL
    BY <1>2 DEF HeadAt, R!Head0, R!NULL, NULL
<1>5. cs = "endcr" => head.end = NULL \/ StatusLineRead(s)
    BY <1>2 DEF HeadAt, LateEnd
<1>6. HeadAt(to)'
    BY <1>1, <1>2, <1>3, <1>4, <1>5
    DEF HeadAt, ChunkRegion, VersionRegion, HeaderRegion, LateEnd, R!Head0, R!NULL
<1>7. FieldAt(to)'
    BY <1>1, NoLineYet DEF ChunkRegion, VersionRegion, StatusRegion, LateEnd
<1>8. FrameAt(to)'
    BY <1>1, FrameKept DEF ChunkRegion, LateEnd
<1>9. RspWords'
    BY <1>1, <1>2, WordsKept DEF ChunkRegion, LateEnd
<1> QED
    BY <1>1, <1>2, <1>6, <1>7, <1>8, <1>9, RspStep

\* The end of a chunk's size.
LEMMA RspChunkSizeEnds ==
    ASSUME RspInv, cs = "chunksize", NEW c, NEW r, RspGood(r), SameHead(r, R!chunk_size(s)),
           SameFrame(r, R!chunk_size(s)), NEW to \in {"ext0", "endcr", "done"}, R!Consumes(c, to, r),
           wants' = [wants EXCEPT !.chunked = TRUE, !.size = <<0, p>>], UNCHANGED <<kw, cand, count, head, line>>
    PROVE  RspInv'
<1>1. /\ PiecesOK /\ p \in Nat /\ base \in Nat /\ base <= p /\ LastPiece(pieces, p) = base /\ RspGood(s)
      /\ HeadAt("chunksize") /\ FrameAt("chunksize") /\ s' = r /\ cs' = to /\ p' = p + 1 /\ pieces' = pieces
      /\ kw \in R!Names \cup {"none"} /\ RspWords
      /\ head \in RspHeads /\ line \in RspLines /\ wants \in RspWants
    BY RspHere
<1>2. s.mark = 0 /\ head = R!Head0
    BY <1>1 DEF HeadAt, ChunkRegion
<1>3. r.chunked = TRUE /\ r.content_len = ReadFrom(s.mark)
    BY <1>1, RspChunkSize DEF SameFrame
<1>4. /\ wants'.chunked = TRUE /\ wants'.size = <<0, p>>
      /\ wants' \in RspWants
    BY <1>1 DEF RspWants, Cut
<1>5. ReadFrom(s.mark) = NumberAt(0, p)
    BY <1>1, <1>2 DEF ReadFrom, NumberAt, Later
<1>6. LengthRead(s)'
    <2>1. wants'.size # <<>> /\ wants'.size \in Nat \X Nat /\ wants'.size[1] = 0 /\ wants'.size[2] = p
        BY <1>1, <1>4
    <2> QED
        BY <1>1, <1>3, <1>5, <2>1 DEF LengthRead, NumberAt
<1>7. FrameAt(to)'
    BY <1>1, <1>2, <1>3, <1>4, <1>6 DEF FrameAt
<1>8. HeadAt(to)'
    BY <1>2 DEF HeadAt, ChunkRegion, VersionRegion, HeaderRegion, LateEnd, R!Head0, R!NULL, NULL
<1>9. FieldAt(to)'
    BY NoLineYet DEF ChunkRegion, VersionRegion, StatusRegion, LateEnd
<1>10. RspWords'
    BY <1>1, WordsKept
<1> QED
    BY <1>1, <1>4, <1>7, <1>8, <1>9, <1>10, RspStep

LEMMA SameTrans ==
    ASSUME NEW u, NEW v, NEW w
    PROVE  /\ SameHead(u, u) /\ SameFrame(u, u) /\ SameName(u, u) /\ SameStored(u, u)
           /\ SameHead(u, v) /\ SameHead(v, w) => SameHead(u, w)
           /\ SameFrame(u, v) /\ SameFrame(v, w) => SameFrame(u, w)
           /\ SameName(u, v) /\ SameName(v, w) => SameName(u, w)
           /\ SameStored(u, v) /\ SameStored(v, w) => SameStored(u, w)
BY DEF SameHead, SameFrame, SameName, SameStored

\* What does not touch the status line and the framing.
RspKeeps(u, r) == RspGood(u) /\ SameHead(u, r) /\ SameFrame(u, r)

LEMMA RspKept ==
    ASSUME PiecesOK, NEW r, NEW v, RspKeeps(r, v)
    PROVE  /\ RspKeeps(R!start_field(r), v) /\ RspKeeps(R!start_value(r), v)
           /\ RspKeeps(R!start_value(R!write_field(r)), v) /\ RspKeeps(R!write_field(r), v)
           /\ RspKeeps(R!write_value(r), v) /\ RspKeeps(R!done(r), v)
<1>1. RspGood(r)
    BY DEF RspKeeps
<1>2. RspKeeps(R!start_field(r), v)
    BY <1>1, RspStartField, SameTrans DEF RspKeeps
<1>3. RspKeeps(R!start_value(r), v)
    BY <1>1, RspMark, SameTrans DEF RspKeeps
<1>4. RspKeeps(R!write_field(r), v) /\ RspGood(R!write_field(r))
    BY <1>1, RspWriteField, SameTrans DEF RspKeeps
<1>5. RspKeeps(R!start_value(R!write_field(r)), v)
    BY <1>4, RspMark, SameTrans DEF RspKeeps
<1>6. RspKeeps(R!write_value(r), v)
    BY <1>1, RspWriteValue, SameTrans DEF RspKeeps
<1>7. RspKeeps(R!done(r), v)
    BY <1>1, RspDone, SameTrans DEF RspKeeps
<1> QED
    BY <1>2, <1>3, <1>4, <1>5, <1>6, <1>7

LEMMA RspChunkStep ==
    ASSUME RspInv, R!ChunkSize \/ R!ChunkExtension \/ R!EndCR
    PROVE  RspInv'
<1>1. RspGood(s) /\ PiecesOK
    BY DEF RspInv, RspTypes
<1>2. CASE R!ChunkSize
    <2>1. RspGood(R!chunk_size(s))
        BY <1>1, RspChunkSize
    <2>2. RspGood(R!done(R!chunk_size(s))) /\ SameHead(R!done(R!chunk_size(s)), R!chunk_size(s))
          /\ SameFrame(R!done(R!chunk_size(s)), R!chunk_size(s))
        BY <1>1, <2>1, RspDone
    <2>3. cs = "chunksize" /\ s.mark = 0
        BY <1>2 DEF R!ChunkSize, RspInv, HeadAt
    <2>4. \/ \E c : R!Plain(c, "chunksize", s)
          \/ /\ \/ R!Consumes("LF", "done", R!done(R!chunk_size(s)))
                \/ R!Consumes("CR", "endcr", R!chunk_size(s))
                \/ R!Consumes(";", "ext0", R!chunk_size(s))
             /\ wants' = [wants EXCEPT !.chunked = TRUE, !.size = <<0, p>>] /\ UNCHANGED <<kw, cand, count, head, line>>
        BY <1>2 DEF R!ChunkSize
    <2>5. CASE \E c : R!Plain(c, "chunksize", s)
        BY <1>1, <2>3, <2>5, RspLateStep, SameTrans DEF ChunkRegion
    <2> QED
        BY <2>1, <2>2, <2>3, <2>4, <2>5, RspChunkSizeEnds, SameTrans
<1>3. CASE R!ChunkExtension \/ R!EndCR
    <2> DEFINE r == R!start_value(R!write_field(s))
    <2>1. RspKeeps(R!start_field(s), s) /\ RspKeeps(R!start_value(s), s) /\ RspKeeps(s, s) /\ RspKeeps(r, s)
        BY <1>1, RspKept, SameTrans DEF RspKeeps
    <2>2. RspKeeps(R!write_value(r), s) /\ RspKeeps(R!write_value(s), s) /\ RspKeeps(R!done(s), s)
        BY <1>1, <2>1, RspKept
    <2>3. RspKeeps(R!done(R!write_value(r)), s) /\ RspKeeps(R!done(R!write_value(s)), s)
        BY <1>1, <2>2, RspKept
    <2>4. ASSUME NEW c, NEW u, RspKeeps(u, s), NEW to \in {"ext0", "ext", "extval0", "extval", "endcr", "done"},
                 R!Plain(c, to, u), cs \in {"ext0", "ext", "extval0", "extval"} \/ (cs = "endcr" /\ to = "done")
          PROVE  RspInv'
        BY <2>4, RspLateStep DEF ChunkRegion, LateEnd, RspKeeps
    <2> HIDE DEF r
    <2>5. CASE cs = "ext0" /\ R!Plain("tok", "ext", R!start_field(s))
        BY <2>1, <2>4, <2>5
    <2>6. CASE /\ cs = "ext"
               /\ \/ R!Plain("tok", "ext", s)
                  \/ R!Plain("=", "extval0", r)
                  \/ R!Plain(";", "ext0", R!write_value(r))
                  \/ R!Plain("LF", "done", R!done(R!write_value(r)))
                  \/ R!Plain("CR", "endcr", R!write_value(r))
        BY <2>1, <2>2, <2>3, <2>4, <2>6
    <2>7. CASE cs = "extval0" /\ R!Plain("tok", "extval", R!start_value(s))
        BY <2>1, <2>4, <2>7
    <2>8. CASE /\ cs = "extval"
               /\ \/ R!Plain("tok", "extval", s)
                  \/ R!Plain(";", "ext0", R!write_value(s))
                  \/ R!Plain("LF", "done", R!done(R!write_value(s)))
                  \/ R!Plain("CR", "endcr", R!write_value(s))
        BY <2>1, <2>2, <2>3, <2>4, <2>8
    <2>9. CASE cs = "endcr" /\ R!Plain("LF", "done", R!done(s))
        BY <2>2, <2>4, <2>9
    <2> QED
        BY <1>3, <2>5, <2>6, <2>7, <2>8, <2>9 DEF R!ChunkExtension, R!EndCR, r
<1> QED
    BY <1>2, <1>3

\* In the version.
LEMMA RspVersionGoesOn ==
    ASSUME RspInv, cs \in VersionRegion, NEW c, NEW to \in VersionRegion, R!Consumes(c, to, s),
           UNCHANGED <<kw, cand, head, line, wants>>, cs # "http" => count' = count /\ to # "http", count' \in Nat
    PROVE  RspInv'
<1>1. /\ HeadAt(cs) /\ FieldAt(cs) /\ RspGood(s) /\ s' = s /\ cs' = to /\ kw \in R!Names \cup {"none"} /\ RspWords
      /\ head \in RspHeads /\ line \in RspLines /\ wants \in RspWants
    BY RspHere
<1>2. s.mark = 0 /\ head = R!Head0 /\ line = R!Line0
    BY <1>1 DEF HeadAt, FieldAt
<1>3. HeadAt(to)'
    BY <1>1, <1>2 DEF HeadAt, ChunkRegion, VersionRegion, HeaderRegion, LateEnd, R!Head0, R!NULL
<1>4. FieldAt(to)'
    BY <1>2, NoLineYet
<1>5. FrameAt(to)'
    BY FrameKept, SameTrans DEF VersionRegion
<1>6. RspWords'
    BY <1>1 DEF RspWords, VersionRegion
<1> QED
    BY <1>1, <1>3, <1>4, <1>5, <1>6, RspStep

LEMMA RspHeadStep ==
    ASSUME RspInv, cs \in VersionRegion \cup StatusRegion, NEW c, NEW to \in StatusRegion \cup {"line", "cr"}, NEW r,
           RspGood(r), SameFrame(r, s), R!Consumes(c, to, r), UNCHANGED <<kw, cand, count, line, wants>>,
           head' \in RspHeads, HeadAt(to)'
    PROVE  RspInv'
<1>1. /\ FieldAt(cs) /\ cs' = to /\ kw \in R!Names \cup {"none"} /\ RspWords /\ line \in RspLines /\ wants \in RspWants
    BY RspHere
<1>2. line = R!Line0 /\ line.start = NULL
    BY <1>1 DEF FieldAt, R!Line0, R!NULL, NULL
<1>3. FieldAt(to)'
    BY <1>2 DEF FieldAt, VersionRegion, StatusRegion, LineEnd
<1>4. FrameAt(to)'
    BY FrameKept DEF VersionRegion, StatusRegion
<1>5. RspWords'
    BY <1>1, WordsKept DEF VersionRegion, StatusRegion
<1> QED
    BY <1>1, <1>3, <1>4, <1>5, RspStep

\* The blank behind the version.
LEMMA RspVersionEnds ==
    ASSUME RspInv, cs = "vminor", NEW known \in BOOLEAN,
           R!Delimits("sp", "status0", R!http_version(s, known), "sp1")
    PROVE  RspInv'
<1> DEFINE r == R!http_version(s, known)
<1>1. R!Consumes("sp", "status0", r) /\ head' = [head EXCEPT !.sp1 = p] /\ UNCHANGED <<kw, cand, count, line, wants>>
    BY DEF R!Delimits
<1>2. /\ PiecesOK /\ p \in Nat /\ base \in Nat /\ base <= p /\ RspGood(s) /\ HeadAt(cs) /\ s' = r /\ p' = p + 1
      /\ head \in RspHeads
    BY <1>1, RspHere
<1>3. s.mark = 0 /\ head = R!Head0
    BY <1>2 DEF HeadAt, VersionRegion
<1>4. /\ RspGood(r) /\ SameFrame(r, s) /\ r.version = <<base + s.mark, p>>
      /\ r.error = (p - base # s.mark /\ ~(known /\ <<base + s.mark, p>> = <<0, 8>>))
    BY <1>2, RspVersion
<1> HIDE DEF r
<1>5. head'.sp1 = p /\ head'.end = NULL /\ head' \in RspHeads
    BY <1>1, <1>2, <1>3 DEF RspHeads, R!Head0, R!NULL, NULL, Pos
<1>6. base + s.mark = base
    BY <1>2, <1>3
<1>7. r.error \/ r.version = <<0, p>> \/ r.version = <<p, p>>
    <2>1. CASE p - base = s.mark
        <3>1. base = p
            BY <1>2, <1>3, <2>1
        <3> QED
            BY <1>4, <1>6, <3>1
    <2>2. CASE <<base, p>> = <<0, 8>>
        <3>1. base = 0
            BY <2>2
        <3> QED
            BY <1>4, <1>6, <3>1
    <2>3. CASE p - base # s.mark /\ <<base, p>> # <<0, 8>>
        BY <1>4, <1>6, <2>3
    <2> QED
        BY <2>1, <2>2, <2>3
<1>8. VersionRead(s)' /\ head'.sp1 = p' - 1
    BY <1>2, <1>5, <1>7 DEF VersionRead
<1>9. HeadAt("status0")'
    BY <1>5, <1>8 DEF HeadAt, ChunkRegion, VersionRegion, HeaderRegion, LateEnd
<1> QED
    BY <1>1, <1>4, <1>5, <1>9, RspHeadStep DEF VersionRegion, StatusRegion

LEMMA RspVersionStep ==
    ASSUME RspInv, R!Http \/ R!HttpNumber
    PROVE  RspInv'
<1>1. CASE R!Http
    <2>1. count \in Nat
        BY DEF RspInv, RspTypes, RspWords
    <2> QED
        BY <1>1, <2>1, RspVersionGoesOn DEF R!Http, R!history, VersionRegion
<1>2. CASE R!HttpNumber
    <2>1. count \in Nat
        BY DEF RspInv, RspTypes, RspWords
    <2>2. ASSUME cs \in {"vmajor", "vdot", "vminor"}, NEW c, NEW to \in {"vmajor", "vdot", "vminor"}, R!Plain(c, to, s)
          PROVE  RspInv'
        BY <2>1, <2>2, RspVersionGoesOn DEF R!Plain, R!history, VersionRegion
    <2> QED
        BY <1>2, <2>2, RspVersionEnds DEF R!HttpNumber
<1> QED
    BY <1>1, <1>2

\* From one region of the status line to the next one.
LEMMA RspStatusStep ==
    ASSUME RspInv, R!StatusCode
    PROVE  RspInv'
<1>1. PiecesOK /\ RspGood(s) /\ p \in Nat /\ base \in Nat /\ base <= p /\ HeadAt(cs) /\ head \in RspHeads
    BY DEF RspInv, RspTypes, PiecesOK
<1>2. head.sp1 \in Int /\ head.sp2 \in Int /\ head.end \in Int
    BY <1>1, RspInts
<1>3. RspGood(R!mark(s)) /\ SameHead(R!mark(s), s) /\ SameFrame(R!mark(s), s) /\ base + R!mark(s).mark = p
    BY <1>1, RspMark
<1>4. /\ RspGood(R!status_code(s)) /\ SameFrame(R!status_code(s), s)
      /\ R!status_code(s).status = ReadFrom(s.mark)
      /\ R!status_code(s).version = s.version /\ R!status_code(s).error = s.error
    BY <1>1, RspStatus
<1>5. CASE cs = "status0" /\ R!Plain("number", "status", R!mark(s))
    <2>1. R!Consumes("number", "status", R!mark(s)) /\ UNCHANGED <<kw, cand, count, head, line, wants>>
        BY <1>5 DEF R!Plain, R!history
    <2>2. PastKept /\ s' = R!mark(s) /\ p' = p + 1 /\ base' = base
        BY <2>1, RspHere
    <2>3. VersionRead(s) /\ head.sp1 = p - 1 /\ head.end = NULL
        BY <1>1, <1>5 DEF HeadAt
    <2>4. VersionRead(s)'
        BY <1>1, <1>3, <2>1, <2>2, <2>3, StatusKept
    <2>5. MarkAt(s, head.sp1 + 1)'
        BY <1>1, <1>2, <1>3, <2>1, <2>2, <2>3 DEF MarkAt, Later
    <2>6. HeadAt("status")'
        BY <2>1, <2>3, <2>4, <2>5 DEF HeadAt, ChunkRegion, VersionRegion, HeaderRegion, LateEnd
    <2> QED
        BY <1>1, <1>3, <1>5, <2>1, <2>6, RspHeadStep DEF StatusRegion
<1>6. CASE cs = "status" /\ R!Plain("number", "status", s)
    <2>1. R!Consumes("number", "status", s) /\ UNCHANGED <<kw, cand, count, head, line, wants>>
        BY <1>6 DEF R!Plain, R!history
    <2>2. PastKept /\ s' = s /\ p' = p + 1 /\ base' = base
        BY <2>1, RspHere
    <2>3. VersionRead(s) /\ MarkAt(s, head.sp1 + 1) /\ head.end = NULL
        BY <1>1, <1>6 DEF HeadAt
    <2>4. VersionRead(s)'
        BY <1>1, <2>1, <2>2, <2>3, StatusKept, SameTrans
    <2>5. MarkAt(s, head.sp1 + 1)'
        BY <2>1, <2>2, <2>3 DEF MarkAt
    <2>6. HeadAt("status")'
        BY <2>1, <2>3, <2>4, <2>5 DEF HeadAt, ChunkRegion, VersionRegion, HeaderRegion, LateEnd
    <2> QED
        BY <1>1, <1>6, <2>1, <2>6, RspHeadStep, SameTrans DEF StatusRegion
<1>7. CASE cs = "status" /\ R!Delimits("sp", "reason0", R!status_code(s), "sp2")
    <2>1. /\ R!Consumes("sp", "reason0", R!status_code(s)) /\ head' = [head EXCEPT !.sp2 = p]
          /\ UNCHANGED <<kw, cand, count, line, wants>>
        BY <1>7 DEF R!Delimits
    <2>2. PastKept /\ s' = R!status_code(s) /\ p' = p + 1 /\ base' = base /\ pieces' = pieces
          /\ LastPiece(pieces, p) = base
        BY <2>1, RspHere
    <2>3. VersionRead(s) /\ MarkAt(s, head.sp1 + 1) /\ head.end = NULL
        BY <1>1, <1>7 DEF HeadAt
    <2>4. head'.sp1 = head.sp1 /\ head'.sp2 = p /\ head'.end = NULL /\ head' \in RspHeads
        BY <1>1, <2>1, <2>3 DEF RspHeads, Pos
    <2>5. VersionRead(s)'
        BY <1>1, <1>2, <1>4, <2>2, <2>3, <2>4 DEF VersionRead
    <2>6. s'.status = NumberAt(head.sp1 + 1, p)
        BY <1>1, <1>2, <1>4, <2>2, <2>3, ReadAt
    <2>7. StatusRead(s)' /\ head'.sp2 = p' - 1
        BY <1>1, <2>2, <2>4, <2>5, <2>6 DEF StatusRead, NumberAt
    <2>8. HeadAt("reason0")'
        BY <2>4, <2>7 DEF HeadAt, ChunkRegion, VersionRegion, HeaderRegion, LateEnd
    <2> QED
        BY <1>4, <1>7, <2>1, <2>4, <2>8, RspHeadStep DEF StatusRegion
<1> QED
    BY <1>5, <1>6, <1>7 DEF R!StatusCode

LEMMA RspReasonStep ==
    ASSUME RspInv, R!ReasonPhrase
    PROVE  RspInv'
<1>1. PiecesOK /\ RspGood(s) /\ p \in Nat /\ base \in Nat /\ base <= p /\ HeadAt(cs) /\ head \in RspHeads
    BY DEF RspInv, RspTypes, PiecesOK
<1>2. head.sp1 \in Int /\ head.sp2 \in Int /\ head.end \in Int
    BY <1>1, RspInts
<1>3. RspGood(R!mark(s)) /\ SameHead(R!mark(s), s) /\ SameFrame(R!mark(s), s) /\ base + R!mark(s).mark = p
    BY <1>1, RspMark
<1> DEFINE u == R!reason_phrase(s)
<1>4. /\ RspGood(u) /\ SameFrame(u, s) /\ u.reason = <<base + s.mark, p>>
      /\ u.version = s.version /\ u.error = s.error /\ u.status = s.status
    BY <1>1, RspStatus
<1> HIDE DEF u
<1>5. ASSUME NEW c, cs = "reason0", R!Plain(c, "reason", R!mark(s))
      PROVE  RspInv'
    <2>1. R!Consumes(c, "reason", R!mark(s)) /\ UNCHANGED <<kw, cand, count, head, line, wants>>
        BY <1>5 DEF R!Plain, R!history
    <2>2. PastKept /\ s' = R!mark(s) /\ p' = p + 1 /\ base' = base
        BY <2>1, RspHere
    <2>3. StatusRead(s) /\ head.sp2 = p - 1 /\ head.end = NULL
        BY <1>1, <1>5 DEF HeadAt
    <2>4. StatusRead(s)'
        BY <1>1, <1>3, <2>1, <2>2, <2>3, StatusKept
    <2>5. MarkAt(s, head.sp2 + 1)'
        BY <1>1, <1>2, <1>3, <2>1, <2>2, <2>3 DEF MarkAt, Later
    <2>6. HeadAt("reason")'
        BY <2>1, <2>3, <2>4, <2>5 DEF HeadAt, ChunkRegion, VersionRegion, HeaderRegion, LateEnd
    <2> QED
        BY <1>1, <1>3, <1>5, <2>1, <2>6, RspHeadStep DEF StatusRegion
<1>6. ASSUME NEW c, cs = "reason", R!Plain(c, "reason", s)
      PROVE  RspInv'
    <2>1. R!Consumes(c, "reason", s) /\ UNCHANGED <<kw, cand, count, head, line, wants>>
        BY <1>6 DEF R!Plain, R!history
    <2>2. PastKept /\ s' = s /\ p' = p + 1 /\ base' = base
        BY <2>1, RspHere
    <2>3. StatusRead(s) /\ MarkAt(s, head.sp2 + 1) /\ head.end = NULL
        BY <1>1, <1>6 DEF HeadAt
    <2>4. StatusRead(s)'
        BY <1>1, <2>1, <2>2, <2>3, StatusKept, SameTrans
    <2>5. MarkAt(s, head.sp2 + 1)'
        BY <2>1, <2>2, <2>3 DEF MarkAt
    <2>6. HeadAt("reason")'
        BY <2>1, <2>3, <2>4, <2>5 DEF HeadAt, ChunkRegion, VersionRegion, HeaderRegion, LateEnd
    <2> QED
        BY <1>1, <1>6, <2>1, <2>6, RspHeadStep, SameTrans DEF StatusRegion
<1>7. ASSUME NEW c, NEW to \in {"line", "cr"}, cs = "reason", R!Delimits(c, to, u, "end")
      PROVE  RspInv'
    <2>1. /\ R!Consumes(c, to, u) /\ head' = [head EXCEPT !.end = p] /\ UNCHANGED <<kw, cand, count, line, wants>>
        BY <1>7 DEF R!Delimits
    <2>2. PastKept /\ s' = u /\ p' = p + 1 /\ base' = base /\ pieces' = pieces /\ LastPiece(pieces, p) = base
        BY <2>1, RspHere
    <2>3. StatusRead(s) /\ MarkAt(s, head.sp2 + 1)
        BY <1>1, <1>7 DEF HeadAt
    <2>4. head'.sp1 = head.sp1 /\ head'.sp2 = head.sp2 /\ head'.end = p /\ head' \in RspHeads
        BY <1>1, <2>1 DEF RspHeads, Pos
    <2>5. StatusRead(s)'
        BY <1>1, <1>2, <1>4, <2>2, <2>3, <2>4 DEF StatusRead, NumberAt, VersionRead
    <2>6. s'.reason = <<Later(head'.sp2 + 1, LastPiece(pieces', head'.end)), head'.end>>
        BY <1>4, <2>2, <2>3, <2>4 DEF MarkAt
    <2>7. StatusLineRead(s)'
        BY <1>1, <2>2, <2>4, <2>5, <2>6 DEF StatusLineRead
    <2>8. HeadAt(to)'
        BY <2>7 DEF HeadAt, ChunkRegion, VersionRegion, LateEnd
    <2> QED
        BY <1>4, <1>7, <2>1, <2>4, <2>8, RspHeadStep DEF StatusRegion
<1> QED
    BY <1>5, <1>6, <1>7 DEF R!ReasonPhrase, u

-----------------------------------------------------------------------------
(* Headers *)

LEMMA RspHeaderStep ==
    ASSUME RspInv, cs \in HeaderRegion, NEW c, NEW to \in HeaderRegion \cup LateEnd, NEW r, RspGood(r), SameHead(r, s),
           R!Consumes(c, to, r), head' = head, line' \in RspLines, wants' \in RspWants,
           kw' \in R!Names \cup {"none"}, RspWords', FieldAt(to)', FrameAt(to)'
    PROVE  RspInv'
<1>1. head \in RspHeads
    BY RspHere
<1>2. HeadAt(to)'
    BY HeaderRegionKept
<1> QED
    BY <1>1, <1>2, RspStep

LEMMA FrameNow ==
    ASSUME RspInv, NEW c, NEW to, NEW r, R!Consumes(c, to, r), r.content_len = s.content_len,
           wants'.size = wants.size, r.chunked = wants'.chunked, to # "chunkedcr"
    PROVE  FrameAt(to)'
<1>1. PastKept /\ FrameAt(cs) /\ s' = r
    BY RspHere
<1>2. LengthRead(s)'
    BY <1>1, LengthKept DEF FrameAt
<1> QED
    BY <1>1, <1>2 DEF FrameAt

\* The first letter of a name.
LEMMA RspNameBegins ==
    ASSUME RspInv, cs \in {"line", "closeline", "Kline"}, NEW c, NEW words \in SUBSET R!Word, NEW r, RspGood(r),
           SameHead(r, s), base + r.field_start = p, R!Letter(c, "name", r, words, 0),
           c = "number" /\ c \in words => base + r.mark = p,
           FrameAt("name")', line' = [R!Line0 EXCEPT !.start = p], kw' = "none"
    PROVE  RspInv'
<1>1. RspWords' /\ R!Consumes(c, "name", r) /\ head' = head /\ wants' = wants /\ cand' \subseteq words
      /\ ("number" \in cand' => c = "number")
    BY RspLetter
<1>2. p \in Nat /\ base \in Nat /\ base <= p /\ s' = r /\ p' = p + 1 /\ base' = base /\ wants \in RspWants
    BY <1>1, RspHere
<1>3. /\ line'.start = p /\ line'.colon = NULL /\ line'.value = NULL /\ line'.end = NULL /\ line' \in RspLines
    BY <1>2 DEF R!Line0, R!NULL, NULL, RspLines, Pos
<1>4. base' + s'.field_start = Later(line'.start, base') /\ Later(p, base) = p
    BY <1>2, <1>3 DEF Later
<1>5. "number" \in cand' => MarkAt(s, line.start)'
    BY <1>1, <1>2, <1>3, <1>4 DEF MarkAt
<1>6. RspName'
    BY <1>2, <1>3, <1>4, <1>5 DEF RspName
<1>7. FieldAt("name")'
    BY <1>6 DEF FieldAt, VersionRegion, StatusRegion, LineEnd
<1> QED
    BY <1>1, <1>2, <1>3, <1>7, RspHeaderStep DEF HeaderRegion

\* The head ends.
LEMMA RspHeadEnds ==
    ASSUME RspInv, cs \in HeaderRegion, NEW c, NEW to \in LateEnd, NEW r, RspGood(r), SameHead(r, s),
           R!Plain(c, to, r), FrameAt(to)'
    PROVE  RspInv'
<1>1. R!Consumes(c, to, r) /\ UNCHANGED <<kw, cand, count, head, line, wants>>
    BY DEF R!Plain, R!history
<1>2. cs' = to /\ RspWords /\ line \in RspLines /\ wants \in RspWants /\ kw \in R!Names \cup {"none"}
    BY <1>1, RspHere
<1>3. FieldAt(to)'
    BY DEF FieldAt, VersionRegion, StatusRegion, LineEnd, LateEnd
<1>4. RspWords'
    BY <1>1, <1>2, WordsKept DEF LateEnd
<1> QED
    BY <1>1, <1>2, <1>3, <1>4, RspHeaderStep

LEMMA RspHeaderLineStep ==
    ASSUME RspInv, R!HeaderLine
    PROVE  RspInv'
<1> DEFINE r == IF cs = "closeline" THEN R!write_connection_close(s) ELSE s
<1>1. cs \in {"line", "closeline"}
    BY DEF R!HeaderLine
<1>2. PiecesOK /\ RspGood(s) /\ FrameAt(cs) /\ wants \in RspWants
    BY DEF RspInv, RspTypes
<1>3. RspGood(r) /\ SameHead(r, s) /\ r.content_len = s.content_len /\ r.chunked = s.chunked
    BY <1>2, RspClose, SameTrans DEF SameFrame
<1>4. r.chunked = wants.chunked
    BY <1>1, <1>2, <1>3 DEF FrameAt
<1> HIDE DEF r
<1>5. CASE \E c \in R!Class : R!Letter(c, "name", R!start_field(r), R!Names, 0)
           /\ line' = [R!Line0 EXCEPT !.start = p] /\ kw' = "none"
    <2>1. PICK c \in R!Class : R!Letter(c, "name", R!start_field(r), R!Names, 0)
        BY <1>5
    <2>2. /\ RspGood(R!start_field(r)) /\ SameHead(R!start_field(r), s) /\ SameFrame(R!start_field(r), r)
          /\ base + R!start_field(r).field_start = p
        BY <1>2, <1>3, RspStartField, SameTrans
    <2>3. R!Consumes(c, "name", R!start_field(r)) /\ wants' = wants
        BY <2>1 DEF R!Letter
    <2>4. FrameAt("name")'
        BY <1>3, <1>4, <2>2, <2>3, FrameNow DEF SameFrame
    <2>5. R!Names \in SUBSET R!Word /\ "number" \notin R!Names
        BY DEF R!Names, R!Word
    <2> QED
        BY <1>1, <1>5, <2>1, <2>2, <2>4, <2>5, RspNameBegins
<1>6. CASE R!Plain("LF", "done", R!done(r))
    <2>1. RspGood(R!done(r)) /\ SameHead(R!done(r), s) /\ SameFrame(R!done(r), r)
        BY <1>2, <1>3, RspDone, SameTrans
    <2>2. R!Consumes("LF", "done", R!done(r)) /\ wants' = wants
        BY <1>6 DEF R!Plain, R!history
    <2>3. FrameAt("done")'
        BY <1>3, <1>4, <2>1, <2>2, FrameNow DEF SameFrame
    <2> QED
        BY <1>1, <1>6, <2>1, <2>3, RspHeadEnds DEF HeaderRegion, LateEnd
<1>7. CASE R!Plain("CR", "endcr", r)
    <2>1. R!Consumes("CR", "endcr", r) /\ wants' = wants
        BY <1>7 DEF R!Plain, R!history
    <2>2. FrameAt("endcr")'
        BY <1>3, <1>4, <2>1, FrameNow
    <2> QED
        BY <1>1, <1>3, <1>7, <2>2, RspHeadEnds DEF HeaderRegion, LateEnd
<1> QED
    BY <1>5, <1>6, <1>7 DEF R!HeaderLine, r

\* A name ends in a colon.
LEMMA RspNameEnds ==
    ASSUME RspInv, cs = "name", NEW to \in {"colon", "Kcolon"}, R!Consumes(":", to, R!write_field(s)),
           line' = [line EXCEPT !.colon = p], cand' = {}, count' = 0, UNCHANGED <<head, wants>>,
           kw' \in R!Names \cup {"none"}
    PROVE  RspInv'
<1> DEFINE r == R!write_field(s)
<1>1. /\ PiecesOK /\ p \in Nat /\ base \in Nat /\ base <= p /\ RspGood(s) /\ FieldAt(cs) /\ line \in RspLines
      /\ wants \in RspWants /\ s' = r /\ p' = p + 1 /\ base' = base /\ cs' = to /\ RspWords
    BY RspHere
<1>2. /\ RspGood(r) /\ SameHead(r, s) /\ SameFrame(r, s) /\ r.field_start = s.field_start
      /\ base + s.field_start + r.field_len = p
    BY <1>1, RspWriteField
<1>3. /\ line.start >= 0 /\ line.start < p /\ line.value = NULL /\ line.end = NULL
      /\ base + s.field_start = Later(line.start, base)
    BY <1>1 DEF FieldAt, RspName
<1>4. line'.start = line.start /\ line'.colon = p /\ line'.value = NULL /\ line'.end = NULL /\ line' \in RspLines
    BY <1>1, <1>3 DEF RspLines, Pos
<1> HIDE DEF r
<1>5. NameRead'
    <2>1. p < p' /\ base' <= line'.colon
        BY <1>1, <1>4
    <2>2. base' + s'.field_start = Later(line'.start, base') /\ base' + s'.field_start + s'.field_len = line'.colon
        BY <1>1, <1>2, <1>3, <1>4
    <2> QED
        BY <1>3, <1>4, <2>1, <2>2 DEF NameRead
<1>6. FieldAt(to)'
    BY <1>4, <1>5 DEF FieldAt, RspColon, VersionRegion, StatusRegion, LineEnd
<1>7. FrameAt(to)'
    BY <1>2, FrameKept DEF r
<1>8. RspWords'
    BY <1>1, WordsKept
<1> QED
    BY <1>1, <1>2, <1>4, <1>6, <1>7, <1>8, RspHeaderStep DEF HeaderRegion, r

\* on_response_http_field has been given a header at the end of its line.
LEMMA RspFieldStored ==
    ASSUME PiecesOK, line \in RspLines, NameRead, NEW r, RspGood(r), SameName(r, s), Stored(s', r),
           line'.start = line.start, line'.colon = line.colon, line'.end = p, line'.value \in Nat,
           base < line.colon => base + r.mark = line'.value, p' = p + 1, pieces' = pieces
    PROVE  FieldRead'
<1>1. line.start \in Int /\ line.colon \in Int
    BY RspInts
<1>2. p \in Nat /\ base \in Nat /\ base <= p /\ LastPiece(pieces, p) = base
    BY LastPieceIs DEF PiecesOK
<1>3. line.start >= 0 /\ line.start < line.colon /\ line.colon < p
    BY DEF NameRead
<1>4. /\ r.field_start = s.field_start /\ r.field_len = s.field_len /\ r.field_start \in Nat /\ r.field_len \in Nat
    BY DEF SameName, RspGood, RspFields
<1>5. line'.start >= 0 /\ line'.colon >= 0 /\ line'.value >= 0 /\ line'.colon < line'.end /\ line'.end < p'
    BY <1>1, <1>2, <1>3
<1>6. ASSUME base < line.colon
      PROVE  FieldRead'
    <2>1. base + s.field_start = Later(line.start, base) /\ base + s.field_start + s.field_len = line.colon
        BY <1>1, <1>2, <1>6 DEF NameRead
    <2>2. r.field_len # 0
        BY <1>1, <1>2, <1>3, <1>4, <1>6, <2>1 DEF Later
    <2>3. LastPiece(pieces, line.colon) = base
        BY <1>1, <1>2, <1>3, <1>6, LastPieceIs
    <2>4. /\ s'.dropped = FALSE
          /\ s'.field = <<Later(line'.start, LastPiece(pieces', line'.colon)), line'.colon>>
          /\ s'.value = <<line'.value, line'.end>>
        BY <1>4, <1>6, <2>1, <2>2, <2>3 DEF Stored
    <2>5. LastPiece(pieces', line'.end) < line'.colon
        BY <1>2, <1>6
    <2> QED
        BY <1>5, <2>4, <2>5 DEF FieldRead
<1>7. ASSUME ~(base < line.colon)
      PROVE  FieldRead'
    <2>1. s.field_len = 0
        <3>1. CASE base = line.colon
            <4>1. base + s.field_start = Later(line.start, base) /\ base + s.field_start + s.field_len = line.colon
                BY <1>1, <1>2, <3>1 DEF NameRead
            <4> QED
                BY <1>1, <1>2, <1>3, <1>4, <3>1, <4>1 DEF Later
        <3>2. CASE base > line.colon
            <4>1. ~(base <= line.colon)
                BY <1>1, <1>2, <3>2
            <4> QED
                BY <4>1 DEF NameRead
        <3> QED
            BY <1>1, <1>2, <1>7, <3>1, <3>2
    <2>2. s'.dropped = TRUE
        BY <1>4, <2>1 DEF Stored
    <2>3. ~(LastPiece(pieces', line'.end) < line'.colon)
        BY <1>1, <1>2, <1>7
    <2> QED
        BY <1>5, <2>2, <2>3 DEF FieldRead
<1> QED
    BY <1>6, <1>7

\* The value that is read now: not begun yet, or marked.
Behind(r) ==
    /\ RspGood(r) /\ SameHead(r, s) /\ SameFrame(r, s) /\ SameName(r, s)
    /\ cs \in {"colon", "Kcolon"} => base + r.mark = p
    /\ cs \in {"value", "Kvalue"} => r.mark = s.mark

LEMMA BehindColon ==
    ASSUME RspInv
    PROVE  (cs \in {"colon", "Kcolon"} => Behind(R!start_value(s))) /\ (cs \in {"value", "Kvalue"} => Behind(s))
<1>1. PiecesOK /\ RspGood(s)
    BY DEF RspInv, RspTypes
<1> QED
    BY <1>1, RspMark, SameTrans DEF Behind

LEMMA RspValueHere ==
    ASSUME RspInv, cs \in {"colon", "value", "Kcolon", "Kvalue"}
    PROVE  /\ NameRead /\ line \in RspLines /\ line.start \in Int /\ line.colon \in Int /\ line.value \in Int
           /\ line.colon >= 0 /\ line.colon < p /\ p \in Nat /\ base \in Nat /\ base <= p /\ line.end = NULL
           /\ cs \in {"colon", "Kcolon"} => line.value = NULL
           /\ cs \in {"value", "Kvalue"} => /\ line.colon < line.value /\ line.value < p /\ MarkAt(s, line.value)
                                            /\ line.value # NULL
<1>1. line \in RspLines /\ p \in Nat /\ base \in Nat /\ base <= p /\ FieldAt(cs)
    BY DEF RspInv, RspTypes, PiecesOK
<1>2. line.start \in Int /\ line.colon \in Int /\ line.value \in Int
    BY <1>1, RspInts
<1>3. cs \in {"colon", "Kcolon"} => NameRead /\ line.value = NULL
    BY <1>1 DEF FieldAt, RspColon
<1>4. cs \in {"value", "Kvalue"} => NameRead /\ line.colon < line.value /\ line.value < p /\ MarkAt(s, line.value)
    BY <1>1 DEF FieldAt, RspValue
<1>5. NameRead /\ line.start >= 0 /\ line.start < line.colon /\ line.colon < p /\ line.end = NULL
    BY <1>3, <1>4 DEF NameRead
<1> QED
    BY <1>1, <1>2, <1>3, <1>4, <1>5 DEF NULL

\* A character of the value.
LEMMA RspValueGoesOn ==
    ASSUME RspInv, cs \in {"colon", "value", "Kcolon", "Kvalue"}, NEW r, Behind(r), NEW c,
           NEW to \in {"value", "Kvalue"},
           R!Consumes(c, to, r), line' = R!Starts(line), UNCHANGED <<head, wants, kw>>, RspWords'
    PROVE  RspInv'
<1>1. /\ NameRead /\ line \in RspLines /\ line.start \in Int /\ line.colon \in Int /\ line.value \in Int
      /\ line.colon >= 0 /\ line.colon < p /\ p \in Nat /\ base \in Nat /\ base <= p /\ line.end = NULL
      /\ cs \in {"colon", "Kcolon"} => line.value = NULL
      /\ cs \in {"value", "Kvalue"} => /\ line.colon < line.value /\ line.value < p /\ MarkAt(s, line.value)
                                       /\ line.value # NULL
    BY RspValueHere
<1>2. s' = r /\ p' = p + 1 /\ base' = base /\ wants \in RspWants /\ kw \in R!Names \cup {"none"}
    BY RspHere
<1>3. /\ line' \in RspLines /\ line'.start = line.start /\ line'.colon = line.colon /\ line'.end = line.end
      /\ line'.value = IF line.value = NULL THEN p ELSE line.value
    BY <1>1 DEF R!Starts, R!NULL, NULL, RspLines, Pos
<1>4. RspGood(r) /\ SameHead(r, s) /\ SameFrame(r, s) /\ SameName(r, s)
    BY DEF Behind
<1>5. NameRead'
    <2>1. line'.colon < p'
        BY <1>1, <1>2, <1>3
    <2> QED
        BY <1>1, <1>2, <1>3, <1>4, <2>1 DEF NameRead, SameName
<1>6. line'.colon < line'.value /\ line'.value < p' /\ MarkAt(s, line.value)'
    <2>1. CASE cs \in {"colon", "Kcolon"}
        <3>1. line'.value = p /\ base + r.mark = p
            BY <1>1, <1>3, <2>1 DEF Behind
        <3> QED
            BY <1>1, <1>2, <1>3, <3>1 DEF MarkAt, Later
    <2>2. CASE cs \in {"value", "Kvalue"}
        <3>1. line'.value = line.value /\ r.mark = s.mark
            BY <1>1, <1>3, <2>2 DEF Behind
        <3> QED
            BY <1>1, <1>2, <1>3, <2>2, <3>1 DEF MarkAt
    <2> QED
        BY <2>1, <2>2
<1>7. FieldAt(to)'
    BY <1>5, <1>6 DEF FieldAt, RspValue, VersionRegion, StatusRegion, LineEnd
<1>8. FrameAt(to)'
    BY <1>4, FrameKept
<1> QED
    BY <1>2, <1>3, <1>4, <1>7, <1>8, RspHeaderStep DEF HeaderRegion

\* A blank before it.
LEMMA RspBlank ==
    ASSUME RspInv, cs \in {"colon", "Kcolon"}, NEW r, Behind(r), NEW c, R!Consumes(c, cs, r),
           UNCHANGED <<head, line, wants, kw, cand, count>>
    PROVE  RspInv'
<1>1. /\ NameRead /\ line \in RspLines /\ line.colon \in Int /\ line.colon < p /\ p \in Nat /\ line.value = NULL
    BY RspValueHere
<1>2. s' = r /\ p' = p + 1 /\ base' = base /\ wants \in RspWants /\ kw \in R!Names \cup {"none"} /\ cs' = cs /\ RspWords
    BY RspHere
<1>3. RspGood(r) /\ SameHead(r, s) /\ SameFrame(r, s) /\ SameName(r, s)
    BY DEF Behind
<1>4. RspColon'
    <2>1. line'.colon < p'
        BY <1>1, <1>2
    <2> QED
        BY <1>1, <1>2, <1>3, <2>1 DEF NameRead, SameName, RspColon
<1>5. FieldAt(cs)'
    BY <1>2, <1>4 DEF FieldAt, VersionRegion, StatusRegion, LineEnd
<1>6. FrameAt(cs)'
    BY <1>2, <1>3, FrameKept
<1>7. RspWords'
    BY <1>2, WordsKept
<1> QED
    BY <1>1, <1>2, <1>3, <1>5, <1>6, <1>7, RspHeaderStep DEF HeaderRegion

\* The end of a line, for the value that it holds.
LEMMA RspLineEnds ==
    ASSUME RspInv, cs \in {"colon", "value", "Kcolon", "Kvalue"}, NEW r, Behind(r), line' = R!Ends(line),
           Stored(s', r), p' = p + 1, pieces' = pieces
    PROVE  FieldRead' /\ line' \in RspLines
<1>1. /\ NameRead /\ line \in RspLines /\ line.start \in Int /\ line.colon \in Int /\ line.value \in Int
      /\ line.colon >= 0 /\ line.colon < p /\ p \in Nat /\ base \in Nat /\ base <= p /\ line.end = NULL
      /\ cs \in {"colon", "Kcolon"} => line.value = NULL
      /\ cs \in {"value", "Kvalue"} => /\ line.colon < line.value /\ line.value < p /\ MarkAt(s, line.value)
                                       /\ line.value # NULL
    BY RspValueHere
<1>2. PiecesOK
    BY DEF RspInv, RspTypes
<1>3. /\ line' \in RspLines /\ line'.start = line.start /\ line'.colon = line.colon /\ line'.end = p
      /\ line'.value = IF line.value = NULL THEN p ELSE line.value
    <2>1. R!Starts(line) \in RspLines
        BY <1>1 DEF R!Starts, R!NULL, NULL, RspLines, Pos
    <2>2. R!Starts(line).start = line.start /\ R!Starts(line).colon = line.colon
          /\ R!Starts(line).value = IF line.value = NULL THEN p ELSE line.value
        BY <1>1 DEF R!Starts, R!NULL, NULL, RspLines
    <2>3. line' = [R!Starts(line) EXCEPT !.end = p]
        BY DEF R!Ends
    <2> QED
        BY <1>1, <2>1, <2>2, <2>3 DEF RspLines, Pos
<1>4. line'.value \in Nat /\ (base < line.colon => base + r.mark = line'.value)
    <2>1. CASE cs \in {"colon", "Kcolon"}
        <3>1. line'.value = p /\ base + r.mark = p
            BY <1>1, <1>3, <2>1 DEF Behind
        <3> QED
            BY <1>1, <3>1
    <2>2. CASE cs \in {"value", "Kvalue"}
        <3>1. line'.value = line.value /\ r.mark = s.mark /\ base + s.mark = Later(line.value, base)
            BY <1>1, <1>3, <2>2 DEF Behind, MarkAt
        <3>2. line.colon < line.value
            BY <1>1, <2>2
        <3> QED
            BY <1>1, <3>1, <3>2 DEF Later
    <2> QED
        BY <2>1, <2>2
<1>5. RspGood(r) /\ SameName(r, s)
    BY DEF Behind
<1> QED
    BY <1>1, <1>2, <1>3, <1>4, <1>5, RspFieldStored

LEMMA RspFieldEnds ==
    ASSUME RspInv, cs \in {"colon", "value", "Kcolon", "Kvalue"}, NEW r, Behind(r), NEW c,
           NEW to \in {"line", "cr", "Kline", "Kcolcr"}, R!Consumes(c, to, R!write_value(r)), line' = R!Ends(line),
           UNCHANGED <<head, wants, kw>>, UNCHANGED <<cand, count>> \/ (cand' = {} /\ count' = 0)
    PROVE  RspInv'
<1> DEFINE u == R!write_value(r)
<1>1. /\ PiecesOK /\ s' = u /\ p' = p + 1 /\ pieces' = pieces /\ wants \in RspWants /\ kw \in R!Names \cup {"none"}
      /\ cs' = to /\ RspWords
    BY RspHere
<1>2. RspGood(u) /\ SameHead(u, s) /\ SameFrame(u, s) /\ Stored(u, r)
    BY <1>1, RspWriteValue, SameTrans DEF Behind
<1> HIDE DEF u
<1>3. FieldRead' /\ line' \in RspLines
    BY <1>1, <1>2, RspLineEnds
<1>4. FieldAt(to)'
    BY <1>3 DEF FieldAt, VersionRegion, StatusRegion, LineEnd
<1>5. FrameAt(to)'
    BY <1>2, FrameKept DEF u
<1>6. RspWords'
    BY <1>1, WordsKept
<1> QED
    BY <1>1, <1>2, <1>3, <1>4, <1>5, <1>6, RspHeaderStep DEF HeaderRegion, u

LEMMA RspFieldValueStep ==
    ASSUME RspInv, R!FieldValue
    PROVE  RspInv'
<1> DEFINE r == IF cs = "colon" THEN R!start_value(s) ELSE s
<1>1. cs \in {"colon", "value"} /\ UNCHANGED <<kw, cand, count, head, wants>>
    BY DEF R!FieldValue
<1>2. Behind(r)
    BY <1>1, BehindColon
<1> HIDE DEF r
<1>3. ASSUME NEW c, R!Consumes(c, "value", r), line' = R!Starts(line)
      PROVE  RspInv'
    <2>1. RspWords /\ cs' = "value"
        BY <1>3, RspHere
    <2>2. RspWords'
        BY <1>1, <2>1, WordsKept
    <2> QED
        BY <1>1, <1>2, <1>3, <2>2, RspValueGoesOn
<1>4. CASE R!Consumes("sp", cs, r) /\ UNCHANGED line
    <2>1. CASE cs = "colon"
        BY <1>1, <1>2, <1>4, <2>1, RspBlank
    <2>2. CASE cs = "value"
        <3>1. line' = R!Starts(line)
            BY <1>4, <2>2, RspValueHere DEF R!Starts, R!NULL, NULL
        <3> QED
            BY <1>3, <1>4, <2>2, <3>1
    <2> QED
        BY <1>1, <2>1, <2>2
<1>5. CASE R!Consumes("LF", "line", R!write_value(r)) /\ line' = R!Ends(line)
    BY <1>1, <1>2, <1>5, RspFieldEnds
<1>6. CASE R!Consumes("CR", "cr", R!write_value(r)) /\ line' = R!Ends(line)
    BY <1>1, <1>2, <1>6, RspFieldEnds
<1> QED
    BY <1>3, <1>4, <1>5, <1>6 DEF R!FieldValue, r

-----------------------------------------------------------------------------
(* The three headers that frame the body *)

\* What the end of the value w writes.
LEMMA RspValueWrites ==
    ASSUME PiecesOK, RspGood(s), NEW w, NEW reported \in BOOLEAN,
           NEW r, r = IF w = "number" THEN R!write_content_len(s) ELSE s,
           NEW u, u = IF reported THEN R!write_value(r) ELSE r
    PROVE  /\ RspGood(u) /\ SameHead(u, s) /\ u.chunked = s.chunked
           /\ u.content_len = IF w = "number" THEN ReadFrom(s.mark) ELSE s.content_len
           /\ reported => Stored(u, s)
<1>1. /\ RspGood(r) /\ SameHead(r, s) /\ SameName(r, s) /\ r.mark = s.mark /\ r.chunked = s.chunked
      /\ r.content_len = IF w = "number" THEN ReadFrom(s.mark) ELSE s.content_len
    BY RspContentLen, SameTrans
<1>2. CASE reported
    <2>1. RspGood(u) /\ SameHead(u, r) /\ SameFrame(u, r) /\ Stored(u, r)
        BY <1>1, <1>2, RspWriteValue
    <2>2. Stored(u, s)
        BY <1>1, <2>1 DEF Stored, SameName
    <2> QED
        BY <1>1, <2>1, <2>2, SameTrans DEF SameFrame
<1>3. CASE ~reported
    BY <1>1, <1>3
<1> QED
    BY <1>2, <1>3

\* The end of a line that is one of the words the grammar looks for.
LEMMA RspValueEnds ==
    ASSUME RspInv, cs \in {"name", "Kvalue", "Kfold"}, NEW w \in R!Values, NEW reported \in BOOLEAN,
           R!ValueEnds(w, reported), NEW from \in Nat,
           w = "number" => R!Max({line.start, line.value}) = from /\ MarkAt(s, from),
           line' \in RspLines,
           line'.start = NULL \/ (reported /\ (Stored(s', s) /\ p' = p + 1 /\ pieces' = pieces => FieldRead'))
    PROVE  RspInv'
<1> DEFINE r == IF w = "number" THEN R!write_content_len(s) ELSE s
           u == IF reported THEN R!write_value(r) ELSE r
<1>1. PiecesOK /\ RspGood(s) /\ wants \in RspWants /\ FrameAt(cs) /\ p \in Nat /\ base \in Nat /\ base <= p
    BY DEF RspInv, RspTypes, PiecesOK
<1>2. /\ RspGood(u) /\ SameHead(u, s) /\ u.chunked = s.chunked
      /\ u.content_len = IF w = "number" THEN ReadFrom(s.mark) ELSE s.content_len
      /\ reported => Stored(u, s)
    <2>1. r = (IF w = "number" THEN R!write_content_len(s) ELSE s) /\ u = (IF reported THEN R!write_value(r) ELSE r)
        OBVIOUS
    <2> HIDE DEF r, u
    <2> QED
        BY <1>1, <2>1, RspValueWrites, ZenonT(40)
<1> DEFINE v == R!trans_chunked(u)
<1>3. /\ RspGood(v) /\ SameHead(v, s) /\ v.chunked = TRUE /\ v.content_len = u.content_len
      /\ reported => Stored(v, s)
    <2>1. RspGood(v) /\ SameHead(v, u) /\ SameStored(v, u) /\ v.content_len = u.content_len /\ v.chunked = TRUE
        BY <1>2, RspChunked
    <2>2. reported => Stored(v, s)
        BY <1>2, <2>1 DEF Stored, SameStored
    <2> QED
        BY <1>2, <2>1, <2>2, SameTrans
<1>4. LengthRead(s) /\ s.chunked = wants.chunked
    BY <1>1 DEF FrameAt
<1>5. cand' = {} /\ count' = 0 /\ kw' = kw /\ head' = head
    BY DEF R!ValueEnds
<1>6. ASSUME NEW c, NEW to \in {"line", "closeline", "cr", "closecr", "chunkedcr"}, NEW x, RspGood(x), SameHead(x, s),
             reported => Stored(x, s), R!Consumes(c, to, x), wants' \in RspWants, FrameAt(to)'
      PROVE  RspInv'
    <2>1. s' = x /\ p' = p + 1 /\ pieces' = pieces /\ cs' = to /\ kw \in R!Names \cup {"none"} /\ RspWords
        BY <1>6, RspHere
    <2>2. line'.start = NULL \/ FieldRead'
        BY <1>6, <2>1
    <2>3. FieldAt(to)'
        BY <2>2 DEF FieldAt, VersionRegion, StatusRegion, LineEnd
    <2>4. RspWords'
        BY <1>5, <2>1, WordsKept
    <2> QED
        BY <1>5, <1>6, <2>1, <2>3, <2>4, RspHeaderStep DEF HeaderRegion
<1>7. ASSUME NEW c, NEW to, NEW x, R!Consumes(c, to, x), w # "number", x.content_len = u.content_len,
             wants'.size = wants.size
      PROVE  LengthRead(s)'
    <2>1. PastKept /\ s' = x
        BY <1>7, RspHere
    <2> QED
        BY <1>2, <1>4, <1>7, <2>1, LengthKept
<1> HIDE DEF r, u, v
<1>8. CASE w = "close"
    <2>1. R!Consumes("LF", "closeline", u) \/ R!Consumes("CR", "closecr", u)
        BY <1>8 DEF R!ValueEnds, r, u
    <2>2. wants' = wants
        BY <1>8 DEF R!ValueEnds
    <2>3. wants' \in RspWants /\ wants'.chunked = wants.chunked /\ wants'.size = wants.size
        BY <1>1, <2>2
    <2>4. ASSUME NEW c, NEW to \in {"closeline", "closecr"}, R!Consumes(c, to, u)
          PROVE  RspInv'
        <3>1. LengthRead(s)' /\ s' = u
            BY <1>7, <1>8, <2>3, <2>4, RspHere
        <3>2. FrameAt(to)'
            BY <1>2, <1>4, <2>3, <3>1 DEF FrameAt
        <3> QED
            BY <1>2, <1>6, <2>3, <2>4, <3>2
    <2> QED
        BY <2>1, <2>4
<1>9. CASE w = "chunked"
    <2>1. R!Consumes("LF", "line", v) \/ R!Consumes("CR", "chunkedcr", u)
        BY <1>9 DEF R!ValueEnds, r, u, v
    <2>2. wants' = [wants EXCEPT !.chunked = TRUE]
        BY <1>9 DEF R!ValueEnds
    <2>3. wants' \in RspWants /\ wants'.chunked = TRUE /\ wants'.size = wants.size
        BY <1>1, <2>2 DEF RspWants
    <2>4. CASE R!Consumes("LF", "line", v)
        <3>1. LengthRead(s)' /\ s' = v
            BY <1>3, <1>7, <1>9, <2>3, <2>4, RspHere
        <3>2. FrameAt("line")'
            BY <1>3, <1>4, <2>3, <3>1 DEF FrameAt
        <3> QED
            BY <1>3, <1>6, <2>3, <2>4, <3>2
    <2>5. CASE R!Consumes("CR", "chunkedcr", u)
        <3>1. LengthRead(s)' /\ s' = u
            BY <1>7, <1>9, <2>3, <2>5, RspHere
        <3>2. FrameAt("chunkedcr")'
            BY <1>2, <1>4, <2>3, <3>1 DEF FrameAt
        <3> QED
            BY <1>2, <1>6, <2>3, <2>5, <3>2
    <2> QED
        BY <2>1, <2>4, <2>5
<1>10. CASE w = "number"
    <2>1. R!Consumes("LF", "line", u) \/ R!Consumes("CR", "cr", u)
        BY <1>10 DEF R!ValueEnds, r, u
    <2>2. wants' = [wants EXCEPT !.size = <<from, p>>]
        BY <1>10 DEF R!ValueEnds
    <2>3. wants' \in RspWants /\ wants'.chunked = wants.chunked /\ wants'.size = <<from, p>>
        BY <1>1, <2>2 DEF RspWants, Cut
    <2>4. ASSUME NEW c, NEW to \in {"line", "cr"}, R!Consumes(c, to, u)
          PROVE  RspInv'
        <3>1. s' = u /\ p' = p + 1 /\ pieces' = pieces /\ LastPiece(pieces, p) = base
            BY <2>4, RspHere
        <3>2. u.content_len = NumberAt(from, p)
            BY <1>1, <1>2, <1>10, ReadAt
        <3>3. wants'.size # <<>> /\ wants'.size \in Nat \X Nat /\ wants'.size[1] = from /\ wants'.size[2] = p
            BY <1>1, <2>3
        <3>4. LengthRead(s)'
            BY <1>1, <3>1, <3>2, <3>3 DEF LengthRead, NumberAt
        <3>5. FrameAt(to)'
            BY <1>2, <1>4, <2>3, <3>1, <3>4 DEF FrameAt
        <3> QED
            BY <1>2, <1>6, <2>3, <2>4, <3>5
    <2> QED
        BY <2>1, <2>4
<1> QED
    BY <1>8, <1>9, <1>10, WordsAre

LEMMA NoLine ==
    R!Line0 \in RspLines /\ R!Line0.start = NULL
BY DEF R!Line0, R!NULL, NULL, RspLines, Pos

LEMMA MaxOfLine ==
    ASSUME line \in RspLines
    PROVE  /\ R!Max({line.start, line.value}) = Later(line.start, line.value)
           /\ line.value = NULL /\ line.start >= 0 => R!Max({line.start, line.value}) = line.start
           /\ line.start < line.value => R!Max({line.start, line.value}) = line.value
<1>1. line.start \in Int /\ line.value \in Int
    BY RspInts
<1>2. R!Max({line.start, line.value}) = Later(line.start, line.value)
    BY <1>1, MaxOfTwo
<1> QED
    BY <1>1, <1>2 DEF Later, NULL

LEMMA RspFieldNameStep ==
    ASSUME RspInv, R!FieldName
    PROVE  RspInv'
<1>1. cs = "name"
    BY DEF R!FieldName
<1>2. /\ RspName /\ line \in RspLines /\ RspWords /\ p \in Nat /\ base \in Nat /\ base <= p
      /\ kw \in R!Names \cup {"none"} /\ RspGood(s) /\ wants \in RspWants
    BY <1>1 DEF RspInv, RspTypes, PiecesOK, FieldAt
<1>3. line.start \in Nat
    <2>1. line.start \in Int
        BY <1>2, RspInts
    <2> QED
        BY <1>2, <2>1 DEF RspName
<1>4. ASSUME NEW c, R!Letter(c, "name", s, cand, count), UNCHANGED <<kw, line>>
      PROVE  RspInv'
    <2>1. cand \in SUBSET R!Word /\ count \in Nat
        BY <1>2 DEF RspWords
    <2>2. RspWords' /\ R!Consumes(c, "name", s) /\ head' = head /\ wants' = wants /\ cand' \subseteq cand
        BY <1>4, <2>1, RspLetter
    <2>3. s' = s /\ p' = p + 1 /\ base' = base
        BY <2>2, RspHere
    <2>4. line'.start < p'
        BY <1>2, <1>3, <1>4, <2>3 DEF RspName
    <2>5. RspName'
        BY <1>2, <1>4, <2>2, <2>3, <2>4 DEF RspName, MarkAt
    <2>6. FieldAt("name")'
        BY <2>5 DEF FieldAt, VersionRegion, StatusRegion, LineEnd
    <2>7. FrameAt("name")'
        BY <1>1, <2>2, FrameKept, SameTrans
    <2> QED
        BY <1>1, <1>2, <1>4, <2>2, <2>6, <2>7, RspHeaderStep, SameTrans DEF HeaderRegion
<1>5. ASSUME NEW w \in R!Names, R!Consumes(":", "Kcolon", R!write_field(s)), kw' = w,
             line' = [line EXCEPT !.colon = p], cand' = {}, count' = 0, UNCHANGED <<head, wants>>
      PROVE  RspInv'
    BY <1>1, <1>5, RspNameEnds
<1>6. CASE /\ R!Consumes(":", "colon", R!write_field(s)) /\ line' = [line EXCEPT !.colon = p]
           /\ cand' = {} /\ count' = 0 /\ UNCHANGED <<kw, head, wants>>
    BY <1>1, <1>2, <1>6, RspNameEnds
<1>7. ASSUME NEW w \in R!Values, R!Whole(w), R!ValueEnds(w, w # "close"), line' = R!Line0
      PROVE  RspInv'
    <2>1. w = "number" => MarkAt(s, line.start)
        BY <1>2, <1>7 DEF R!Whole, RspName
    <2>2. R!Max({line.start, line.value}) = line.start
        BY <1>2, MaxOfLine DEF RspName
    <2>3. (w # "close") \in BOOLEAN
        OBVIOUS
    <2> QED
        BY <1>1, <1>3, <1>7, <2>1, <2>2, <2>3, NoLine, RspValueEnds
<1> QED
    BY <1>4, <1>5, <1>6, <1>7 DEF R!FieldName

\* The line feed behind a carriage return.
LEMMA RspLineFeed ==
    ASSUME RspInv, cs \in LineEnd, NEW c, NEW to \in LineEnd, NEW r, RspGood(r), SameHead(r, s), SameStored(r, s),
           R!Plain(c, to, r), FrameAt(to)'
    PROVE  RspInv'
<1>1. R!Consumes(c, to, r) /\ UNCHANGED <<kw, cand, count, head, line, wants>>
    BY DEF R!Plain, R!history
<1>2. cs' = to /\ RspWords /\ line \in RspLines /\ wants \in RspWants /\ kw \in R!Names \cup {"none"} /\ FieldAt(cs)
      /\ PastKept /\ s' = r
    BY <1>1, RspHere
<1>3. line.start = NULL \/ FieldRead
    BY <1>2 DEF FieldAt
<1>4. line'.start = NULL \/ FieldRead'
    BY <1>1, <1>2, <1>3, FieldKept
<1>5. FieldAt(to)'
    BY <1>4 DEF FieldAt, VersionRegion, StatusRegion, LineEnd
<1>6. RspWords'
    BY <1>1, <1>2, WordsKept DEF LineEnd
<1> QED
    BY <1>1, <1>2, <1>5, <1>6, RspHeaderStep DEF HeaderRegion, LineEnd

LEMMA RspCarriageReturnStep ==
    ASSUME RspInv, R!CarriageReturn
    PROVE  RspInv'
<1>1. RspGood(s) /\ FrameAt(cs) /\ wants \in RspWants
    BY DEF RspInv, RspTypes
<1>2. CASE cs = "cr" /\ R!Plain("LF", "line", s)
    <2>1. FrameAt("line")'
        BY <1>2, FrameKept, SameTrans DEF R!Plain, R!history
    <2> QED
        BY <1>1, <1>2, <2>1, RspLineFeed, SameTrans DEF LineEnd
<1>3. CASE cs = "closecr" /\ R!Plain("LF", "closeline", s)
    <2>1. R!Consumes("LF", "closeline", s) /\ wants' = wants
        BY <1>3 DEF R!Plain, R!history
    <2>2. PastKept /\ s' = s
        BY <2>1, RspHere
    <2>3. FrameAt("closeline")'
        BY <1>1, <1>3, <2>1, <2>2, LengthKept DEF FrameAt
    <2> QED
        BY <1>1, <1>3, <2>3, RspLineFeed, SameTrans DEF LineEnd
<1>4. CASE cs = "chunkedcr" /\ R!Plain("LF", "line", R!trans_chunked(s))
    <2> DEFINE u == R!trans_chunked(s)
    <2>1. R!Consumes("LF", "line", u) /\ wants' = wants
        BY <1>4 DEF R!Plain, R!history
    <2>2. RspGood(u) /\ SameHead(u, s) /\ SameStored(u, s) /\ u.content_len = s.content_len /\ u.chunked = TRUE
        BY <1>1, RspChunked
    <2>3. wants.chunked
        BY <1>1, <1>4 DEF FrameAt
    <2>4. wants.chunked = TRUE
        <3>1. wants.chunked \in BOOLEAN
            BY <1>1 DEF RspWants
        <3> QED
            BY <2>3, <3>1
    <2> HIDE DEF u
    <2>5. FrameAt("line")'
        BY <2>1, <2>2, <2>3, <2>4, FrameNow
    <2> QED
        BY <1>4, <2>2, <2>5, RspLineFeed DEF LineEnd, u
<1> QED
    BY <1>2, <1>3, <1>4 DEF R!CarriageReturn

LEMMA ValueOfs ==
    \A k \in R!Names : R!ValueOf[k] \in R!Values /\ (R!ValueOf[k] = "number" => k = "Content-Length")
BY DEF R!ValueOf, R!Names, R!Values

LEMMA ValueWord ==
    ASSUME NEW k \in R!Names
    PROVE  {R!ValueOf[k]} \in SUBSET R!Word /\ R!Names \cup {R!ValueOf[k]} \in SUBSET R!Word
BY ValueOfs DEF R!Word

LEMMA RspKeywordColonStep ==
    ASSUME RspInv, kw \in R!Names, R!KeywordColon
    PROVE  RspInv'
<1> DEFINE r == R!start_value(s)
<1>1. cs = "Kcolon" /\ kw' = kw
    BY DEF R!KeywordColon
<1>2. Behind(r)
    BY <1>1, BehindColon
<1> HIDE DEF r
<1>3. CASE R!Letter(R!ValueOf[kw], "Kvalue", r, {R!ValueOf[kw]}, 0) /\ line' = R!Starts(line)
    <2>1. /\ RspWords' /\ R!Consumes(R!ValueOf[kw], "Kvalue", r) /\ head' = head /\ wants' = wants
        BY <1>3, RspLetter, ValueWord
    <2> QED
        BY <1>1, <1>2, <1>3, <2>1, RspValueGoesOn
<1>4. ASSUME NEW c, R!Consumes(c, "value", r), line' = R!Starts(line), UNCHANGED <<cand, count, head, wants>>
      PROVE  RspInv'
    <2>1. RspWords /\ cs' = "value"
        BY <1>4, RspHere
    <2>2. RspWords'
        BY <1>4, <2>1, WordsKept
    <2> QED
        BY <1>1, <1>2, <1>4, <2>2, RspValueGoesOn
<1>5. CASE R!Consumes("sp", "Kcolon", r) /\ UNCHANGED <<cand, count, head, line, wants>>
    BY <1>1, <1>2, <1>5, RspBlank
<1>6. CASE /\ R!Consumes("LF", "Kline", R!write_value(r)) \/ R!Consumes("CR", "Kcolcr", R!write_value(r))
           /\ line' = R!Ends(line) /\ UNCHANGED <<cand, count, head, wants>>
    BY <1>1, <1>2, <1>6, RspFieldEnds
<1> QED
    BY <1>3, <1>4, <1>5, <1>6 DEF R!KeywordColon, R!history, r

LEMMA RspKeywordValueStep ==
    ASSUME RspInv, kw \in R!Names, R!KeywordValue
    PROVE  RspInv'
<1> DEFINE w == R!ValueOf[kw]
<1>1. cs = "Kvalue" /\ w \in R!Values
    BY ValueOfs DEF R!KeywordValue
<1>2. Behind(s)
    BY <1>1, BehindColon
<1>3. /\ line \in RspLines /\ line.start \in Int /\ line.colon \in Int /\ line.value \in Int
      /\ line.colon >= 0 /\ line.colon < line.value /\ MarkAt(s, line.value) /\ line.value # NULL /\ NameRead
    BY <1>1, RspValueHere
<1>4. line = R!Starts(line)
    BY <1>3 DEF R!Starts, R!NULL, NULL
<1>5. RspWords
    BY DEF RspInv, RspTypes
<1> HIDE DEF w
<1>6. CASE R!Letter(w, "Kvalue", s, cand, count) /\ UNCHANGED <<kw, line>>
    <2>1. cand \in SUBSET R!Word /\ count \in Nat
        BY <1>5 DEF RspWords
    <2>2. RspWords' /\ R!Consumes(w, "Kvalue", s) /\ head' = head /\ wants' = wants
        BY <1>6, <2>1, RspLetter
    <2> QED
        BY <1>1, <1>2, <1>4, <1>6, <2>2, RspValueGoesOn
<1>7. ASSUME NEW c, R!Consumes(c, "value", s), cand' = {}, count' = 0, UNCHANGED <<kw, head, line, wants>>
      PROVE  RspInv'
    <2>1. cs' = "value"
        BY <1>7, RspHere
    <2>2. RspWords'
        BY <1>5, <1>7, <2>1, WordsKept
    <2> QED
        BY <1>1, <1>2, <1>4, <1>7, <2>2, RspValueGoesOn
<1>8. CASE R!ValueEnds(w, TRUE) /\ line' = R!Ends(line)
    <2>1. line.value \in Nat /\ line.start < line.value
        BY <1>3 DEF NameRead
    <2>2. R!Max({line.start, line.value}) = line.value
        BY <1>3, <2>1, MaxOfLine
    <2>3. Stored(s', s) /\ p' = p + 1 /\ pieces' = pieces => FieldRead'
        BY <1>1, <1>2, <1>8, RspLineEnds
    <2>4. line' \in RspLines
        <3>1. [line EXCEPT !.end = p] \in RspLines
            BY <1>3 DEF RspInv, RspTypes, PiecesOK, RspLines, Pos
        <3> QED
            BY <1>4, <1>8, <3>1 DEF R!Ends
    <2> QED
        BY <1>1, <1>3, <1>8, <2>1, <2>2, <2>3, <2>4, RspValueEnds
<1>9. CASE /\ R!Consumes("LF", "line", R!write_value(s)) \/ R!Consumes("CR", "cr", R!write_value(s))
           /\ cand' = {} /\ count' = 0 /\ line' = R!Ends(line) /\ UNCHANGED <<kw, head, wants>>
    BY <1>1, <1>2, <1>9, RspFieldEnds
<1> QED
    BY <1>6, <1>7, <1>8, <1>9 DEF R!KeywordValue, R!history, w

\* Blanks and line breaks behind an empty value.
LEMMA RspIdle ==
    ASSUME RspInv, cs \in {"Kline", "Kspace", "Kdone", "Kendcr", "Kcolcr"}, NEW c,
           NEW to \in {"Kspace", "Kdone", "Kendcr"},
           NEW r, RspKeeps(r, s), R!Plain(c, to, r)
    PROVE  RspInv'
<1>1. R!Consumes(c, to, r) /\ UNCHANGED <<kw, cand, count, head, line, wants>>
    BY DEF R!Plain, R!history
<1>2. cs' = to /\ RspWords /\ line \in RspLines /\ wants \in RspWants /\ kw \in R!Names \cup {"none"}
    BY <1>1, RspHere
<1>3. FieldAt(to)'
    BY DEF FieldAt, VersionRegion, StatusRegion, LineEnd
<1>4. FrameAt(to)'
    BY <1>1, FrameKept DEF RspKeeps
<1>5. RspWords'
    BY <1>1, <1>2, WordsKept
<1> QED
    BY <1>1, <1>2, <1>3, <1>4, <1>5, RspHeaderStep DEF HeaderRegion, RspKeeps

LEMMA RspKeywordLineStep ==
    ASSUME RspInv, kw \in R!Names, R!KeywordLine
    PROVE  RspInv'
<1> DEFINE w == R!ValueOf[kw]
           marks == CASE w = "close" -> {}
                      [] w = "chunked" -> {w, "Connection", "Content-Length"}
                      [] w = "number" -> {w}
           r(c) == IF c \in marks THEN R!start_field(R!start_value(s)) ELSE R!start_field(s)
<1>1. cs = "Kline" /\ w \in R!Values
    BY ValueOfs DEF R!KeywordLine
<1>2. RspGood(s) /\ PiecesOK
    BY DEF RspInv, RspTypes
<1>3. RspKeeps(s, s) /\ RspKeeps(R!done(s), s)
    BY <1>2, RspKept, SameTrans DEF RspKeeps
<1>4. ASSUME NEW c, R!Letter(c, "name", r(c), R!Names \cup {w}, 0), line' = [R!Line0 EXCEPT !.start = p], kw' = "none"
      PROVE  RspInv'
    <2>1. RspGood(R!start_value(s)) /\ SameHead(R!start_value(s), s) /\ SameFrame(R!start_value(s), s)
          /\ base + R!start_value(s).mark = p
        BY <1>2, RspMark
    <2>2. /\ RspKeeps(R!start_field(R!start_value(s)), s) /\ base + R!start_field(R!start_value(s)).field_start = p
          /\ base + R!start_field(R!start_value(s)).mark = p
        BY <1>2, <2>1, RspStartField, SameTrans DEF RspKeeps
    <2>3. RspKeeps(R!start_field(s), s) /\ base + R!start_field(s).field_start = p
        BY <1>2, RspStartField, SameTrans DEF RspKeeps
    <2>4. RspKeeps(r(c), s) /\ base + r(c).field_start = p
        BY <2>2, <2>3
    <2>5. c = "number" /\ c \in R!Names \cup {w} => base + r(c).mark = p
        <3>1. SUFFICES ASSUME c = "number", c \in R!Names \cup {w} PROVE base + r(c).mark = p
            OBVIOUS
        <3>2. w = "number"
            BY <3>1, WordsAre
        <3>3. c \in marks
            BY <3>1, <3>2
        <3> QED
            BY <2>2, <3>3
    <2>6. R!Names \cup {w} \in SUBSET R!Word
        BY ValueWord
    <2> HIDE DEF r, w
    <2>7. R!Consumes(c, "name", r(c)) /\ wants' = wants
        BY <1>4 DEF R!Letter
    <2>8. FrameAt("name")'
        BY <1>1, <2>4, <2>7, FrameKept DEF RspKeeps
    <2> QED
        BY <1>1, <1>4, <2>4, <2>5, <2>6, <2>8, RspNameBegins DEF RspKeeps
<1>5. CASE R!Plain("sp", "Kspace", s)
    BY <1>1, <1>3, <1>5, RspIdle
<1>6. CASE R!Plain("LF", "Kdone", R!done(s))
    BY <1>1, <1>3, <1>6, RspIdle
<1>7. CASE R!Plain("CR", "Kendcr", s)
    BY <1>1, <1>3, <1>7, RspIdle
<1> QED
    BY <1>4, <1>5, <1>6, <1>7 DEF R!KeywordLine

LEMMA RspFoldedStart ==
    ASSUME RspInv, kw \in R!Names, cs \in {"Kspace", "Kdone", "Kendcr", "Kcolcr"}, R!FoldedStart
    PROVE  RspInv'
<1> DEFINE r == IF kw = "Connection" THEN s ELSE R!start_value(s)
           w == R!ValueOf[kw]
<1>1. R!Letter(w, "Kfold", r, {w}, 0) /\ line' = R!Starts([R!Line0 EXCEPT !.colon = line.colon]) /\ kw' = kw
    BY DEF R!FoldedStart
<1>2. RspGood(s) /\ PiecesOK /\ wants \in RspWants /\ line \in RspLines
    BY DEF RspInv, RspTypes
<1>3. RspKeeps(r, s) /\ (kw # "Connection" => base + r.mark = p)
    BY <1>2, RspMark, SameTrans DEF RspKeeps
<1>4. RspWords' /\ R!Consumes(w, "Kfold", r) /\ head' = head /\ wants' = wants
    BY <1>1, RspLetter, ValueWord
<1> HIDE DEF r, w
<1>5. s' = r /\ p' = p + 1 /\ base' = base /\ p \in Nat /\ base \in Nat /\ base <= p
    BY <1>4, RspHere
<1>6. line'.start = NULL /\ line'.value = p /\ line' \in RspLines
    BY <1>1, <1>2, <1>5 DEF R!Starts, R!Line0, R!NULL, NULL, RspLines, Pos
<1>7. kw' # "Connection" => MarkAt(s, line.value)'
    BY <1>1, <1>3, <1>5, <1>6 DEF MarkAt, Later
<1>8. FieldAt("Kfold")'
    BY <1>5, <1>6, <1>7 DEF FieldAt, VersionRegion, StatusRegion, LineEnd
<1>9. FrameAt("Kfold")'
    BY <1>3, <1>4, FrameKept DEF RspKeeps
<1> QED
    BY <1>1, <1>2, <1>3, <1>4, <1>6, <1>8, <1>9, RspHeaderStep DEF HeaderRegion, RspKeeps

LEMMA RspKeywordSpaceStep ==
    ASSUME RspInv, kw \in R!Names, R!KeywordSpace
    PROVE  RspInv'
<1>1. RspGood(s) /\ PiecesOK
    BY DEF RspInv, RspTypes
<1>2. RspKeeps(s, s) /\ RspKeeps(R!done(s), s)
    BY <1>1, RspKept, SameTrans DEF RspKeeps
<1>3. ASSUME cs \in {"Kspace", "Kdone", "Kendcr", "Kcolcr"}, NEW c, R!Plain(c, "Kspace", s)
      PROVE  RspInv'
    BY <1>2, <1>3, RspIdle
<1>4. CASE cs = "Kendcr" /\ R!Plain("LF", "Kdone", R!done(s))
    BY <1>2, <1>4, RspIdle
<1>5. CASE cs = "Kcolcr" /\ R!Plain("LF", "Kline", s)
    <2>1. FrameAt("Kline")'
        BY <1>5, FrameKept, SameTrans DEF R!Plain, R!history
    <2> QED
        BY <1>1, <1>5, <2>1, RspLineFeed, SameTrans DEF LineEnd
<1> QED
    BY <1>3, <1>4, <1>5, RspFoldedStart DEF R!KeywordSpace

LEMMA RspFoldedValueStep ==
    ASSUME RspInv, kw \in R!Names, R!FoldedValue
    PROVE  RspInv'
<1> DEFINE w == R!ValueOf[kw]
<1>1. cs = "Kfold" /\ w \in R!Values /\ (w = "number" => kw # "Connection") /\ line' = line
    BY ValueOfs DEF R!FoldedValue
<1>2. RspGood(s) /\ RspWords /\ line \in RspLines /\ wants \in RspWants /\ p \in Nat
    BY DEF RspInv, RspTypes, PiecesOK
<1>3. /\ line.start = NULL /\ line.value >= 0 /\ line.value < p /\ (kw # "Connection" => MarkAt(s, line.value))
      /\ line.value \in Nat
    <2>1. line.value \in Int
        BY <1>2, RspInts
    <2> QED
        BY <1>1, <2>1 DEF RspInv, FieldAt
<1> HIDE DEF w
<1>4. CASE R!Letter(w, "Kfold", s, cand, count) /\ UNCHANGED kw
    <2>1. cand \in SUBSET R!Word /\ count \in Nat
        BY <1>2 DEF RspWords
    <2>2. RspWords' /\ R!Consumes(w, "Kfold", s) /\ head' = head /\ wants' = wants
        BY <1>4, <2>1, RspLetter
    <2>3. s' = s /\ p' = p + 1 /\ base' = base
        BY <2>2, RspHere
    <2>4. line'.value < p' /\ (kw' # "Connection" => MarkAt(s, line.value)')
        BY <1>1, <1>2, <1>3, <1>4, <2>3 DEF MarkAt
    <2>5. FieldAt("Kfold")'
        BY <1>1, <1>3, <2>4 DEF FieldAt, VersionRegion, StatusRegion, LineEnd
    <2>6. FrameAt("Kfold")'
        BY <1>1, <2>2, FrameKept, SameTrans
    <2> QED
        BY <1>1, <1>2, <1>4, <2>2, <2>5, <2>6, RspHeaderStep, SameTrans DEF HeaderRegion
<1>5. CASE R!ValueEnds(w, w # "close")
    <2>1. R!Max({line.start, line.value}) = line.value
        BY <1>2, <1>3, MaxOfLine DEF NULL
    <2>2. (w # "close") \in BOOLEAN
        OBVIOUS
    <2> QED
        BY <1>1, <1>2, <1>3, <1>5, <2>1, <2>2, RspValueEnds
<1> QED
    BY <1>4, <1>5 DEF R!FoldedValue, w

LEMMA HeaderActions ==
    ASSUME R!Header
    PROVE  \/ R!HeaderLine \/ R!FieldValue \/ R!CarriageReturn \/ R!FieldName
           \/ /\ kw \in {"Connection", "Transfer-Encoding", "Content-Length"}
              /\ R!KeywordColon \/ R!KeywordLine \/ R!KeywordSpace \/ R!KeywordValue \/ R!FoldedValue
BY DEF R!Header, R!ConnectionName, R!TransferEncodingName, R!ContentLengthName, R!OtherName, R!LateClose,
       R!LateChunked, R!LateLength, R!Connection, R!TransferEncoding, R!ContentLength, R!KeywordHeader,
       R!Close, R!Chunked, R!Length, R!FoldedClose, R!FoldedChunked, R!FoldedLength

LEMMA RspHeaderSteps ==
    ASSUME RspInv, R!Header
    PROVE  RspInv'
<1>1. ASSUME kw \in {"Connection", "Transfer-Encoding", "Content-Length"},
             R!KeywordColon \/ R!KeywordLine \/ R!KeywordSpace \/ R!KeywordValue \/ R!FoldedValue
      PROVE  RspInv'
    <2>1. kw \in R!Names
        BY <1>1, WordsAre
    <2> QED
        BY <1>1, <2>1, RspKeywordColonStep, RspKeywordLineStep, RspKeywordSpaceStep, RspKeywordValueStep,
           RspFoldedValueStep
<1>2. CASE R!HeaderLine
    BY <1>2, RspHeaderLineStep
<1>3. CASE R!FieldValue
    BY <1>3, RspFieldValueStep
<1>4. CASE R!CarriageReturn
    BY <1>4, RspCarriageReturnStep
<1>5. CASE R!FieldName
    BY <1>5, RspFieldNameStep
<1> QED
    BY <1>1, <1>2, <1>3, <1>4, <1>5, HeaderActions

-----------------------------------------------------------------------------
(* The next piece *)

\* What httpclient_parser_execute restarts for the next piece, and what it keeps.
LEMMA RspRestart ==
    ASSUME RspInv, R!NextRead
    PROVE  /\ PiecesOK' /\ PastKept /\ RspGood(s)' /\ base' = p /\ p' = p /\ p > 0
           /\ s'.mark = 0 /\ s'.field_start = 0 /\ s'.field_len = 0
           /\ SameHead(s', s) /\ SameFrame(s', s) /\ SameStored(s', s)
<1>1. PiecesOK /\ p > base /\ base' = p /\ pieces' = pieces \cup {p} /\ p' = p /\ Cardinality(pieces) < MaxReads
    BY SameCardinality DEF RspInv, RspTypes, R!NextRead
<1>2. PiecesOK'
    BY <1>1, PiecesRead
<1>3. p \in Nat /\ base \in Nat /\ s \in RspFields
      /\ s' = [s EXCEPT !.mark = 0, !.field_start = 0, !.field_len = 0]
    BY <1>1 DEF PiecesOK, RspInv, RspTypes, RspGood, R!NextRead
<1>4. PastKept
    BY <1>1, <1>3, NextPieceKept
<1>5. s' \in RspFields
    BY <1>3 DEF RspFields
<1>6. /\ s'.mark = 0 /\ s'.field_start = 0 /\ s'.field_len = 0
      /\ SameHead(s', s) /\ SameFrame(s', s) /\ SameStored(s', s)
    BY <1>3 DEF RspFields, SameHead, SameFrame, SameStored
<1>7. RspGood(s)'
    BY <1>1, <1>3, <1>5, <1>6 DEF RspGood
<1> QED
    BY <1>1, <1>2, <1>3, <1>4, <1>6, <1>7

\* A mark that restarts at 0 is at the piece, whatever before it is being read.
LEMMA MarkRestarts ==
    ASSUME p \in Int, base' = p, s'.mark = 0, NEW q \in Int, q <= p
    PROVE  base' + s'.mark = Later(q, base')
BY DEF Later

LEMMA HeadRestarted ==
    ASSUME RspInv, R!NextRead
    PROVE  HeadAt(cs)'
<1> USE DEF NULL
<1>1. /\ PastKept /\ base' = p /\ p' = p /\ p > 0 /\ p \in Nat /\ s'.mark = 0 /\ SameHead(s', s)
    BY RspRestart DEF PastKept
<1>2. head' = head /\ cs' = cs /\ head \in RspHeads /\ HeadAt(cs)
    BY DEF R!NextRead, R!history, RspInv, RspTypes
<1>3. head.sp1 \in Int /\ head.sp2 \in Int /\ head.end \in Int
    BY <1>2, RspInts
<1>4. /\ VersionRead(s) => VersionRead(s)'
      /\ StatusRead(s) => StatusRead(s)'
      /\ StatusLineRead(s) => StatusLineRead(s)'
    BY <1>1, <1>2, StatusKept
<1>5. cs # "start" /\ R!Head0' = R!Head0
    BY <1>1, <1>2 DEF HeadAt, R!Head0, R!NULL
<1>6. cs = "status" => MarkAt(s, head.sp1 + 1)'
    BY <1>1, <1>2, <1>3, MarkRestarts DEF HeadAt, VersionRead, MarkAt
<1>7. cs = "reason" => MarkAt(s, head.sp2 + 1)'
    BY <1>1, <1>2, <1>3, MarkRestarts DEF HeadAt, StatusRead, MarkAt
<1> QED
    BY <1>1, <1>2, <1>4, <1>5, <1>6, <1>7 DEF HeadAt

LEMMA FieldRestarted ==
    ASSUME RspInv, R!NextRead
    PROVE  FieldAt(cs)'
<1> USE DEF NULL
<1>1. /\ PastKept /\ base' = p /\ p' = p /\ p \in Nat /\ s'.mark = 0 /\ s'.field_start = 0 /\ s'.field_len = 0
      /\ SameStored(s', s)
    BY RspRestart DEF PastKept
<1>2. line' = line /\ cs' = cs /\ kw' = kw /\ cand' = cand /\ line \in RspLines /\ FieldAt(cs)
    BY DEF R!NextRead, R!history, RspInv, RspTypes
<1>3. line.start \in Int /\ line.colon \in Int /\ line.value \in Int /\ line.end \in Int
    BY <1>2, RspInts
<1>4. FieldRead => FieldRead'
    BY <1>1, <1>2, FieldKept
<1>5. \A q \in Int : q <= p => base' + s'.mark = Later(q, base') /\ base' + s'.field_start = Later(q, base')
    BY <1>1 DEF Later
<1>6. RspName => RspName'
    BY <1>1, <1>2, <1>3, <1>5 DEF RspName, MarkAt
<1>7. NameRead => NameRead'
    BY <1>1, <1>2, <1>3 DEF NameRead
<1>8. RspColon => RspColon'
    BY <1>2, <1>7 DEF RspColon
<1>9. RspValue => RspValue'
    BY <1>1, <1>2, <1>3, <1>5, <1>7 DEF RspValue, MarkAt
<1>10. cs = "Kfold" => line.value < p /\ MarkAt(s, line.value)'
    BY <1>1, <1>2, <1>3, <1>5 DEF FieldAt, MarkAt
<1>11. R!Line0' = R!Line0
    BY DEF R!Line0, R!NULL
<1> QED
    BY <1>1, <1>2, <1>4, <1>6, <1>8, <1>9, <1>10, <1>11 DEF FieldAt

LEMMA RspNextReadStep ==
    ASSUME RspInv, R!NextRead
    PROVE  RspInv'
<1>1. UNCHANGED <<bound, cs, kw, cand, count, p, head, line, wants, result>> /\ result = "none"
    BY DEF R!NextRead, R!Running, R!history
<1>2. PiecesOK' /\ PastKept /\ RspGood(s)' /\ SameFrame(s', s)
    BY RspRestart
<1>3. RspTypes'
    BY <1>1, <1>2 DEF RspInv, RspTypes, RspWords
<1>4. LengthRead(s)'
    BY <1>1, <1>2, LengthKept DEF RspInv, FrameAt, SameFrame
<1>5. FrameAt(cs)'
    BY <1>1, <1>2, <1>4 DEF RspInv, FrameAt, SameFrame
<1> QED
    BY <1>1, <1>3, <1>5, HeadRestarted, FieldRestarted DEF RspInv

-----------------------------------------------------------------------------
(* The end of recvResponse, and the invariant *)

\* The parser's state stays as it is.
LEMMA RspRests ==
    ASSUME RspInv, UNCHANGED <<bound, cs, kw, cand, count, p, base, pieces, s, head, line, wants>>,
           result' \in {"none", "head", "closed", "asserts"},
           result' = "head" => cs = "done" /\ ~s.error
    PROVE  RspInv'
<1>1. RspTypes'
    BY DEF RspInv, RspTypes, PiecesOK, RspGood, RspWords
<1>2. HeadAt(cs) => HeadAt(cs)'
    BY DEF HeadAt, VersionRead, StatusRead, StatusLineRead, NumberAt, MarkAt, R!Head0
<1>3. FieldRead => FieldRead'
    BY DEF FieldRead
<1>4. NameRead => NameRead'
    BY DEF NameRead
<1>5. FieldAt(cs) => FieldAt(cs)'
    BY <1>3, <1>4 DEF FieldAt, RspName, RspColon, RspValue, MarkAt, R!Line0
<1>6. FrameAt(cs) => FrameAt(cs)'
    BY DEF FrameAt, LengthRead, NumberAt
<1> QED
    BY <1>1, <1>2, <1>5, <1>6 DEF RspInv

LEMMA RspEndStep ==
    ASSUME RspInv, R!Asserts \/ R!Closes \/ R!Finishes \/ R!Done
    PROVE  RspInv'
<1>1. /\ UNCHANGED <<bound, cs, kw, cand, count, p, base, pieces, s, head, line, wants>>
      /\ result' \in {"none", "head", "closed", "asserts"}
      /\ result' = "head" => cs = "done" /\ ~s.error
    BY DEF R!Asserts, R!Closes, R!Finishes, R!Done, R!Untouched, R!history, R!vars, RspInv, RspTypes
<1> QED
    BY <1>1, RspRests

LEMMA RspStart ==
    ASSUME R!Init
    PROVE  RspInv
<1> USE DEF NULL, R!NULL
<1>1. s = R!Parser0 /\ head = R!Head0 /\ line = R!Line0 /\ wants = R!Wants0 /\ p = 0 /\ base = 0 /\ pieces = {0}
      /\ count = 0 /\ cand = {} /\ kw = "none" /\ cs = "start" /\ bound \in Responses /\ result = "none"
    BY DEF R!Init
<1>2. s \in RspFields
    BY <1>1 DEF R!Parser0, R!Empty, RspFields, Num, Cut
<1>3. RspGood(s)
    BY <1>1, <1>2 DEF RspGood, R!Parser0
<1>4. head \in RspHeads /\ line \in RspLines
    BY <1>1 DEF R!Head0, R!Line0, RspHeads, RspLines, Pos
<1>5. wants \in RspWants
    BY <1>1 DEF R!Wants0, R!Empty, RspWants, Cut
<1>6. PiecesOK
    <2>1. IsFiniteSet(pieces) /\ Cardinality(pieces) = 1
        BY <1>1, FS_Singleton
    <2> QED
        BY <1>1, <2>1, BoundsAssumption DEF PiecesOK
<1>7. p \in 0..bound.length
    BY <1>1, BoundsAssumption
<1>8. RspWords
    BY <1>1 DEF RspWords
<1>9. RspTypes
    BY <1>1, <1>3, <1>4, <1>5, <1>6, <1>7, <1>8 DEF RspTypes
<1>10. HeadAt(cs)
    BY <1>1 DEF HeadAt, ChunkRegion, VersionRegion, HeaderRegion, LateEnd, R!Parser0
<1>11. FieldAt(cs)
    BY <1>1 DEF FieldAt, LineEnd
<1>12. FrameAt(cs)
    BY <1>1 DEF FrameAt, LengthRead, R!Wants0, R!Parser0, R!Empty
<1> QED
    BY <1>1, <1>9, <1>10, <1>11, <1>12 DEF RspInv

LEMMA RspNext ==
    ASSUME RspInv, R!Next
    PROVE  RspInv'
BY RspStartStep, RspChunkStep, RspVersionStep, RspStatusStep, RspReasonStep, RspHeaderSteps, RspNextReadStep,
   RspEndStep
DEF R!Next

LEMMA ResponseInvariant == Spec => []RInv
<1>1. Init => RInv
    BY RspStart DEF Init, RInv
<1>2. RInv /\ [Next]_vars => RInv'
    <2> SUFFICES ASSUME RInv, [Next]_vars, parser' = "response"
                 PROVE  RspInv'
        BY DEF RInv
    <2>1. \/ RspInv /\ R!Next
          \/ RspInv /\ UNCHANGED <<bound, cs, kw, cand, count, p, base, pieces, s, head, line, wants, result>>
        BY DEF RInv, Next, vars, targetVars, pieceVars, responseVars
    <2>2. CASE RspInv /\ R!Next
        BY <2>2, RspNext
    <2>3. CASE RspInv /\ UNCHANGED <<bound, cs, kw, cand, count, p, base, pieces, s, head, line, wants, result>>
        <3>1. /\ result' \in {"none", "head", "closed", "asserts"}
              /\ result' = "head" => cs = "done" /\ ~s.error
            BY <2>3 DEF RspInv, RspTypes
        <3> QED
            BY <2>3, <3>1, RspRests
    <2> QED
        BY <2>1, <2>2, <2>3
<1> QED
    BY <1>1, <1>2, PTL DEF Spec

-----------------------------------------------------------------------------
(* The content-length header: what recvResponse looks a length up by.  It is  *)
(* an invariant of its own, on top of the one above.                          *)

WL == WordLength["Content-Length"]

LengthLines == [colon : Nat, value : Nat, end : Nat]

\* Lines that came in one piece from name to end.
WholeLines == {l \in lengths : LastPiece(pieces, l.end) <= l.colon - WL}

\* The header is the last of them.
LengthKnown ==
    IF WholeLines = {} THEN content_length = <<>>
    ELSE \E l \in WholeLines :
            content_length = <<l.value, l.end>> /\ \A k \in WholeLines : k.end <= l.end

\* The name that was given is all of it exactly when its piece holds all of it.
WholeName(r) == r.field_len = WL <=> base <= line.colon - WL

LateValue == {"Kline", "Kspace", "Kdone", "Kendcr", "Kcolcr", "Kfold"}

\* Where the name of a Content-Length line is.
NameAt(region) ==
    /\ region = "name" /\ "Content-Length" \in cand => count = p - line.start
    /\ region \in {"name", "colon"} => kw = "none"
    /\ region \in {"Kcolon", "Kvalue", "value"} /\ kw = "Content-Length" => line.colon - line.start = WL
    /\ region \in LateValue /\ kw = "Content-Length" => line.colon >= 0 /\ line.colon < p /\ WholeName(s)
    /\ region = "Kfold" /\ kw = "Content-Length" => line.colon < line.value

LenInv ==
    /\ lengths \subseteq LengthLines /\ \A l \in lengths : l.end < p
    /\ LengthKnown /\ NameAt(cs)

LInv == parser = "response" => LenInv

LEMMA LengthWord ==
    WL \in Nat /\ WL > 0
<1>1. {"Content-Length", "Connection"} \subseteq R!Word \ {"number"} /\ "Content-Length" # "Connection"
    BY WordsAre
<1>2. WL \in Nat /\ R!Common("Content-Length", "Connection") < WL
    BY <1>1, WordLengths DEF WL
<1> QED
    BY <1>2, CommonLetters

\* What the end of a Content-Length line reports.
ReportsLine(r) ==
    /\ line.colon \in Nat /\ R!Starts(line).value \in Nat /\ WholeName(r)
    /\ r.field_len = WL => r.value = <<R!Starts(line).value, p>>

LEMMA LenStep ==
    ASSUME RspInv, LenInv, NEW c, NEW to, NEW r, R!Consumes(c, to, r),
           R!LengthEnds(c) => ReportsLine(r), NameAt(to)'
    PROVE  LenInv'
<1>1. /\ p \in Nat /\ base \in Nat /\ base <= p /\ LastPiece(pieces, p) = base /\ p' = p + 1 /\ pieces' = pieces
      /\ cs' = to
    BY RspHere
<1> DEFINE n == [colon |-> line.colon, value |-> R!Starts(line).value, end |-> p]
<1>2. /\ content_length' = IF R!LengthEnds(c) /\ r.field_len = WL THEN r.value ELSE content_length
      /\ lengths' = IF R!LengthEnds(c) THEN lengths \cup {n} ELSE lengths
    BY DEF R!Consumes, R!setHeader, WL
<1>3. \A l \in lengths : l \in LengthLines /\ l.end < p /\ l.end \in Nat
    BY DEF LenInv, LengthLines
<1>4. CASE ~R!LengthEnds(c)
    <2>1. lengths' = lengths /\ content_length' = content_length /\ WholeLines' = WholeLines
        BY <1>1, <1>2, <1>4 DEF WholeLines, WL
    <2>2. LengthKnown'
        BY <2>1 DEF LenInv, LengthKnown
    <2>3. \A l \in lengths' : l.end < p'
        BY <1>1, <1>3, <2>1
    <2> QED
        BY <1>1, <2>1, <2>2, <2>3 DEF LenInv
<1>5. CASE R!LengthEnds(c)
    <2>1. n \in LengthLines /\ n.end = p /\ n.value = R!Starts(line).value /\ n.colon = line.colon
        BY <1>1, <1>5 DEF ReportsLine, LengthLines
    <2> HIDE DEF n
    <2>2. lengths' \subseteq LengthLines /\ \A l \in lengths' : l.end < p'
        BY <1>1, <1>2, <1>3, <1>5, <2>1
    <2>3. r.field_len = WL <=> LastPiece(pieces, n.end) <= n.colon - WL
        BY <1>1, <1>5, <2>1 DEF ReportsLine, WholeName
    <2>4. CASE r.field_len = WL
        <3>1. WholeLines' = WholeLines \cup {n}
            BY <1>1, <1>2, <1>5, <2>3, <2>4 DEF WholeLines, WL
        <3>2. content_length' = <<n.value, n.end>>
            BY <1>2, <1>5, <2>1, <2>4 DEF ReportsLine
        <3>3. \A k \in WholeLines' : k.end <= n.end
            BY <1>1, <1>3, <2>1, <3>1 DEF WholeLines
        <3>4. LengthKnown'
            BY <3>1, <3>2, <3>3 DEF LengthKnown
        <3> QED
            BY <1>1, <2>2, <3>4 DEF LenInv
    <2>5. CASE r.field_len # WL
        <3>1. WholeLines' = WholeLines
            BY <1>1, <1>2, <1>5, <2>3, <2>5 DEF WholeLines, WL
        <3>2. content_length' = content_length
            BY <1>2, <2>5
        <3>3. LengthKnown'
            BY <3>1, <3>2 DEF LenInv, LengthKnown
        <3> QED
            BY <1>1, <2>2, <3>3 DEF LenInv
    <2> QED
        BY <2>4, <2>5
<1> QED
    BY <1>4, <1>5

\* Regions in which no name is known, or none of it matters any more.
Elsewhere == {"start"} \cup ChunkRegion \cup VersionRegion \cup StatusRegion \cup LateEnd
             \cup {"line", "closeline", "cr", "closecr", "chunkedcr"}

LEMMA LenElsewhere ==
    ASSUME RspInv, LenInv, NEW c, NEW to \in Elsewhere, NEW r, R!Consumes(c, to, r),
           R!LengthEnds(c) => ReportsLine(r)
    PROVE  LenInv'
<1>1. NameAt(to)'
    BY DEF NameAt, Elsewhere, ChunkRegion, VersionRegion, StatusRegion, LateEnd, LateValue
<1> QED
    BY <1>1, LenStep

LEMMA LenOutside ==
    ASSUME RspInv, LenInv,
           \/ R!Start \/ R!ChunkSize \/ R!ChunkExtension \/ R!EndCR \/ R!Http \/ R!HttpNumber \/ R!StatusCode
           \/ R!ReasonPhrase \/ R!CarriageReturn
    PROVE  LenInv'
<1>1. \E c, to, r : R!Consumes(c, to, r) /\ cs \in Elsewhere /\ to \in Elsewhere
    <2> USE DEF Elsewhere, ChunkRegion, VersionRegion, StatusRegion, LateEnd, R!Plain, R!Delimits
    <2>1. CASE R!Start \/ R!ChunkSize
        BY <2>1 DEF R!Start, R!ChunkSize
    <2>2. CASE R!ChunkExtension \/ R!EndCR
        BY <2>2 DEF R!ChunkExtension, R!EndCR
    <2>3. CASE R!Http \/ R!HttpNumber
        BY <2>3 DEF R!Http, R!HttpNumber
    <2>4. CASE R!StatusCode \/ R!ReasonPhrase
        BY <2>4 DEF R!StatusCode, R!ReasonPhrase
    <2>5. CASE R!CarriageReturn
        BY <2>5 DEF R!CarriageReturn
    <2> QED
        BY <2>1, <2>2, <2>3, <2>4, <2>5
<1>2. PICK c, to, r : R!Consumes(c, to, r) /\ cs \in Elsewhere /\ to \in Elsewhere
    BY <1>1
<1>3. ~R!LengthEnds(c)
    BY <1>2 DEF R!LengthEnds, Elsewhere, ChunkRegion, VersionRegion, StatusRegion, LateEnd
<1> QED
    BY <1>2, <1>3, LenElsewhere

\* A letter of a name: Content-Length has been followed from its first one.
LEMMA LenLetter ==
    ASSUME NEW c, NEW to, NEW r, NEW words, NEW n \in Nat, R!Letter(c, to, r, words, n)
    PROVE  /\ R!Consumes(c, to, r)
           /\ "Content-Length" \in cand' => "Content-Length" \in words /\ count' = n + 1
BY DEF R!Letter

LEMMA LenNameBegins ==
    ASSUME RspInv, LenInv, cs \in {"line", "closeline", "Kline"}, NEW c, NEW words, NEW r,
           R!Letter(c, "name", r, words, 0), line' = [R!Line0 EXCEPT !.start = p], kw' = "none"
    PROVE  LenInv'
<1>1. R!Consumes(c, "name", r) /\ ("Content-Length" \in cand' => count' = 1)
    BY LenLetter
<1>2. p \in Nat /\ p' = p + 1
    BY <1>1, RspHere
<1>3. line'.start = p
    BY DEF R!Line0
<1>4. NameAt("name")'
    BY <1>1, <1>2, <1>3 DEF NameAt, LateValue
<1>5. ~R!LengthEnds(c)
    BY DEF R!LengthEnds
<1> QED
    BY <1>1, <1>4, <1>5, LenStep

LEMMA LenHeaderLine ==
    ASSUME RspInv, LenInv, R!HeaderLine
    PROVE  LenInv'
<1> DEFINE r == IF cs = "closeline" THEN R!write_connection_close(s) ELSE s
<1>1. cs \in {"line", "closeline"} /\ \A c : ~R!LengthEnds(c)
    BY DEF R!HeaderLine, R!LengthEnds
<1>2. \/ /\ \E c : R!Letter(c, "name", R!start_field(r), R!Names, 0)
         /\ line' = [R!Line0 EXCEPT !.start = p] /\ kw' = "none"
      \/ R!Consumes("LF", "done", R!done(r)) \/ R!Consumes("CR", "endcr", r)
    BY DEF R!HeaderLine, R!Plain
<1> HIDE DEF r
<1> QED
    BY <1>1, <1>2, LenNameBegins, LenElsewhere DEF Elsewhere, LateEnd

\* What the end of a word's line consumes.
LEMMA LenValueEnds ==
    ASSUME NEW w, NEW reported, R!ValueEnds(w, reported)
    PROVE  LET r == IF w = "number" THEN R!write_content_len(s) ELSE s
               u == IF reported THEN R!write_value(r) ELSE r
           IN  \E c, to, v : /\ R!Consumes(c, to, v) /\ to \in {"line", "closeline", "cr", "closecr", "chunkedcr"}
                             /\ w = "number" => v = u
<1> DEFINE r == IF w = "number" THEN R!write_content_len(s) ELSE s
           u == IF reported THEN R!write_value(r) ELSE r
<1>1. \/ w = "close" /\ (R!Consumes("LF", "closeline", u) \/ R!Consumes("CR", "closecr", u))
      \/ /\ w = "chunked"
         /\ R!Consumes("LF", "line", R!trans_chunked(u)) \/ R!Consumes("CR", "chunkedcr", u)
      \/ w = "number" /\ (R!Consumes("LF", "line", u) \/ R!Consumes("CR", "cr", u))
    BY DEF R!ValueEnds
<1> HIDE DEF r, u
<1>2. \E c, to, v : /\ R!Consumes(c, to, v) /\ to \in {"line", "closeline", "cr", "closecr", "chunkedcr"}
                    /\ w = "number" => v = u
    BY <1>1
<1> QED
    BY <1>2 DEF r, u

LEMMA LenFieldName ==
    ASSUME RspInv, LenInv, R!FieldName
    PROVE  LenInv'
<1>1. cs = "name" /\ \A c : ~R!LengthEnds(c)
    BY DEF R!FieldName, R!LengthEnds
<1>2. /\ RspName /\ line \in RspLines /\ p \in Nat /\ count \in Nat
      /\ kw = "none" /\ ("Content-Length" \in cand => count = p - line.start)
    BY <1>1 DEF RspInv, RspTypes, RspWords, PiecesOK, FieldAt, LenInv, NameAt
<1>3. line.start \in Int
    BY <1>2, RspInts
<1>4. ASSUME NEW c, R!Letter(c, "name", s, cand, count), UNCHANGED <<kw, line>>
      PROVE  LenInv'
    <2>1. /\ R!Consumes(c, "name", s)
          /\ "Content-Length" \in cand' => "Content-Length" \in cand /\ count' = count + 1
        BY <1>2, <1>4, LenLetter
    <2>2. p' = p + 1
        BY <2>1, RspHere
    <2>3. NameAt("name")'
        BY <1>2, <1>3, <1>4, <2>1, <2>2 DEF NameAt, LateValue
    <2> QED
        BY <1>1, <2>1, <2>3, LenStep
<1>5. ASSUME NEW to \in {"colon", "Kcolon"}, R!Consumes(":", to, R!write_field(s)), line' = [line EXCEPT !.colon = p],
             to = "colon" => kw' = kw, to = "Kcolon" => kw' \in cand /\ R!Whole(kw')
      PROVE  LenInv'
    <2>1. line'.start = line.start /\ line'.colon = p
        BY <1>2, <1>5 DEF RspLines
    <2>2. to = "Kcolon" /\ kw' = "Content-Length" => p - line.start = WL
        BY <1>2, <1>5 DEF R!Whole, WL
    <2>3. NameAt(to)'
        BY <1>2, <1>5, <2>1, <2>2 DEF NameAt, LateValue, WL
    <2> QED
        BY <1>1, <1>5, <2>3, LenStep
<1>6. ASSUME NEW w, R!ValueEnds(w, w # "close")
      PROVE  LenInv'
    <2>1. \E c, to, v : R!Consumes(c, to, v) /\ to \in {"line", "closeline", "cr", "closecr", "chunkedcr"}
        BY <1>6, LenValueEnds
    <2> QED
        BY <1>1, <2>1, LenElsewhere DEF Elsewhere
<1>7. \/ (\E c : R!Letter(c, "name", s, cand, count)) /\ UNCHANGED <<kw, line>>
      \/ /\ \E w : R!Whole(w) /\ R!Consumes(":", "Kcolon", R!write_field(s)) /\ kw' = w
         /\ line' = [line EXCEPT !.colon = p]
      \/ R!Consumes(":", "colon", R!write_field(s)) /\ line' = [line EXCEPT !.colon = p] /\ kw' = kw
      \/ \E w : R!ValueEnds(w, w # "close")
    BY DEF R!FieldName
<1> QED
    BY <1>4, <1>5, <1>6, <1>7 DEF R!Whole

\* The name, where a value is read behind it.
LEMMA LenName ==
    ASSUME RspInv, LenInv, cs \in {"Kcolon", "Kvalue", "value"}, kw = "Content-Length"
    PROVE  WholeName(s) /\ line.colon \in Nat /\ line.colon < p
<1>1. /\ NameRead /\ line.start \in Int /\ line.colon \in Int /\ line.colon >= 0 /\ line.colon < p
      /\ p \in Nat /\ base \in Nat
    BY RspValueHere
<1>2. line.colon - line.start = WL /\ WL \in Nat /\ WL > 0
    BY LengthWord DEF LenInv, NameAt
<1>3. s.field_start \in Nat /\ s.field_len \in Nat
    BY DEF RspInv, RspTypes, RspGood, RspFields
<1>4. CASE base <= line.colon
    <2>1. base + s.field_start = Later(line.start, base) /\ base + s.field_start + s.field_len = line.colon
        BY <1>1, <1>4 DEF NameRead
    <2>2. CASE base <= line.start
        <3>1. base + s.field_start = line.start
            BY <1>1, <2>1, <2>2 DEF Later
        <3>2. s.field_len = WL /\ base <= line.colon - WL
            BY <1>1, <1>2, <1>3, <2>1, <2>2, <3>1
        <3> QED
            BY <1>1, <3>2 DEF WholeName
    <2>3. CASE ~(base <= line.start)
        <3>1. base + s.field_start = base
            BY <1>1, <2>1, <2>3 DEF Later
        <3>2. s.field_len # WL /\ ~(base <= line.colon - WL)
            BY <1>1, <1>2, <1>3, <2>1, <2>3, <3>1
        <3> QED
            BY <1>1, <3>2 DEF WholeName
    <2> QED
        BY <2>2, <2>3
<1>5. CASE ~(base <= line.colon)
    <2>1. s.field_len = 0
        BY <1>1, <1>5 DEF NameRead
    <2> QED
        BY <1>1, <1>2, <1>5, <2>1 DEF WholeName
<1> QED
    BY <1>4, <1>5

\* At the end of the line the header is reported with its value.
LEMMA LenReports ==
    ASSUME RspInv, LenInv, cs \in {"Kcolon", "Kvalue", "value"}, kw = "Content-Length", NEW r, Behind(r), NEW u,
           u.field_len = r.field_len, Stored(u, r)
    PROVE  ReportsLine(u)
<1>1. /\ line \in RspLines /\ line.value \in Int /\ p \in Nat /\ base \in Nat /\ base <= p
      /\ cs = "Kcolon" => line.value = NULL
      /\ cs \in {"value", "Kvalue"} => line.colon < line.value /\ line.value < p /\ MarkAt(s, line.value)
    BY RspValueHere
<1>2. WholeName(s) /\ line.colon \in Nat /\ line.colon < p
    BY LenName
<1>3. r.field_len = s.field_len /\ WL \in Nat /\ WL > 0
    BY LengthWord DEF Behind, SameName
<1>4. WholeName(u)
    BY <1>2, <1>3 DEF WholeName
<1>5. CASE cs = "Kcolon"
    <2>1. R!Starts(line).value = p /\ base + r.mark = p
        BY <1>1, <1>5 DEF R!Starts, R!NULL, NULL, RspLines, Behind
    <2> QED
        BY <1>1, <1>2, <1>3, <1>4, <2>1 DEF ReportsLine, Stored
<1>6. CASE cs \in {"value", "Kvalue"}
    <2>1. R!Starts(line).value = line.value /\ line.value \in Nat
        BY <1>1, <1>2, <1>6 DEF R!Starts, R!NULL
    <2>2. r.mark = s.mark /\ base + s.mark = Later(line.value, base)
        BY <1>1, <1>6 DEF Behind, MarkAt
    <2>3. u.field_len = WL => base < line.value
        BY <1>1, <1>2, <1>3, <1>4, <1>6 DEF WholeName
    <2>4. u.field_len = WL => base + r.mark = line.value
        BY <1>1, <2>1, <2>2, <2>3 DEF Later
    <2> QED
        BY <1>2, <1>3, <1>4, <2>1, <2>4 DEF ReportsLine, Stored
<1> QED
    BY <1>5, <1>6

LEMMA SameLength ==
    ASSUME NEW r, RspGood(r)
    PROVE  /\ R!write_value(r).field_len = r.field_len /\ R!start_value(r).field_len = r.field_len
           /\ R!write_content_len(r).field_len = r.field_len /\ R!done(r).field_len = r.field_len
BY DEF RspGood, RspFields, R!write_value, R!start_value, R!write_content_len, R!done

LEMMA LenLineEnds ==
    ASSUME RspInv, LenInv, cs \in {"Kcolon", "Kvalue", "value"}, NEW r, Behind(r), NEW c, NEW to,
           R!Consumes(c, to, R!write_value(r)), NameAt(to)'
    PROVE  LenInv'
<1>1. PiecesOK /\ RspGood(r)
    BY DEF RspInv, RspTypes, Behind
<1>2. Stored(R!write_value(r), r) /\ R!write_value(r).field_len = r.field_len
    BY <1>1, RspWriteValue, SameLength
<1>3. R!LengthEnds(c) => ReportsLine(R!write_value(r))
    BY <1>2, LenReports DEF R!LengthEnds
<1> QED
    BY <1>3, LenStep

\* Behind a colon, in the value.
LEMMA LenValueGoesOn ==
    ASSUME RspInv, LenInv, cs \in {"colon", "value", "Kcolon", "Kvalue"}, NEW c, c \notin {"CR", "LF"},
           NEW to \in {"colon", "Kcolon", "value", "Kvalue"}, NEW r, R!Consumes(c, to, r), kw' = kw,
           line' = line \/ line' = R!Starts(line), to = "colon" => cs = "colon"
    PROVE  LenInv'
<1>1. line \in RspLines /\ line.start \in Int /\ line.colon \in Int
    BY RspValueHere
<1>2. line'.start = line.start /\ line'.colon = line.colon
    BY <1>1 DEF R!Starts, RspLines
<1>3. NameAt(to)'
    BY <1>1, <1>2 DEF LenInv, NameAt, LateValue, WL
<1>4. ~R!LengthEnds(c)
    BY DEF R!LengthEnds
<1> QED
    BY <1>3, <1>4, LenStep

LEMMA LenFieldValue ==
    ASSUME RspInv, LenInv, R!FieldValue
    PROVE  LenInv'
<1> DEFINE r == IF cs = "colon" THEN R!start_value(s) ELSE s
<1>1. cs \in {"colon", "value"} /\ kw' = kw
    BY DEF R!FieldValue
<1>2. Behind(r)
    BY <1>1, BehindColon
<1>3. \/ \E c \in {"tok", "sep", ":"} : R!Consumes(c, "value", r) /\ line' = R!Starts(line)
      \/ R!Consumes("sp", cs, r) /\ line' = line
      \/ \E c, to : to \in {"line", "cr"} /\ R!Consumes(c, to, R!write_value(r))
    BY DEF R!FieldValue
<1> HIDE DEF r
<1>4. ASSUME NEW c, NEW to \in {"line", "cr"}, R!Consumes(c, to, R!write_value(r))
      PROVE  LenInv'
    <2>1. NameAt(to)'
        BY DEF NameAt, LateValue
    <2>2. CASE cs = "colon"
        <3>1. ~R!LengthEnds(c)
            BY <2>2 DEF R!LengthEnds
        <3> QED
            BY <1>4, <2>1, <3>1, LenStep
    <2>3. CASE cs = "value"
        BY <1>2, <1>4, <2>1, <2>3, LenLineEnds
    <2> QED
        BY <1>1, <2>2, <2>3
<1>5. CASE R!Consumes("sp", cs, r) /\ line' = line
    BY <1>1, <1>5, LenValueGoesOn
<1>6. CASE \E c \in {"tok", "sep", ":"} : R!Consumes(c, "value", r) /\ line' = R!Starts(line)
    BY <1>1, <1>6, LenValueGoesOn
<1> QED
    BY <1>3, <1>4, <1>5, <1>6

LEMMA LenKeywordColon ==
    ASSUME RspInv, LenInv, kw \in R!Names, R!KeywordColon
    PROVE  LenInv'
<1> DEFINE r == R!start_value(s)
<1>1. cs = "Kcolon" /\ kw' = kw
    BY DEF R!KeywordColon
<1>2. Behind(r)
    BY <1>1, BehindColon
<1>3. R!ValueOf[kw] \notin {"CR", "LF"}
    BY ValueOfs, WordsAre
<1>4. \/ \E c, to : /\ c \notin {"CR", "LF"} /\ to \in {"Kvalue", "value", "Kcolon"}
                    /\ R!Consumes(c, to, r) /\ (line' = line \/ line' = R!Starts(line))
      \/ \E c, to : to \in {"Kline", "Kcolcr"} /\ R!Consumes(c, to, R!write_value(r)) /\ line' = R!Ends(line)
    BY <1>3 DEF R!KeywordColon, R!Letter, R!history
<1> HIDE DEF r
<1>5. ASSUME NEW c, NEW to \in {"Kline", "Kcolcr"}, R!Consumes(c, to, R!write_value(r)), line' = R!Ends(line)
      PROVE  LenInv'
    <2>1. PiecesOK /\ RspGood(r) /\ s' = R!write_value(r) /\ p' = p + 1 /\ base' = base /\ p \in Nat
        BY <1>2, <1>5, RspHere DEF Behind
    <2>2. s'.field_len = s.field_len
        BY <1>2, <2>1, SameLength DEF Behind, SameName
    <2>3. line'.colon = line.colon
        <3>1. line \in RspLines
            BY DEF RspInv, RspTypes
        <3> QED
            BY <1>5, <3>1 DEF R!Ends, R!Starts, RspLines
    <2>4. kw = "Content-Length" => WholeName(s) /\ line.colon \in Nat /\ line.colon < p
        BY <1>1, LenName
    <2>5. kw = "Content-Length" => WholeName(s)' /\ line'.colon >= 0 /\ line'.colon < p'
        BY <2>1, <2>2, <2>3, <2>4 DEF WholeName, WL
    <2>6. NameAt(to)'
        BY <1>1, <2>5 DEF NameAt, LateValue
    <2> QED
        BY <1>1, <1>2, <1>5, <2>6, LenLineEnds
<1> QED
    BY <1>1, <1>4, <1>5, LenValueGoesOn

\* The end of a line that is one of the words: of Content-Length it is digits.
LEMMA LenWordEnds ==
    ASSUME RspInv, LenInv, kw \in R!Names, NEW reported, R!ValueEnds(R!ValueOf[kw], reported),
           kw = "Content-Length" => reported /\ \A u : u.field_len = s.field_len /\ Stored(u, s) => ReportsLine(u)
    PROVE  LenInv'
<1>1. PiecesOK /\ RspGood(s)
    BY DEF RspInv, RspTypes
<1>2. CASE kw = "Content-Length"
    <2> DEFINE r == R!write_content_len(s)
               u == R!write_value(r)
    <2>1. R!ValueOf[kw] = "number"
        BY <1>2 DEF R!ValueOf, R!Names
    <2>2. PICK c, to, v : R!Consumes(c, to, v) /\ to \in {"line", "closeline", "cr", "closecr", "chunkedcr"} /\ v = u
        BY <1>2, <2>1, LenValueEnds
    <2>3. RspGood(r) /\ SameName(r, s) /\ r.mark = s.mark
        BY <1>1, RspContentLen
    <2>4. Stored(u, r) /\ u.field_len = r.field_len
        BY <1>1, <2>3, RspWriteValue, SameLength
    <2> HIDE DEF r, u
    <2>5. Stored(u, s) /\ u.field_len = s.field_len
        BY <2>3, <2>4 DEF Stored, SameName
    <2>6. ReportsLine(v)
        BY <1>2, <2>2, <2>5
    <2> QED
        BY <2>2, <2>6, LenElsewhere DEF Elsewhere
<1>3. CASE kw # "Content-Length"
    <2>1. \E c, to, v : R!Consumes(c, to, v) /\ to \in {"line", "closeline", "cr", "closecr", "chunkedcr"}
        BY LenValueEnds
    <2>2. \A c : ~R!LengthEnds(c)
        BY <1>3 DEF R!LengthEnds
    <2> QED
        BY <2>1, <2>2, LenElsewhere DEF Elsewhere
<1> QED
    BY <1>2, <1>3

LEMMA LenKeywordValue ==
    ASSUME RspInv, LenInv, kw \in R!Names, R!KeywordValue
    PROVE  LenInv'
<1> DEFINE w == R!ValueOf[kw]
<1>1. cs = "Kvalue" /\ w \notin {"CR", "LF"}
    BY ValueOfs, WordsAre DEF R!KeywordValue
<1>2. Behind(s)
    BY <1>1, BehindColon
<1>3. \/ \E c, to : /\ c \notin {"CR", "LF"} /\ to \in {"Kvalue", "value"} /\ R!Consumes(c, to, s)
                    /\ kw' = kw /\ line' = line
      \/ R!ValueEnds(w, TRUE)
      \/ \E c, to : to \in {"line", "cr"} /\ R!Consumes(c, to, R!write_value(s))
    BY <1>1 DEF R!KeywordValue, R!Letter, R!history
<1>4. ASSUME NEW c, NEW to \in {"line", "cr"}, R!Consumes(c, to, R!write_value(s))
      PROVE  LenInv'
    <2>1. NameAt(to)'
        BY DEF NameAt, LateValue
    <2> QED
        BY <1>1, <1>2, <1>4, <2>1, LenLineEnds
<1>5. CASE R!ValueEnds(w, TRUE)
    <2>1. kw = "Content-Length" => \A u : u.field_len = s.field_len /\ Stored(u, s) => ReportsLine(u)
        BY <1>1, <1>2, LenReports
    <2> QED
        BY <1>5, <2>1, LenWordEnds
<1> HIDE DEF w
<1> QED
    BY <1>1, <1>3, <1>4, <1>5, LenValueGoesOn

\* Blanks and line breaks behind an empty value: the name stays as it is known.
LEMMA LenIdle ==
    ASSUME RspInv, LenInv, cs \in LateValue \ {"Kfold"}, NEW c, NEW to \in LateValue \ {"Kfold"},
           NEW r, r.field_len = s.field_len, R!Consumes(c, to, r), kw' = kw, line' = line
    PROVE  LenInv'
<1>1. p \in Nat /\ p' = p + 1 /\ base' = base /\ s' = r /\ line \in RspLines
    BY RspHere
<1>2. line.colon \in Int
    BY <1>1, RspInts
<1>3. kw = "Content-Length" => line.colon >= 0 /\ line.colon < p /\ WholeName(s)
    BY DEF LenInv, NameAt
<1>4. NameAt(to)'
    BY <1>1, <1>2, <1>3 DEF NameAt, LateValue, WholeName, WL
<1>5. ~R!LengthEnds(c)
    BY DEF R!LengthEnds, LateValue
<1> QED
    BY <1>4, <1>5, LenStep

LEMMA LenKeywordLine ==
    ASSUME RspInv, LenInv, R!KeywordLine
    PROVE  LenInv'
<1>1. cs = "Kline" /\ RspGood(s)
    BY DEF R!KeywordLine, RspInv, RspTypes
<1>2. \/ /\ \E c, r, words : R!Letter(c, "name", r, words, 0)
         /\ line' = [R!Line0 EXCEPT !.start = p] /\ kw' = "none"
      \/ \E c, to, r : /\ to \in {"Kspace", "Kdone", "Kendcr"} /\ r \in {s, R!done(s)} /\ R!Consumes(c, to, r)
                       /\ kw' = kw /\ line' = line
    <2>1. \/ /\ \E c \in R!Class : \E r, words : R!Letter(c, "name", r, words, 0)
             /\ line' = [R!Line0 EXCEPT !.start = p] /\ kw' = "none"
          \/ R!Plain("sp", "Kspace", s) \/ R!Plain("LF", "Kdone", R!done(s)) \/ R!Plain("CR", "Kendcr", s)
        BY DEF R!KeywordLine
    <2> QED
        BY <2>1 DEF R!Plain, R!history
<1>3. R!done(s).field_len = s.field_len
    BY <1>1, SameLength
<1> QED
    BY <1>1, <1>2, <1>3, LenNameBegins, LenIdle DEF LateValue

LEMMA LenFoldedStart ==
    ASSUME RspInv, LenInv, kw \in R!Names, cs \in {"Kspace", "Kdone", "Kendcr", "Kcolcr"}, R!FoldedStart
    PROVE  LenInv'
<1> DEFINE r == IF kw = "Connection" THEN s ELSE R!start_value(s)
<1>1. /\ R!Consumes(R!ValueOf[kw], "Kfold", r) /\ kw' = kw
      /\ line' = R!Starts([R!Line0 EXCEPT !.colon = line.colon])
    BY DEF R!FoldedStart, R!Letter
<1>2. RspGood(s) /\ line \in RspLines
    BY DEF RspInv, RspTypes
<1>3. r.field_len = s.field_len
    BY <1>2, SameLength
<1> HIDE DEF r
<1>4. p \in Nat /\ p' = p + 1 /\ base' = base /\ s' = r
    BY <1>1, RspHere
<1>5. line.colon \in Int /\ line'.colon = line.colon /\ line'.value = p
    BY <1>1, <1>2, RspInts DEF R!Starts, R!Line0, R!NULL
<1>6. kw = "Content-Length" => line.colon >= 0 /\ line.colon < p /\ WholeName(s)
    BY DEF LenInv, NameAt, LateValue
<1>7. NameAt("Kfold")'
    BY <1>1, <1>3, <1>4, <1>5, <1>6 DEF NameAt, LateValue, WholeName, WL
<1>8. ~R!LengthEnds(R!ValueOf[kw])
    BY DEF R!LengthEnds
<1> QED
    BY <1>1, <1>7, <1>8, LenStep

LEMMA LenKeywordSpace ==
    ASSUME RspInv, LenInv, kw \in R!Names, R!KeywordSpace
    PROVE  LenInv'
<1>1. RspGood(s) /\ R!done(s).field_len = s.field_len
    BY SameLength DEF RspInv, RspTypes
<1>2. /\ cs \in {"Kspace", "Kdone", "Kendcr", "Kcolcr"}
      /\ \/ R!FoldedStart
         \/ \E c, to, r : /\ to \in {"Kspace", "Kdone", "Kline"} /\ r \in {s, R!done(s)} /\ R!Consumes(c, to, r)
                          /\ kw' = kw /\ line' = line
    BY DEF R!KeywordSpace, R!Plain, R!history
<1> QED
    BY <1>1, <1>2, LenFoldedStart, LenIdle DEF LateValue

LEMMA LenFoldedValue ==
    ASSUME RspInv, LenInv, kw \in R!Names, R!FoldedValue
    PROVE  LenInv'
<1> DEFINE w == R!ValueOf[kw]
<1>1. cs = "Kfold" /\ w \notin {"CR", "LF"} /\ line' = line
    BY ValueOfs, WordsAre DEF R!FoldedValue
<1>2. line \in RspLines /\ p \in Nat /\ base \in Nat /\ (kw # "Connection" => MarkAt(s, line.value))
      /\ line.value >= 0 /\ RspGood(s)
    BY <1>1 DEF RspInv, RspTypes, PiecesOK, FieldAt
<1>3. line.colon \in Int /\ line.value \in Int
    BY <1>2, RspInts
<1>4. kw = "Content-Length" => line.colon >= 0 /\ line.colon < p /\ WholeName(s) /\ line.colon < line.value
    BY <1>1 DEF LenInv, NameAt, LateValue
<1>5. \/ R!Consumes(w, "Kfold", s) /\ kw' = kw
      \/ R!ValueEnds(w, w # "close")
    BY DEF R!FoldedValue, R!Letter
<1>6. CASE R!Consumes(w, "Kfold", s) /\ kw' = kw
    <2>1. p' = p + 1 /\ base' = base /\ s' = s
        BY <1>6, RspHere
    <2>2. NameAt("Kfold")'
        BY <1>1, <1>2, <1>3, <1>4, <1>6, <2>1 DEF NameAt, LateValue, WholeName, WL
    <2>3. ~R!LengthEnds(w)
        BY <1>1 DEF R!LengthEnds
    <2> QED
        BY <1>6, <2>2, <2>3, LenStep
<1>7. CASE R!ValueEnds(w, w # "close")
    <2>1. ASSUME kw = "Content-Length", NEW u, u.field_len = s.field_len, Stored(u, s)
          PROVE  ReportsLine(u)
        <3>1. R!Starts(line).value = line.value /\ line.value \in Nat /\ line.colon \in Nat
            BY <1>2, <1>3, <1>4, <2>1 DEF R!Starts, R!NULL
        <3>2. WholeName(u) /\ WL \in Nat /\ WL > 0
            BY <1>4, <2>1, LengthWord DEF WholeName
        <3>3. u.field_len = WL => base < line.value
            BY <1>2, <1>3, <1>4, <2>1, <3>2 DEF WholeName
        <3>4. base + s.mark = Later(line.value, base)
            BY <1>2, <2>1 DEF MarkAt
        <3>5. u.field_len = WL => base + s.mark = line.value
            BY <1>2, <1>3, <3>3, <3>4 DEF Later
        <3> QED
            BY <2>1, <3>1, <3>2, <3>5 DEF ReportsLine, Stored
    <2>2. kw = "Content-Length" => w # "close"
        BY DEF R!ValueOf, R!Names
    <2>3. \E reported : R!ValueEnds(w, reported) /\ (kw = "Content-Length" => reported)
        BY <1>7, <2>2
    <2> HIDE DEF w
    <2> QED
        BY <2>1, <2>3, LenWordEnds DEF w
<1> QED
    BY <1>5, <1>6, <1>7

\* A read ends: no name that is known is whole in what comes.
LEMMA LenNextRead ==
    ASSUME RspInv, LenInv, R!NextRead
    PROVE  LenInv'
<1>1. /\ PastKept /\ base' = p /\ p' = p /\ p \in Nat /\ s'.field_len = 0
    BY RspRestart DEF PastKept
<1>2. UNCHANGED <<cs, kw, cand, count, line, content_length, lengths>> /\ line \in RspLines
    BY DEF R!NextRead, R!history, R!lengthVars, RspInv, RspTypes
<1>3. \A l \in lengths : l.end \in Nat /\ l.end < p
    BY DEF LenInv, LengthLines
<1>4. \A l \in lengths : LastPiece(pieces', l.end) = LastPiece(pieces, l.end)
    BY <1>1, <1>3 DEF PastKept
<1>5. WholeLines' = WholeLines
    BY <1>2, <1>4 DEF WholeLines, WL
<1>6. LengthKnown'
    BY <1>2, <1>5 DEF LenInv, LengthKnown
<1>7. NameAt(cs)'
    <2>1. line.colon \in Int /\ line.start \in Int /\ WL \in Nat /\ WL > 0 /\ WL' = WL
        BY <1>2, RspInts, LengthWord DEF WL
    <2>2. line.colon < p => WholeName(s)'
        BY <1>1, <1>2, <2>1 DEF WholeName
    <2> QED
        BY <1>1, <1>2, <2>1, <2>2 DEF LenInv, NameAt, LateValue
<1> QED
    BY <1>1, <1>2, <1>6, <1>7 DEF LenInv

LEMMA LenRests ==
    ASSUME LenInv, UNCHANGED <<cs, kw, cand, count, p, base, pieces, s, line, content_length, lengths>>
    PROVE  LenInv'
<1>1. WholeLines' = WholeLines
    BY DEF WholeLines, WL
<1>2. LengthKnown' /\ NameAt(cs)'
    BY <1>1 DEF LenInv, LengthKnown, NameAt, WholeName, WL
<1> QED
    BY <1>2 DEF LenInv

LEMMA LenNext ==
    ASSUME RspInv, LenInv, R!Next
    PROVE  LenInv'
<1>1. ASSUME kw \in {"Connection", "Transfer-Encoding", "Content-Length"},
             R!KeywordColon \/ R!KeywordLine \/ R!KeywordSpace \/ R!KeywordValue \/ R!FoldedValue
      PROVE  LenInv'
    <2>1. kw \in R!Names
        BY <1>1, WordsAre
    <2> QED
        BY <1>1, <2>1, LenKeywordColon, LenKeywordLine, LenKeywordSpace, LenKeywordValue, LenFoldedValue
<1>2. CASE R!Header
    BY <1>1, <1>2, HeaderActions, LenHeaderLine, LenFieldValue, LenOutside, LenFieldName
<1>3. CASE R!Asserts \/ R!Closes \/ R!Finishes \/ R!Done
    <2>1. UNCHANGED <<cs, kw, cand, count, p, base, pieces, s, line, content_length, lengths>>
        BY <1>3 DEF R!Asserts, R!Closes, R!Finishes, R!Done, R!Untouched, R!history, R!lengthVars, R!vars
    <2> QED
        BY <2>1, LenRests
<1> QED
    BY <1>2, <1>3, LenOutside, LenNextRead DEF R!Next

LEMMA LenStart ==
    ASSUME R!Init
    PROVE  LenInv
<1>1. lengths = {} /\ content_length = <<>> /\ cs = "start"
    BY DEF R!Init, R!Empty
<1> QED
    BY <1>1 DEF LenInv, LengthKnown, WholeLines, NameAt, LateValue

LEMMA LengthInvariant == Spec => []LInv
<1>1. Init => LInv
    BY LenStart DEF Init, LInv
<1>2. RInv /\ LInv /\ [Next]_vars => LInv'
    <2> SUFFICES ASSUME RInv, LInv, [Next]_vars, parser' = "response"
                 PROVE  LenInv'
        BY DEF LInv
    <2>1. \/ RspInv /\ LenInv /\ R!Next
          \/ LenInv /\ UNCHANGED <<cs, kw, cand, count, p, base, pieces, s, line, content_length, lengths>>
        BY DEF RInv, LInv, Next, vars, targetVars, pieceVars, responseVars
    <2> QED
        BY <2>1, LenNext, LenRests
<1> QED
    BY <1>1, <1>2, ResponseInvariant, PTL DEF Spec

-----------------------------------------------------------------------------
(* The results *)

\* The part of a range that is in the piece where it ends.
LEMMA RspKeptIs ==
    ASSUME PiecesOK, NEW a \in Int, NEW q \in Nat
    PROVE  /\ R!Kept(<<a, q>>) = <<Later(a, LastPiece(pieces, q)), q>> /\ R!Piece(q) = LastPiece(pieces, q)
           /\ R!Number(<<a, q>>) = NumberAt(a, q)
<1>1. \A S : R!Max(S) = Q!Max(S)
    BY DEF R!Max, Q!Max
<1>2. R!Piece(q) = LastPiece(pieces, q)
    BY <1>1 DEF R!Piece, LastPiece
<1>3. R!Kept(<<a, q>>) = <<Later(a, LastPiece(pieces, q)), q>>
    BY <1>2, LastPieceNat, MaxOfTwo DEF R!Kept
<1>4. R!Number(<<a, q>>) = NumberAt(a, q)
    BY <1>3 DEF R!Number, NumberAt, R!NULL, NULL
<1> QED
    BY <1>2, <1>3, <1>4

\* HttpConnection::recvResponse over httpclient_parser_execute: when a head with
\* a status line is returned, on_response_version was given the whole version
\* (or, after a read that ended behind it, nothing), the status is the number of
\* the digits that came in the piece in which the code ends (or what atoi finds
\* behind them), and on_response_reason was given that part of the phrase, for
\* responses of any length in any pieces.
THEOREM ResponseStatusLine == Spec => []StatusLineAgrees
<1>1. RInv => StatusLineAgrees
    <2> SUFFICES ASSUME RInv, parser = "response", result = "head", head.end # NULL
                 PROVE  R!StatusLineAgrees
        BY DEF StatusLineAgrees, R!StatusLineAgrees, R!NULL, NULL
    <2>1. RspInv /\ PiecesOK /\ head \in RspHeads /\ cs = "done" /\ ~s.error
        BY DEF RInv, RspInv, RspTypes
    <2>2. StatusLineRead(s)
        BY <2>1 DEF RspInv, HeadAt, LateEnd
    <2>3. head.sp1 \in Int /\ head.sp2 \in Nat /\ head.end \in Nat
        <3>1. head.sp1 \in Int /\ head.sp2 \in Int /\ head.end \in Int
            BY <2>1, RspInts
        <3>2. head.sp2 >= 0 /\ head.end >= 0
            BY <2>2 DEF StatusLineRead, StatusRead
        <3> QED
            BY <3>1, <3>2
    <2>4. /\ R!Number(<<head.sp1 + 1, head.sp2>>) = NumberAt(head.sp1 + 1, head.sp2)
          /\ R!Kept(<<head.sp2 + 1, head.end>>) = <<Later(head.sp2 + 1, LastPiece(pieces, head.end)), head.end>>
        BY <2>1, <2>3, RspKeptIs
    <2> QED
        BY <2>1, <2>2, <2>4 DEF StatusLineRead, StatusRead, VersionRead, R!StatusLineAgrees
<1> QED
    BY <1>1, ResponseInvariant, PTL

\* on_response_http_field: behind a header line the header was stored, with its
\* value and with what its name had in the piece of the colon, exactly when no
\* read ended between the last byte of the name and the end of the line;
\* otherwise it is lost, the length of its name having restarted at 0.
THEOREM ResponseHeader == Spec => []ResponseHeaderAgrees
<1>1. RInv => ResponseHeaderAgrees
    <2> SUFFICES ASSUME RInv, parser = "response", cs \in LineEnd, line.start # NULL
                 PROVE  R!HeaderAgrees
        BY DEF ResponseHeaderAgrees, R!HeaderAgrees, R!HeaderRead, LineEnd, R!NULL, NULL
    <2>1. RspInv /\ PiecesOK /\ line \in RspLines
        BY DEF RInv, RspInv, RspTypes
    <2>2. FieldRead
        BY <2>1 DEF RspInv, FieldAt
    <2>3. line.start \in Int /\ line.colon \in Nat /\ line.end \in Nat
        <3>1. line.start \in Int /\ line.colon \in Int /\ line.end \in Int
            BY <2>1, RspInts
        <3>2. line.colon >= 0 /\ line.colon < line.end
            BY <2>2 DEF FieldRead
        <3> QED
            BY <3>1, <3>2
    <2>4. R!Kept(<<line.start, line.colon>>) = <<Later(line.start, LastPiece(pieces, line.colon)), line.colon>>
        BY <2>1, <2>3, RspKeptIs
    <2>5. R!Piece(line.end) = LastPiece(pieces, line.end)
        BY <2>1, <2>3, RspKeptIs
    <2> QED
        BY <2>2, <2>4, <2>5 DEF FieldRead, R!HeaderAgrees
<1> QED
    BY <1>1, ResponseInvariant, PTL

\* HttpConnection::recvResponse, when a head is returned: `chunked`, which decides
\* how the body is read, is what the lines of the head (or a chunk's header) say,
\* one line late included; the stored content-length header, which a body that is
\* not chunked is read by, is that of the last Content-Length line that no read
\* split, and there is none when reads split them all; and content_len, which the
\* chunk loop reads by, is the number of the digits in the piece where they end.
THEOREM ResponseFraming == Spec => []FramingAgrees
<1>1. RInv /\ LInv => FramingAgrees
    <2> SUFFICES ASSUME RInv, LInv, parser = "response", result = "head"
                 PROVE  R!FramingAgrees
        BY DEF FramingAgrees, R!FramingAgrees
    <2>1. RspInv /\ PiecesOK /\ cs = "done" /\ LenInv
        BY DEF RInv, LInv, RspInv, RspTypes
    <2>2. LengthRead(s) /\ s.chunked = wants.chunked
        BY <2>1 DEF RspInv, FrameAt
    <2>3. R!WholeLengths = WholeLines
        <3>1. \A q \in Nat : R!Number(<<0, q>>) = NumberAt(0, q) /\ R!Piece(q) = LastPiece(pieces, q)
            BY <2>1, RspKeptIs, 0 \in Int
        <3>2. \A l \in lengths : l.end \in Nat
            BY <2>1 DEF LenInv, LengthLines
        <3>3. \A l \in lengths : R!Piece(l.end) = LastPiece(pieces, l.end)
            BY <3>1, <3>2
        <3> QED
            BY <3>3 DEF R!WholeLengths, WholeLines, WL
    <2>4. IF R!WholeLengths = {} THEN content_length = R!Empty
          ELSE \E l \in R!WholeLengths :
                  content_length = <<l.value, l.end>> /\ \A k \in R!WholeLengths : k.end <= l.end
        BY <2>1, <2>3 DEF LenInv, LengthKnown, R!Empty
    <2>5. s.content_len = IF wants.size = R!Empty THEN R!Empty ELSE R!Number(wants.size)
        <3>1. CASE wants.size = <<>>
            BY <2>2, <3>1 DEF LengthRead, R!Empty
        <3>2. CASE wants.size # <<>>
            <4>1. wants.size \in Nat \X Nat
                BY <2>2, <3>2 DEF LengthRead
            <4>2. PICK a \in Nat, b \in Nat : wants.size = <<a, b>>
                BY <4>1
            <4>3. R!Number(<<a, b>>) = NumberAt(a, b)
                BY <2>1, RspKeptIs
            <4>4. s.content_len = NumberAt(a, b)
                BY <2>2, <3>2, <4>2 DEF LengthRead
            <4> QED
                BY <3>2, <4>2, <4>3, <4>4 DEF R!Empty
        <3> QED
            BY <3>1, <3>2
    <2> QED
        BY <2>2, <2>4, <2>5 DEF R!FramingAgrees
<1> QED
    BY <1>1, ResponseInvariant, LengthInvariant, PTL

\* The last piece is the greatest, and an offset in it is not behind p.
LEMMA PiecesTyped ==
    ASSUME PiecesOK
    PROVE  /\ base \in 0..p /\ pieces \subseteq 0..p /\ base = Q!Max(pieces) /\ base = R!Max(pieces)
           /\ \A n \in Nat : base + n <= p => n \in 0..(p - base)
<1>1. pieces \in SUBSET Int /\ base \in pieces /\ \A b \in pieces : b <= base
    BY DEF PiecesOK
<1>2. base = Q!Max(pieces) /\ base = R!Max(pieces)
    BY <1>1, MaxIs
<1>3. p \in Nat /\ base \in Nat /\ base <= p /\ \A b \in pieces : b \in Nat /\ b <= base
    BY DEF PiecesOK
<1> QED
    BY <1>2, <1>3

LEMMA UriTyped ==
    ASSUME UriInv
    PROVE  U!TypeOK
<1> USE DEF NULL, U!NULL
<1>1. UriTypes /\ LiteralTypes
    BY DEF UriInv
<1>2. p \in Nat /\ m \in Fields /\ FieldsInside(m)
    BY <1>1, BoundsAssumption DEF UriTypes
<1>3. m.mark \in {U!NULL} \cup 0..p /\ m.threw \in BOOLEAN
    BY <1>2 DEF Fields, FieldsInside, Pos
<1>4. ASSUME NEW f \in {m.scheme, m.userinfo, m.host, m.port, m.path, m.query, m.fragment}, f # <<>>
      PROVE  0 <= f[1] /\ f[1] <= f[2] /\ f[2] <= p
    <2>1. f \in Cut /\ Inside(f)
        BY <1>2, <1>4 DEF Fields, FieldsInside
    <2>2. f \in Nat \X Nat
        BY <1>4, <2>1 DEF Cut
    <2> QED
        BY <1>4, <2>1, <2>2 DEF Inside
<1>5. lit.groups \in 0..8 /\ lit.gap \in -1..7 /\ lit.digits \in 0..4 /\ lit.dots \in 0..3
    BY <1>1 DEF LiteralTypes
<1> QED
    BY <1>1, <1>3, <1>4, <1>5 DEF UriTypes, U!TypeOK, U!Empty

LEMMA ReqTyped ==
    ASSUME ReqInv
    PROVE  Q!TypeOK
<1>1. ReqTypes /\ PiecesOK /\ ReqGood(s)
    BY DEF ReqInv, ReqTypes
<1>2. s.mark \in Nat /\ s.field_start \in Nat /\ s.field_len \in Nat
    BY <1>1 DEF ReqGood, ReqFields
<1>3. s.mark \in 0..(p - base) /\ s.field_start \in 0..(p - base) /\ s.field_len \in 0..(p - base)
    BY <1>1, <1>2, PiecesTyped DEF ReqGood
<1>4. base \in 0..p /\ pieces \subseteq 0..p /\ base = Q!Max(pieces) /\ Q!Cardinality(pieces) <= MaxReads
    BY <1>1, PiecesTyped, SameCardinality DEF PiecesOK
<1> QED
    BY <1>1, <1>3, <1>4 DEF ReqTypes, ReqLit, Q!TypeOK, Q!Offset

LEMMA RspTyped ==
    ASSUME RspInv
    PROVE  R!TypeOK
<1>1. RspTypes /\ PiecesOK /\ RspGood(s) /\ RspWords
    BY DEF RspInv, RspTypes
<1>2. s.mark \in Nat /\ s.field_start \in Nat /\ s.field_len \in Nat
    BY <1>1 DEF RspGood, RspFields
<1>3. s.mark \in 0..(p - base) /\ s.field_start \in 0..(p - base) /\ s.field_len \in 0..(p - base)
    BY <1>1, <1>2, PiecesTyped DEF RspGood
<1>4. pieces \subseteq 0..p /\ base = R!Max(pieces)
    BY <1>1, PiecesTyped
<1> QED
    BY <1>1, <1>3, <1>4 DEF RspTypes, RspWords, R!TypeOK, R!Offset

\* The three generated automata, for texts of any length, any pieces and any
\* classes: the marks and lengths behind PTR_TO and LEN, and the fields that
\* Uri::Create cuts out, lie inside the text or the piece that was read.
THEOREM ParsersStayInside == Spec => []TypeOK
<1>1. UInv /\ QInv /\ RInv => TypeOK
    BY UriTyped, ReqTyped, RspTyped DEF UInv, QInv, RInv, TypeOK
<1> QED
    BY <1>1, UriInvariant, RequestInvariant, ResponseInvariant, PTL

=============================================================================
