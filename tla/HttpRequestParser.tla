------------------------- MODULE HttpRequestParser -------------------------
(***************************************************************************)
(* The HTTP/1.1 request parser (sylar/http/parser11/http11_parser.rl and   *)
(* the automaton generated from it), its callbacks in                      *)
(* sylar/http/http_parser.cc and the read loop of HttpSession::recvRequest *)
(* that feeds it.                                                          *)
(*                                                                         *)
(* recvRequest gives every piece of the request that a read returned to    *)
(* http_parser_execute, which consumes it to the end and remembers only    *)
(* the automaton's state: the next piece is put at the start of the same   *)
(* buffer, and mark, field_start and field_len restart at 0 (query_start   *)
(* does not).  So offsets are relative to `base`, the position in the      *)
(* request of the first byte in the buffer, and a report is the range of   *)
(* the request that a callback was given.                                  *)
(*                                                                         *)
(* The request is a sequence of character classes, as in module Uri.  The  *)
(* bytes 2 to 6 are in no class: http11_parser.rl writes 6( h16 ":" ) for  *)
(* six repetitions, which Ragel reads as the byte 6 before one group.      *)
(***************************************************************************)
EXTENDS Integers, FiniteSets, FiniteSetsExt

CONSTANTS
    Requests,   \* records [line, length, chars]: bounds on the length up to the
                \* version and in all, and on the character classes
    MaxReads    \* bound on the number of pieces that a request arrives in

upperhex == {"A"}
lowerhex == {"a"}
\* "H", "T" and "P" spell the version, "v" starts an IPvFuture, "G" and "g" are
\* the other letters.
upper == upperhex \cup {"H", "T", "P", "G"}
alpha == upper \cup lowerhex \cup {"v", "g"}
\* "3" stands for 3, 4 and 6 to 9.
digit == {"0", "1", "2", "3", "5"}
xdigit == digit \cup upperhex \cup lowerhex
\* "!" is the rest of unreserved and sub_delims that may be in a token, "(" the
\* rest that may not.
regular == alpha \cup digit \cup {"+", "-", ".", "!", "("}
\* more_delims: "^", and "{" and "}" which no token may hold.
braces == {"^", "{", "}"}
\* "bar" is the two characters that only a token may hold, "quote" those that
\* only a value may, "ctl" a control character, "vt" one of those that is space,
\* "u" a byte from 128 on, "del" the byte 127.
token == alpha \cup digit \cup {"+", "-", ".", "!", "#", "%", "^", "bar"}
Class ==
    regular \cup braces \cup token \cup
    {"/", ":", "@", "?", "[", "]", "<", ">", "quote", " ", "tab", "CR", "LF",
     "ctl", "vt", "u", "NUL", "del"}

NULL == -1
Empty == <<>>

VARIABLES
    bound,     \* the bounds chosen for this request
    relaxed,   \* parser->uri_relaxed, which nothing initialises
    cs,        \* the region of the automaton
    json,      \* the URI being read belongs to a SocketJSON request
    pct,       \* hexadecimal digits still due after a %
    count,     \* characters of the method, or of "HTTP/1.", read so far
    lit,       \* progress inside an IP_literal
    p,         \* bytes of the request consumed
    base,      \* where in the request the buffer starts
    pieces,    \* history: where in the request the pieces read so far start
    s,         \* the parser's offsets and what its callbacks were given
    split,     \* history: where RFC 7230 puts the parts of the request
    result     \* what recvRequest returned

vars == <<bound, relaxed, cs, json, pct, count, lit, p, base, pieces, s, split, result>>

-----------------------------------------------------------------------------
(* The actions of the grammar, each with the callback it calls.            *)

Parser0 == [mark |-> 0, field_start |-> 0, field_len |-> 0, query_start |-> 0,
            method |-> Empty, path |-> Empty, query |-> Empty,
            fragment |-> Empty, version |-> "none", field |-> Empty,
            value |-> Empty, dropped |-> FALSE, error |-> FALSE, threw |-> FALSE]

Offset == p - base                     \* fpc - buffer
From(at) == <<base + at, p>>           \* PTR_TO(at), LEN(at, fpc)

mark(r) == [r EXCEPT !.mark = Offset]
start_field(r) == [r EXCEPT !.field_start = Offset]
start_value(r) == [r EXCEPT !.mark = Offset]
start_query(r) == [r EXCEPT !.query_start = Offset]

\* Slip: the length counts from the start of the buffer.
write_field_Whole(r) == [r EXCEPT !.field_len = Offset]

write_field(r) == [r EXCEPT !.field_len = Offset - r.field_start]

\* on_request_http_field ignores a field whose name has length 0.
write_value(r) ==
    IF r.field_len = 0 THEN [r EXCEPT !.dropped = TRUE]
    ELSE [r EXCEPT !.dropped = FALSE,
                   !.field = <<base + r.field_start,
                               base + r.field_start + r.field_len>>,
                   !.value = From(r.mark)]

\* on_request_method: CharsToHttpMethod compares prefixes of the text at mark, so
\* whether the method is known depends on the text alone.
request_method(r, known) ==
    [r EXCEPT !.method = From(r.mark), !.error = r.error \/ ~known]

request_path(r) == [r EXCEPT !.path = From(r.mark)]

fragment(r) == [r EXCEPT !.fragment = From(r.mark)]

\* Slip: the query is cut at the mark that every other part uses.
query_string_AtMark(r) == [r EXCEPT !.query = From(r.mark)]

\* query_start may be left over from an earlier piece: a length below zero makes
\* std::string throw.
query_string(r) ==
    IF Offset < r.query_start THEN [r EXCEPT !.threw = TRUE]
    ELSE [r EXCEPT !.query = From(r.query_start)]

\* on_request_version: strncmp over the length reported, and so HTTP/1.1 when
\* that is 0; a version whose beginning was in an earlier piece is an error.
http_version(r, minor) ==
    CASE Offset = r.mark -> [r EXCEPT !.version = "1"]
      [] Offset - r.mark = 8 -> [r EXCEPT !.version = minor]
      [] OTHER -> [r EXCEPT !.error = TRUE]

-----------------------------------------------------------------------------
(* History: the request as RFC 7230 reads it.  A header line that holds no *)
(* colon runs on into the next one, since HTTP_CTL, written (0 - 31), only *)
(* keeps the byte 0 out of a token.                                        *)

Split0 == [sp1 |-> NULL, colon |-> NULL, query |-> NULL, hash |-> NULL,
           pathseen |-> FALSE, sp2 |-> NULL, minor |-> "none", line |-> NULL,
           hcolon |-> NULL, value |-> NULL, eol |-> NULL]

InTarget(g, c) ==
    IF c = " " THEN [g EXCEPT !.sp2 = p]
    ELSE IF g.hash # NULL THEN g
    ELSE IF c = "#" THEN [g EXCEPT !.hash = p]
    ELSE IF g.query # NULL THEN g
    ELSE CASE c = "?" -> [g EXCEPT !.query = p]
           [] c = "/" -> [g EXCEPT !.pathseen = TRUE]
           [] c = ":" /\ ~g.pathseen /\ g.colon = NULL -> [g EXCEPT !.colon = p]
           [] OTHER -> g

InHeader(g, c) ==
    IF g.hcolon = NULL
    THEN IF c = ":" THEN [g EXCEPT !.hcolon = p, !.eol = NULL] ELSE g
    ELSE IF c \in {"CR", "LF"} /\ g.eol = NULL
    THEN [g EXCEPT !.eol = p, !.value = IF @ = NULL THEN p ELSE @]
    ELSE IF g.value = NULL /\ c \notin {" ", "tab"} THEN [g EXCEPT !.value = p]
    ELSE g

\* The first character after a line feed that ended a header with a colon (or
\* the request line) starts a new header.
NewLine(g) == [g EXCEPT !.line = p, !.hcolon = NULL, !.value = NULL, !.eol = NULL]

SplitStep(g, c) ==
    IF g.sp1 = NULL THEN IF c = " " THEN [g EXCEPT !.sp1 = p] ELSE g
    ELSE IF g.sp2 = NULL THEN InTarget(g, c)
    ELSE IF cs = "line" /\ (g.line = NULL \/ g.hcolon # NULL) THEN InHeader(NewLine(g), c)
    ELSE IF g.line = NULL THEN [g EXCEPT !.minor = IF c \in digit THEN c ELSE @]
    ELSE InHeader(g, c)

FirstOf(a, b) == IF a = NULL THEN b ELSE a

-----------------------------------------------------------------------------
TypeOK ==
    /\ bound \in Requests
    /\ relaxed \in BOOLEAN /\ json \in BOOLEAN
    /\ pct \in 0..2 /\ count \in 0..20
    /\ p \in 0..bound.length /\ base \in 0..p
    /\ pieces \subseteq 0..p /\ base = Max(pieces) /\ Cardinality(pieces) <= MaxReads
    /\ s.mark \in 0..Offset /\ s.field_start \in 0..Offset
    /\ s.field_len \in 0..Offset
    /\ lit.groups \in 0..7 /\ lit.after \in 0..3 /\ lit.digits \in 0..4
    /\ result \in {"none", "request", "closed", "throws"}

Lit0 == [at |-> "open", gap |-> FALSE, groups |-> 0, after |-> 0, digits |-> 0,
         octet |-> "no", dots |-> 0]

Init ==
    /\ bound \in Requests /\ relaxed \in BOOLEAN
    /\ cs = "start" /\ json = FALSE /\ pct = 0 /\ count = 0 /\ lit = Lit0
    /\ p = 0 /\ base = 0 /\ pieces = {0}
    /\ s = Parser0 /\ split = Split0 /\ result = "none"

Running == result = "none" /\ ~s.threw /\ cs # "done"

\* One character of class c is consumed in region cs, which the automaton leaves
\* for region `to` after the grammar's actions turned s into r.
Consumes(c, to, r) ==
    /\ Running
    /\ p < bound.length /\ c \in bound.chars
    /\ split.sp2 = NULL => p < bound.line
    /\ cs' = to /\ s' = r /\ p' = p + 1
    /\ split' = SplitStep(split, c)
    /\ UNCHANGED <<bound, relaxed, base, pieces, result>>

Reads(c, to, r) ==
    Consumes(c, to, r) /\ pct' = (IF c = "%" THEN 2 ELSE 0)
                       /\ UNCHANGED <<json, count, lit>>

\* As Reads, in the part of the request that has no %-escapes.
Plain(c, to, r) == Consumes(c, to, r) /\ UNCHANGED <<pct, json, count, lit>>

In(region) == cs = region /\ pct = 0

\* sub_delims holds more_delims only when uri_relaxed; pchar always does, since
\* (any -- ascii) takes the codes Ragel gives them when it is not.
regchar == regular \cup (IF relaxed THEN braces ELSE {})
pchar == regular \cup braces \cup {":", "@"}

PctDigit ==
    /\ pct > 0
    /\ \E c \in xdigit : Consumes(c, cs, s)
    /\ pct' = pct - 1
    /\ UNCHANGED <<json, count, lit>>

-----------------------------------------------------------------------------
(* The request line up to the target.                                      *)

Start ==
    /\ In("start")
    /\ \/ /\ \E c \in upper \cup digit : Consumes(c, "method", mark(s))
          /\ count' = 1 /\ UNCHANGED <<pct, json, lit>>
       \/ Reads("<", "xmlname0", mark(s))
       \/ /\ Consumes("@", "json", mark(s))
          /\ json' = TRUE /\ UNCHANGED <<pct, count, lit>>

Method ==
    /\ In("method")
    /\ \/ /\ count < 20
          /\ \E c \in upper \cup digit : Consumes(c, "method", s)
          /\ count' = count + 1
       \/ /\ \E known \in BOOLEAN : Consumes(" ", "target", request_method(s, known))
          /\ count' = 0
    /\ UNCHANGED <<pct, json, lit>>

-----------------------------------------------------------------------------
(* The URI.  A SocketJSON request holds a relative_part only, which a      *)
(* blank ends; the automaton has a copy of the states for it.              *)

\* The path ends: in the request line before " ", "?" or "#", in a SocketJSON
\* request before " ".
PathEnds(r) ==
    \/ ~json /\ Reads(" ", "version", request_path(r))
    \/ ~json /\ Reads("#", "frag0", request_path(r))
    \/ ~json /\ Reads("?", "query0", request_path(r))
    \/ json /\ Reads(" ", "json0", request_path(r))

Target ==
    /\ In("target")
    /\ \/ \E c \in alpha : Reads(c, "scheme", mark(s))
       \/ \E c \in (regchar \ alpha) \cup {"@", "%"} : Reads(c, "noscheme", mark(s))
       \/ Reads("/", "slash", mark(s))
       \/ PathEnds(mark(s))

JsonTarget ==
    /\ In("json")
    /\ \/ \E c \in regchar \cup {"@", "%"} : Reads(c, "noscheme", s)
       \/ Reads("/", "slash", s)
       \/ PathEnds(s)

Noscheme ==
    /\ In("noscheme")
    /\ \/ \E c \in regchar \cup {"@", "%"} : Reads(c, "noscheme", s)
       \/ Reads("/", "path", s)
       \/ PathEnds(s)

Scheme ==
    /\ In("scheme")
    /\ \/ \E c \in alpha \cup digit \cup {"+", "-", "."} : Reads(c, "scheme", s)
       \/ \E c \in (regchar \ (alpha \cup digit \cup {"+", "-", "."})) \cup {"@", "%"} :
             Reads(c, "noscheme", s)
       \/ Reads(":", "hier", s)
       \/ Reads("/", "path", s)
       \/ PathEnds(s)

\* The path of an absolute URI is marked after "scheme:" and so holds the
\* authority too.
Hier ==
    /\ In("hier")
    /\ \/ \E c \in pchar \cup {"%"} : Reads(c, "path", mark(s))
       \/ Reads("/", "slash", mark(s))
       \/ PathEnds(mark(s))

Path ==
    /\ In("path")
    /\ \/ \E c \in pchar \cup {"/", "%"} : Reads(c, "path", s)
       \/ PathEnds(s)

Slash ==
    /\ In("slash")
    /\ \/ \E c \in pchar \cup {"%"} : Reads(c, "path", s)
       \/ Reads("/", "authority", s)
       \/ PathEnds(s)

Authority ==
    /\ In("authority")
    /\ \/ \E c \in regchar \cup {"%"} : Reads(c, "userhost", s)
       \/ Reads(":", "userport", s)
       \/ Reads("@", "host", s)
       \/ Consumes("[", "literal", s) /\ lit' = Lit0 /\ UNCHANGED <<pct, json, count>>
       \/ Reads("/", "path", s)
       \/ PathEnds(s)

UserHost ==
    /\ In("userhost")
    /\ \/ \E c \in regchar \cup {"%"} : Reads(c, "userhost", s)
       \/ Reads(":", "userport", s)
       \/ Reads("@", "host", s)
       \/ Reads("/", "path", s)
       \/ PathEnds(s)

\* After the first ":" of a userinfo or of host ":" port, and its digits.
UserPort ==
    /\ In("userport")
    /\ \/ \E c \in (regchar \ digit) \cup {":", "%"} : Reads(c, "userinfo", s)
       \/ \E c \in digit : Reads(c, "userport", s)
       \/ Reads("@", "host", s)
       \/ Reads("/", "path", s)
       \/ PathEnds(s)

Userinfo ==
    /\ In("userinfo")
    /\ \/ \E c \in regchar \cup {":", "%"} : Reads(c, "userinfo", s)
       \/ Reads("@", "host", s)

Host ==
    /\ In("host")
    /\ \/ \E c \in regchar \cup {"%"} : Reads(c, "regname", s)
       \/ Reads(":", "port", s)
       \/ Consumes("[", "literal", s) /\ lit' = Lit0 /\ UNCHANGED <<pct, json, count>>
       \/ Reads("/", "path", s)
       \/ PathEnds(s)

RegName ==
    /\ In("regname")
    /\ \/ \E c \in regchar \cup {"%"} : Reads(c, "regname", s)
       \/ Reads(":", "port", s)
       \/ Reads("/", "path", s)
       \/ PathEnds(s)

Closed ==
    /\ In("closed")
    /\ Reads(":", "port", s) \/ Reads("/", "path", s) \/ PathEnds(s)

Port ==
    /\ In("port")
    /\ (\E c \in digit : Reads(c, "port", s)) \/ Reads("/", "path", s) \/ PathEnds(s)

Query ==
    /\ In("query0") \/ In("query")
    /\ LET r == IF cs = "query0" THEN start_query(s) ELSE s IN
       \/ \E c \in pchar \cup {"/", "?", "%"} : Reads(c, "query", r)
       \/ Reads(" ", "version", query_string(r))
       \/ Reads("#", "frag0", query_string(r))

Fragment ==
    /\ In("frag0") \/ In("frag")
    /\ LET r == IF cs = "frag0" THEN mark(s) ELSE s IN
       \/ \E c \in pchar \cup {"/", "?", "%"} : Reads(c, "frag", r)
       \/ Reads(" ", "version", fragment(r))

-----------------------------------------------------------------------------
(* IP_literal.  groups counts the h16 before "::" (seven stands for seven  *)
(* and more, {6,} having no upper bound), after those behind it.           *)

InLiteral(at) == In("literal") /\ lit.at = at

Within(c, l) == Consumes(c, "literal", s) /\ lit' = l /\ UNCHANGED <<pct, json, count>>

\* How many groups may follow a "::" that comes after k of them.
After(k) ==
    IF k = 0 \/ k = 7 THEN 0..3 ELSE IF k >= 4 THEN (7 - k)..3 ELSE {}

\* dec_octet, as the prefix read so far: ("1"-"9") is the set difference of two
\* characters, 1, and ("0"-"4") and ("0"-"5") are 0.
dec_octet(o, c) ==
    CASE o = "none" /\ c \in {"1", "2"} -> c
      [] o = "none" /\ c \in {"0", "3", "5"} -> "z"
      [] o = "1" /\ c \in digit -> "1d"
      [] o = "1d" /\ c \in digit -> "z"
      [] o = "2" /\ c = "0" -> "20"
      [] o = "20" /\ c \in digit -> "z"
      [] o = "2" /\ c = "5" -> "25"
      [] o = "25" /\ c = "0" -> "z"
      [] OTHER -> "no"

OctetDone(o) == o \in {"1", "2", "1d", "z"}

BeginGroup(c) ==
    Within(c, [lit EXCEPT !.at = "group", !.digits = 1,
                          !.octet = IF lit.gap /\ lit.after + 2 \in After(lit.groups)
                                    THEN dec_octet("none", c) ELSE "no"])

LiteralOpen ==
    \/ /\ InLiteral("open")
       /\ \/ \E c \in xdigit : BeginGroup(c)
          \/ Within(":", [lit EXCEPT !.at = "colon1"])
          \/ Within("v", [lit EXCEPT !.at = "v"])
    \/ /\ InLiteral("colon1")
       /\ Within(":", [lit EXCEPT !.at = "gap", !.gap = TRUE])

Group ==
    /\ InLiteral("group")
    /\ \/ /\ lit.digits < 4
          /\ \E c \in xdigit :
                Within(c, [lit EXCEPT !.digits = @ + 1,
                                      !.octet = IF @ = "no" THEN @ ELSE dec_octet(@, c)])
       \/ /\ ~lit.gap
          /\ Within(":", [lit EXCEPT !.at = "colon", !.digits = 0,
                                     !.groups = IF @ = 7 THEN @ ELSE @ + 1])
       \/ /\ lit.gap /\ lit.after + 1 < 3
          /\ Within(":", [lit EXCEPT !.at = "colon", !.digits = 0, !.octet = "no",
                                     !.after = @ + 1])
       \/ /\ OctetDone(lit.octet)
          /\ Within(".", [lit EXCEPT !.at = "v4", !.digits = 0,
                                     !.octet = "none", !.dots = 1])

AfterColon ==
    /\ InLiteral("colon")
    /\ \/ \E c \in xdigit : BeginGroup(c)
       \/ ~lit.gap /\ Within(":", [lit EXCEPT !.at = "gap", !.gap = TRUE])

AfterGap ==
    /\ InLiteral("gap")
    /\ After(lit.groups) # {}
    /\ \E c \in xdigit : BeginGroup(c)

IPv4Tail ==
    /\ InLiteral("v4")
    /\ \/ \E c \in digit :
             /\ dec_octet(lit.octet, c) # "no"
             /\ Within(c, [lit EXCEPT !.octet = dec_octet(@, c)])
       \/ /\ lit.dots < 3 /\ OctetDone(lit.octet)
          /\ Within(".", [lit EXCEPT !.octet = "none", !.dots = @ + 1])

IPvFuture ==
    \/ InLiteral("v") /\ \E c \in xdigit : Within(c, [lit EXCEPT !.at = "vhex"])
    \/ /\ InLiteral("vhex")
       /\ \/ \E c \in xdigit : Within(c, lit)
          \/ Within(".", [lit EXCEPT !.at = "vdot"])
    \/ /\ InLiteral("vdot") \/ InLiteral("vtail")
       /\ \E c \in regchar \cup {":"} : Within(c, [lit EXCEPT !.at = "vtail"])

LiteralEnd ==
    /\ \/ InLiteral("group") /\ lit.gap /\ lit.after + 1 \in After(lit.groups)
       \/ InLiteral("gap") /\ 0 \in After(lit.groups)
       \/ InLiteral("v4") /\ lit.dots = 3 /\ OctetDone(lit.octet)
       \/ InLiteral("vtail")
    /\ Consumes("]", "closed", s) /\ lit' = Lit0 /\ UNCHANGED <<pct, json, count>>

Groups == Group \/ AfterColon \/ AfterGap
AfterAuthority == Closed \/ Port

\* The copy of the states for the target of a request line ...
LineNoscheme == ~json /\ Noscheme
LinePath == ~json /\ Path
LineSlash == ~json /\ Slash
LineAuthority == ~json /\ Authority
LineUserHost == ~json /\ UserHost
LineUserPort == ~json /\ UserPort
LineUserinfo == ~json /\ Userinfo
LineHost == ~json /\ Host
LineRegName == ~json /\ RegName
LineAfterAuthority == ~json /\ AfterAuthority
LineLiteralOpen == ~json /\ LiteralOpen
LineGroups == ~json /\ ~lit.gap /\ Groups
LineGroupsBehindGap == ~json /\ lit.gap /\ Groups
LineIPv4Tail == ~json /\ IPv4Tail
LineIPvFuture == ~json /\ IPvFuture

\* ... and the one for the target of a SocketJSON request.
JsonNoscheme == json /\ Noscheme
JsonPath == json /\ Path
JsonSlash == json /\ Slash
JsonAuthority == json /\ Authority
JsonUserHost == json /\ UserHost
JsonUserPort == json /\ UserPort
JsonUserinfo == json /\ Userinfo
JsonHost == json /\ Host
JsonRegName == json /\ RegName
JsonAfterAuthority == json /\ AfterAuthority
JsonLiteralOpen == json /\ LiteralOpen
JsonGroups == json /\ ~lit.gap /\ Groups
JsonGroupsBehindGap == json /\ lit.gap /\ Groups
JsonIPv4Tail == json /\ IPv4Tail
JsonIPvFuture == json /\ IPvFuture

URI ==
    \/ PctDigit \/ Target \/ JsonTarget \/ Scheme \/ Hier \/ Query \/ Fragment
    \/ LiteralEnd
    \/ LineNoscheme \/ LinePath \/ LineSlash \/ LineAuthority \/ LineUserHost
    \/ LineUserPort \/ LineUserinfo \/ LineHost \/ LineRegName
    \/ LineAfterAuthority \/ LineLiteralOpen \/ LineGroups
    \/ LineGroupsBehindGap \/ LineIPv4Tail \/ LineIPvFuture
    \/ JsonNoscheme \/ JsonPath \/ JsonSlash \/ JsonAuthority \/ JsonUserHost
    \/ JsonUserPort \/ JsonUserinfo \/ JsonHost \/ JsonRegName
    \/ JsonAfterAuthority \/ JsonLiteralOpen \/ JsonGroups
    \/ JsonGroupsBehindGap \/ JsonIPv4Tail \/ JsonIPvFuture

-----------------------------------------------------------------------------
(* The version and the headers.                                            *)

VersionText == <<"H", "T", "T", "P", "/", "1", ".">>

Version ==
    /\ In("version")
    /\ \/ /\ count < 7
          /\ Consumes(VersionText[count + 1], "version", IF count = 0 THEN mark(s) ELSE s)
          /\ count' = count + 1
       \/ /\ count = 7
          /\ \E c \in {"0", "1"} : Consumes(c, "eol", s)
          /\ count' = 0
    /\ UNCHANGED <<pct, json, lit>>

EndOfLine ==
    /\ In("eol")
    /\ \/ Plain("LF", "line", http_version(s, split.minor))
       \/ Plain("CR", "cr", http_version(s, split.minor))

CarriageReturn == In("cr") /\ Plain("LF", "line", s)

\* A header's name, or the blank line that ends the head; `done` breaks out of
\* the automaton.
HeaderLine ==
    \/ /\ In("line")
       /\ \/ \E c \in token \cup {"ctl", "vt"} : Plain(c, "name", start_field(s))
          \/ Plain("LF", "done", start_field(s))
          \/ Plain("CR", "endcr", start_field(s))
    \/ /\ In("endcr")
       /\ \/ \E c \in token \cup {"ctl", "vt", "CR"} : Plain(c, "name", s)
          \/ Plain("LF", "done", s)
          \/ Plain(":", "colon", write_field(s))

FieldName ==
    /\ In("name")
    /\ \/ \E c \in token \cup {"ctl", "vt", "CR", "LF"} : Plain(c, "name", s)
       \/ Plain(":", "colon", write_field(s))

FieldValue ==
    /\ In("colon") \/ In("value")
    /\ LET r == IF cs = "colon" THEN start_value(s) ELSE s IN
       \/ \E c \in Class \ {" ", "tab", "CR", "LF", "NUL", "del"} : Plain(c, "value", r)
       \/ \E c \in {" ", "tab"} : Plain(c, cs, r)
       \/ Plain("LF", "line", write_value(r))
       \/ Plain("CR", "cr", write_value(r))

-----------------------------------------------------------------------------
(* SocketXML and SocketJSON.                                               *)

SocketXML ==
    \/ /\ In("xmlname0") \/ In("xmlname")
       /\ \E c \in alpha \cup digit \cup {"-", "."} : Plain(c, "xmlname", s)
    \/ /\ In("xmlname")
       /\ \E c \in {"/", ">", " ", "tab", "vt", "CR", "LF"} :
             Plain(c, "xml", request_path(s))
    \/ /\ In("xml") \/ In("xmlgt")
       /\ \/ \E c \in Class \ {">", "NUL"} : Plain(c, "xml", s)
          \/ Plain(">", "xmlgt", s)
    \/ In("xml") /\ Plain("NUL", "xml", s)
    \/ In("xmlgt") /\ Plain("NUL", "done", s)

SocketJSON ==
    \/ In("json0") /\ Plain("{", "jsondata", mark(s))
    \/ /\ In("jsondata") \/ In("jsonend")
       /\ \/ \E c \in Class \ {"}", "NUL"} : Plain(c, "jsondata", s)
          \/ Plain("}", "jsonend", s)
    \/ In("jsondata") /\ Plain("NUL", "jsondata", s)
    \/ In("jsonend") /\ Plain("NUL", "done", s)

-----------------------------------------------------------------------------
(* The read loop of recvRequest.                                           *)

\* Slip: http_parser_execute does not restart its offsets.
NextRead_KeepsOffsets ==
    /\ Running /\ ~s.error
    /\ p > base /\ Cardinality(pieces) < MaxReads
    /\ base' = p /\ pieces' = pieces \cup {p}
    /\ UNCHANGED <<bound, relaxed, cs, json, pct, count, lit, p, s, split, result>>

\* http_parser_execute on the next piece, the last one having been consumed to
\* its end without an error; the automaton's state and query_start are kept.
NextRead ==
    /\ Running /\ ~s.error
    /\ p > base /\ Cardinality(pieces) < MaxReads
    /\ base' = p /\ pieces' = pieces \cup {p}
    /\ s' = [s EXCEPT !.mark = 0, !.field_start = 0, !.field_len = 0]
    /\ UNCHANGED <<bound, relaxed, cs, json, pct, count, lit, p, split, result>>

\* read returns 0 or less, an earlier callback reported an error, or the
\* automaton stops in its error state: the session is closed.
Closes ==
    /\ Running
    /\ result' = "closed"
    /\ UNCHANGED <<bound, relaxed, cs, json, pct, count, lit, p, base, pieces, s, split>>

Throws ==
    /\ result = "none" /\ s.threw
    /\ result' = "throws"
    /\ UNCHANGED <<bound, relaxed, cs, json, pct, count, lit, p, base, pieces, s, split>>

\* hasError is asked before isFinished.
Finishes ==
    /\ result = "none" /\ cs = "done" /\ ~s.threw
    /\ result' = IF s.error THEN "closed" ELSE "request"
    /\ UNCHANGED <<bound, relaxed, cs, json, pct, count, lit, p, base, pieces, s, split>>

Done == result # "none" /\ UNCHANGED vars

Next ==
    \/ Start \/ Method \/ URI
    \/ Version \/ EndOfLine \/ CarriageReturn
    \/ HeaderLine \/ FieldName \/ FieldValue
    \/ SocketXML \/ SocketJSON
    \/ NextRead \/ Closes \/ Throws \/ Finishes \/ Done

Spec == Init /\ [][Next]_vars

-----------------------------------------------------------------------------
(* Correctness.                                                            *)

\* Where the piece that holds position q starts.
Piece(q) == Max({b \in pieces : b <= q})

\* The part of a range that is in the piece in which the range ends, or in which
\* the character that ends it is read.
Kept(r) == <<Max({r[1], Piece(r[2])}), r[2]>>

TrueMethod == <<0, split.sp1>>
TruePath == <<FirstOf(split.colon, split.sp1) + 1,
              FirstOf(split.query, FirstOf(split.hash, split.sp2))>>
TrueQuery == <<split.query + 1, FirstOf(split.hash, split.sp2)>>
TrueFragment == <<split.hash + 1, split.sp2>>

\* When recvRequest returns a request, what on_request_method, on_request_path
\* and on_request_fragment were given is the part of the method, path (from the
\* scheme's colon on) and fragment of the request line that came in the same
\* piece as its end, so all of it unless a read ended inside it.  The query is
\* taken at the offset its start had in the piece where it started.  The
\* version is the one written, or HTTP/1.1 if a read ended right behind it.
RequestLineAgrees ==
    result = "request" /\ s.method # Empty =>
       /\ s.method = Kept(TrueMethod)
       /\ s.path = Kept(TruePath)
       /\ s.fragment = IF split.hash = NULL THEN Empty ELSE Kept(TrueFragment)
       /\ s.query = IF split.query = NULL THEN Empty
                    ELSE <<Piece(TrueQuery[2]) + (TrueQuery[1] - Piece(TrueQuery[1])),
                           TrueQuery[2]>>
       /\ s.version \in {split.minor, "1"}
       /\ pieces = {0} => s.version = split.minor

\* Once a header line has been read, on_request_http_field has stored its name
\* and value exactly when a read ended neither between the colon and the end of
\* the line nor right before the colon; it lost the header otherwise, and only
\* the beginning of a name can have been cut off.
HeaderAgrees ==
    (cs \in {"line", "cr"} /\ split.hcolon # NULL /\ split.eol # NULL) =>
       LET stored == Piece(split.eol) < split.hcolon IN
       /\ s.dropped = ~stored
       /\ stored => /\ s.field = Kept(<<split.line, split.hcolon>>)
                    /\ s.value = <<split.value, split.eol>>

=============================================================================
