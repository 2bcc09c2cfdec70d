----------------------------- MODULE MCParsers -----------------------------
(***************************************************************************)
(* The three generated parsers, one of which reads one text: Uri::Create,  *)
(* the request parser behind HttpSession::recvRequest and the response     *)
(* parser behind HttpConnection::recvResponse.  The bounds of a text are   *)
(* chosen in the initial state; classes are left out of the longer ones.   *)
(***************************************************************************)
EXTENDS Integers

CONSTANTS Texts, Requests, Responses, WordLength, MaxReads

VARIABLES
    parser,                            \* which of the parsers runs
    cs, p, result,                     \* of all three
    pct, lit, split,                   \* of Uri and HttpRequestParser
    bound, count, base, pieces, s,     \* of the two HTTP parsers
    text, abs, m, userdigit,           \* of Uri
    relaxed, json,                     \* of HttpRequestParser
    kw, cand, head, line, wants,       \* of HttpResponseParser
    content_length, lengths

uriVars == <<text, abs, m, userdigit>>
requestVars == <<relaxed, json>>
responseVars == <<kw, cand, head, line, wants, content_length, lengths>>
targetVars == <<pct, lit, split>>
pieceVars == <<bound, count, base, pieces, s>>

U == INSTANCE Uri
Q == INSTANCE HttpRequestParser
R == INSTANCE HttpResponseParser

\* The same without bounds, for the classes that the bounds are made of.
UClasses == INSTANCE Uri WITH Texts <- {}
QClasses == INSTANCE HttpRequestParser WITH Requests <- {}, MaxReads <- 1
RClasses == INSTANCE HttpResponseParser WITH Responses <- {}, WordLength <- <<>>, MaxReads <- 1

Init ==
    \/ /\ parser = "uri" /\ U!Init
       /\ bound = "unused" /\ count = "unused" /\ base = "unused" /\ pieces = "unused"
       /\ s = "unused" /\ relaxed = "unused" /\ json = "unused" /\ kw = "unused"
       /\ cand = "unused" /\ head = "unused" /\ line = "unused" /\ wants = "unused"
       /\ content_length = "unused" /\ lengths = "unused"
    \/ /\ parser = "request" /\ Q!Init
       /\ text = "unused" /\ abs = "unused" /\ m = "unused" /\ userdigit = "unused" /\ kw = "unused"
       /\ cand = "unused" /\ head = "unused" /\ line = "unused" /\ wants = "unused"
       /\ content_length = "unused" /\ lengths = "unused"
    \/ /\ parser = "response" /\ R!Init
       /\ text = "unused" /\ abs = "unused" /\ m = "unused" /\ userdigit = "unused" /\ relaxed = "unused"
       /\ json = "unused" /\ pct = "unused" /\ lit = "unused" /\ split = "unused"

Next ==
    \/ parser = "uri" /\ U!Next /\ UNCHANGED <<parser, pieceVars, requestVars, responseVars>>
    \/ parser = "request" /\ Q!Next /\ UNCHANGED <<parser, uriVars, responseVars>>
    \/ parser = "response" /\ R!Next /\ UNCHANGED <<parser, uriVars, requestVars, targetVars>>

vars == <<parser, cs, p, result, targetVars, pieceVars, uriVars, requestVars, responseVars>>

Spec == Init /\ [][Next]_vars

-----------------------------------------------------------------------------
(* What the parsers' modules state.                                        *)

\* Marks, offsets, lengths and the fields cut out by the generated automata lie
\* inside the text, or the piece, that was read.
TypeOK ==
    /\ parser = "uri" => U!TypeOK
    /\ parser = "request" => Q!TypeOK
    /\ parser = "response" => R!TypeOK

\* Uri::Create: scheme, path, query and fragment (Uri!PartsAgree).
UriPartsAgree == parser = "uri" => U!PartsAgree

\* Uri::Create: userinfo, host and port (Uri!AuthorityAgrees).
UriAuthorityAgrees == parser = "uri" => U!AuthorityAgrees

\* http_parser_execute: the request line over several reads
\* (HttpRequestParser!RequestLineAgrees).
RequestLineAgrees == parser = "request" => Q!RequestLineAgrees

\* http_parser_execute: a header over several reads
\* (HttpRequestParser!HeaderAgrees).
RequestHeaderAgrees == parser = "request" => Q!HeaderAgrees

\* httpclient_parser_execute: the status line over several reads
\* (HttpResponseParser!StatusLineAgrees).
StatusLineAgrees == parser = "response" => R!StatusLineAgrees

\* httpclient_parser_execute: a header over several reads
\* (HttpResponseParser!HeaderAgrees).
ResponseHeaderAgrees == parser = "response" => R!HeaderAgrees

\* httpclient_parser_execute: chunked, the content-length header and content_len
\* (HttpResponseParser!FramingAgrees).
FramingAgrees == parser = "response" => R!FramingAgrees

-----------------------------------------------------------------------------
(* Texts for Uri: every class in short texts, the delimiters in longer     *)
(* ones, and IP literals long enough for eight groups or an IPv4 tail.     *)

AllTexts ==
    {[length |-> 7, chars |-> UClasses!Class],
     [length |-> 12, chars |-> {"g", "1", ":", "/", "@", "?", "%", "#", "x"}],
     [length |-> 24, chars |-> {"g", "/", "[", "]", ":", "1", "2", "5", ".", "v"}]}

(* Requests: every class in short ones; targets with all their delimiters; *)
(* literals; whole heads with a header; requests of the socket protocols.  *)

AllRequests ==
    {[line |-> 5, length |-> 5, chars |-> QClasses!Class],
     [line |-> 7, length |-> 7,
      chars |-> {"G", " ", "/", "g", ":", "@", "1", "?", "#", "%", "{"}],
     [line |-> 15, length |-> 15, chars |-> {"G", " ", "/", "[", "]", ":", "1", ".", "v"}],
     [line |-> 4, length |-> 20, chars |-> {"G", " ", "H", "T", "P", "/", "1", "0", ".",
                                            "LF", "CR", ":", "ctl", "?"}],
     [line |-> 8, length |-> 19,
      chars |-> {"G", " ", "H", "T", "P", "/", "1", ".", "LF", "?", "#"}],
     [line |-> 8, length |-> 8, chars |-> {"<", "g", ">", "NUL", "/", "@", "{", "}", " "}],
     [line |-> 14, length |-> 14, chars |-> {"@", "/", "[", "]", ":", "1", ".", "v"}]}

(* Responses, with the grammar's words shortened to the letters that tell  *)
(* them apart: chunk headers, status lines, one header of each kind, and   *)
(* two Content-Length lines.                                               *)

Lengths == [w \in RClasses!Word \ {"number"} |->
               IF w \in RClasses!Names THEN 4 ELSE 2]

StatusLine == {"H", "T", "P", "/", ".", "number", "sp", "tok", "LF"}
WithHeader(n, more) ==
    [head |-> 13, length |-> 13 + n, chars |-> StatusLine \cup {":"} \cup more]
AllResponses ==
    {[head |-> 6, length |-> 6, chars |-> RClasses!Class],
     [head |-> 17, length |-> 17, chars |-> StatusLine \cup {"CR", "sep"}],
     WithHeader(6, {"CR", "sep"}),
     WithHeader(10, {"Connection", "close", "CR"}),
     WithHeader(10, {"Content-Length", "CR"}),
     [head |-> 13, length |-> 27, chars |-> (StatusLine \ {"tok"}) \cup {":", "Content-Length"}],
     WithHeader(10, {"Transfer-Encoding", "chunked", "CR"})}

\* The bounds are made of the parsers' own classes, and every word is longer
\* than what it has in common with another.
ASSUME BoundsAssumption ==
    /\ \A t \in Texts : t.length \in Nat /\ t.chars \subseteq UClasses!Class
    /\ \A r \in Requests : r.length \in Nat /\ r.line <= r.length /\ r.chars \subseteq QClasses!Class
    /\ \A r \in Responses : r.length \in Nat /\ r.head <= r.length /\ r.chars \subseteq RClasses!Class
    /\ WordLength \in [RClasses!Word \ {"number"} -> Nat]
    /\ \A v, w \in RClasses!Word \ {"number"} : v # w => RClasses!Common(v, w) < WordLength[v]
    /\ MaxReads \in Nat \ {0}

=============================================================================
