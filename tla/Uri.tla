-------------------------------- MODULE Uri --------------------------------
(***************************************************************************)
(* sylar::Uri::Create (sylar/uri.rl and the automaton Ragel generated from *)
(* it, sylar/uri.rl.cc): a one-pass scanner that runs the grammar's        *)
(* actions (marku, save_host, ...) while it reads, and keeps the fields it *)
(* has cut out so far together with `mark`, the start of the piece being   *)
(* read.                                                                   *)
(*                                                                         *)
(* The text is a sequence of character CLASSES, one per set of bytes the   *)
(* automaton treats alike, and is not kept: a field is the range           *)
(* <<first, end>> of text it was cut from.  The byte 2 is in no class:     *)
(* uri.rl writes `2 [0-4] digit` without quotes, so only that byte reaches *)
(* the copies of the IPv4 states that are not also reg_name states.        *)
(***************************************************************************)
EXTENDS Integers

CONSTANTS
    Texts   \* records [length, chars]: bounds on the text's length and classes

\* "3" is 3-4, "6" is 6-9, "a" the other letters of a hexadecimal number, "g"
\* the other letters but v, "+" is + and -, "!" the rest of unreserved and
\* sub_delims, "u" the bytes from 128 on, "x" the bytes the grammar never uses.
digit == {"0", "1", "2", "3", "5", "6"}
xdigit == digit \cup {"a"}
alpha == {"a", "v", "g"}
regular == alpha \cup digit \cup {"+", ".", "!"}   \* unreserved | sub_delims
pchar == regular \cup {"u", ":", "@"}              \* without pct_encoded
Class == pchar \cup {"/", "?", "#", "[", "]", "%", "x"}

NULL == -1
Empty == <<>>

VARIABLES
    text,    \* the bounds chosen for this call
    cs,      \* the region of the automaton; "threw" once an action has thrown
    abs,     \* the authority being read follows a scheme (hier_part)
    pct,     \* hexadecimal digits still due after a %
    lit,     \* progress inside an IP_literal
    p,       \* the position of the next character
    m,       \* mark and the fields of the Uri built so far
    split,   \* history: where RFC 3986's own split puts the delimiters
    userdigit,  \* history: a digit follows the userinfo's first ":"
    result   \* what Create returned

vars == <<text, cs, abs, pct, lit, p, m, split, userdigit, result>>

-----------------------------------------------------------------------------
(* The actions of the grammar.                                             *)

Uri0 == [mark |-> NULL, scheme |-> Empty, userinfo |-> Empty, host |-> Empty,
         port |-> Empty, path |-> Empty, query |-> Empty, fragment |-> Empty,
         threw |-> FALSE]

\* Slip: the mark is set after the character is consumed.
marku_Next(u) == [u EXCEPT !.mark = p + 1]

marku(u) == [u EXCEPT !.mark = p]
markh(u) == [u EXCEPT !.mark = p]

save_scheme(u) == [u EXCEPT !.scheme = <<u.mark, p>>, !.mark = NULL]

\* setPort(atoi(mark)): the digits the number is read from, when there are any.
save_port(u) ==
    [u EXCEPT !.port = IF u.mark # p THEN <<u.mark, p>> ELSE @, !.mark = NULL]

save_userinfo(u) ==
    [u EXCEPT !.userinfo = IF u.mark # NULL THEN <<u.mark, p>> ELSE @,
              !.mark = NULL]

\* Slip: save_host clears the mark as every other action does.
save_host_Clears(u) ==
    [u EXCEPT !.host = IF u.mark # NULL THEN <<u.mark, p>> ELSE @,
              !.mark = NULL]

\* save_host does not clear the mark.
save_host(u) ==
    [u EXCEPT !.host = IF u.mark # NULL THEN <<u.mark, p>> ELSE @]

\* std::string(mark, fpc - mark) with a null mark throws std::logic_error.
save_path(u) ==
    IF u.mark = NULL THEN [u EXCEPT !.threw = TRUE]
    ELSE [u EXCEPT !.path = <<u.mark, p>>, !.mark = NULL]

save_query(u) == [u EXCEPT !.query = <<u.mark, p>>, !.mark = NULL]

save_fragment(u) == [u EXCEPT !.fragment = <<u.mark, p>>, !.mark = NULL]

-----------------------------------------------------------------------------
(* History: the split of RFC 3986, appendix B, which looks only at the     *)
(* delimiters: the first ":" before any "/?#" ends the scheme, "//" starts *)
(* the authority, "/?#" end it, "?" and "#" start query and fragment.      *)

Split0 == [colon |-> NULL, slash |-> NULL, auth |-> NULL, path |-> NULL,
           query |-> NULL, hash |-> NULL, at |-> NULL, port |-> NULL,
           usercolon |-> NULL, bracket |-> FALSE]

HierStart(s) == s.colon + 1    \* 0 without a scheme: NULL is -1

InAuthority(s, c) ==
    CASE c = "/" -> [s EXCEPT !.path = p]
      [] c = "@" -> [s EXCEPT !.at = p, !.port = NULL]
      [] c = ":" /\ ~s.bracket ->
            [s EXCEPT !.port = p,
                      !.usercolon = IF @ = NULL THEN p ELSE @]
      [] c \in {"[", "]"} -> [s EXCEPT !.bracket = c = "["]
      [] OTHER -> s

BeforeAuthority(s, c) ==
    CASE c = "/" -> IF p = HierStart(s) THEN [s EXCEPT !.slash = p]
                    ELSE IF s.slash # NULL /\ p = s.slash + 1 THEN [s EXCEPT !.auth = p + 1]
                    ELSE [s EXCEPT !.path = HierStart(s)]
      [] c = ":" /\ p > 0 /\ s.colon = NULL /\ s.slash = NULL ->
            [s EXCEPT !.colon = p]
      [] OTHER -> s

SplitStep(s, c) ==
    IF s.hash # NULL THEN s
    ELSE IF c = "#" THEN [s EXCEPT !.hash = p]
    ELSE IF s.query # NULL THEN s
    ELSE IF c = "?" THEN [s EXCEPT !.query = p]
    ELSE IF s.path # NULL THEN s
    ELSE IF s.auth # NULL THEN InAuthority(s, c)
    ELSE BeforeAuthority(s, c)

\* c is a digit right behind the first ":" of an authority that had no "@" yet.
PortLike(c) ==
    c \in digit /\ split.at = NULL /\ split.usercolon # NULL /\ p = split.usercolon + 1

FirstOf(a, b) == IF a = NULL THEN b ELSE a

-----------------------------------------------------------------------------
TypeOK ==
    /\ text \in Texts
    /\ abs \in BOOLEAN
    /\ pct \in 0..2
    /\ p \in 0..text.length
    /\ m.mark \in {NULL} \cup 0..p
    /\ m.threw \in BOOLEAN
    /\ \A f \in {m.scheme, m.userinfo, m.host, m.port, m.path, m.query, m.fragment} :
          f # Empty => (0 <= f[1] /\ f[1] <= f[2] /\ f[2] <= p)
    /\ lit.groups \in 0..8 /\ lit.gap \in -1..7 /\ lit.digits \in 0..4
    /\ lit.dots \in 0..3
    /\ result \in {"none", "uri", "nullptr", "throws"}

Lit0 == [at |-> "open", groups |-> 0, gap |-> NULL, digits |-> 0,
         octet |-> "no", dots |-> 0]

Init ==
    /\ text \in Texts
    /\ cs = "start" /\ abs = FALSE /\ pct = 0 /\ lit = Lit0 /\ p = 0
    /\ m = Uri0 /\ split = Split0 /\ userdigit = FALSE /\ result = "none"

\* One character of class c is read, the grammar's actions turn m into u, and
\* the automaton continues in region `to`.
Reads(c, to, u) ==
    /\ result = "none" /\ ~m.threw
    /\ p < text.length /\ c \in text.chars
    /\ cs' = IF u.threw THEN "threw" ELSE to
    /\ m' = u
    /\ pct' = IF c = "%" THEN 2 ELSE 0
    /\ p' = p + 1
    /\ split' = SplitStep(split, c)
    /\ userdigit' = (userdigit \/ PortLike(c))
    /\ UNCHANGED <<text, result>>

Outside(c, to, u) == Reads(c, to, u) /\ UNCHANGED <<abs, lit>>

In(region) == cs = region /\ pct = 0

\* The hexadecimal digits of a pct_encoded; "%" itself already moved to the
\* region that the digits lead back to.
PctDigit ==
    /\ pct > 0
    /\ \E c \in xdigit :
          /\ result = "none"
          /\ p < text.length /\ c \in text.chars
          /\ pct' = pct - 1 /\ p' = p + 1
          /\ split' = SplitStep(split, c)
          /\ userdigit' = (userdigit \/ PortLike(c))
    /\ UNCHANGED <<text, cs, abs, lit, m, result>>

\* "?" and "#" after a part that ends with the actions u.
QueryOrFragment(u) == Outside("?", "query0", u) \/ Outside("#", "frag0", u)

-----------------------------------------------------------------------------
(* Outside an authority.                                                   *)

Start ==
    /\ In("start")
    /\ \/ \E c \in alpha : Outside(c, "scheme", marku(m))
       \/ \E c \in (pchar \ (alpha \cup {":"})) \cup {"%"} : Outside(c, "noscheme", m)
       \/ Outside("/", "slash", m)
       \/ QueryOrFragment(m)

Noscheme ==
    /\ In("noscheme")
    /\ \/ \E c \in (pchar \ {":"}) \cup {"%"} : Outside(c, "noscheme", m)
       \/ Outside("/", "segments", m)
       \/ QueryOrFragment(m)

Scheme ==
    /\ In("scheme")
    /\ \/ \E c \in alpha \cup digit \cup {"+", "."} : Outside(c, "scheme", m)
       \/ \E c \in {"!", "@", "u", "%"} : Outside(c, "noscheme", m)
       \/ Outside(":", "hier", save_scheme(m))
       \/ Outside("/", "segments", m)
       \/ QueryOrFragment(m)

\* The start of hier_part, with the scheme's ":" just read.
Hier ==
    /\ In("hier")
    /\ \/ \E c \in pchar \cup {"%"} : Outside(c, "segments", m)
       \/ Outside("/", "hierslash", m)
       \/ QueryOrFragment(m)

HierSlash ==
    /\ In("hierslash")
    /\ \/ \E c \in pchar \cup {"%"} : Outside(c, "segments", m)
       \/ Reads("/", "authority", m) /\ abs' = TRUE /\ UNCHANGED lit
       \/ QueryOrFragment(m)

Slash ==
    /\ In("slash")
    /\ \/ \E c \in pchar \cup {"%"} : Outside(c, "segments", m)
       \/ Reads("/", "authority", m) /\ abs' = FALSE /\ UNCHANGED lit
       \/ QueryOrFragment(m)

\* The path of every form but scheme://authority: nothing marks or saves it.
Segments ==
    /\ In("segments")
    /\ \/ \E c \in pchar \cup {"/", "%"} : Outside(c, "segments", m)
       \/ QueryOrFragment(m)

\* path_abempty after a scheme and an authority.
AbsPath ==
    /\ In("path")
    /\ \/ \E c \in pchar \cup {"/", "%"} : Outside(c, "path", m)
       \/ QueryOrFragment(save_path(m))

Query ==
    \/ /\ In("query0")
       /\ \/ \E c \in pchar \cup {"/", "?", "%"} : Outside(c, "query", marku(m))
          \/ Outside("#", "frag0", save_query(marku(m)))
    \/ /\ In("query")
       /\ \/ \E c \in pchar \cup {"/", "?", "%"} : Outside(c, "query", m)
          \/ Outside("#", "frag0", save_query(m))

Fragment ==
    /\ In("frag0") \/ In("frag")
    /\ \E c \in pchar \cup {"/", "?", "%"} :
          Outside(c, "frag", IF cs = "frag0" THEN marku(m) ELSE m)

-----------------------------------------------------------------------------
(* The authority.  The automaton holds it twice: after "//" alone (Rel...) *)
(* and after scheme:// (Abs...), where its end also marks the path.        *)

\* "/", "?" or "#" ends the authority; u is what its last part saved.
Leave(u) ==
    \/ Outside("/", IF abs THEN "path" ELSE "segments", u)
    \/ QueryOrFragment(IF abs THEN save_path(u) ELSE u)

\* Slip: the end of the host does not mark the path.
HostEnds_NoMark(u) == save_host(u)

\* The actions run when the host, or the port, is what ends the authority.
HostEnds(u) == IF abs THEN markh(save_host(u)) ELSE save_host(u)
PortEnds(u) == IF abs THEN markh(save_port(u)) ELSE save_port(u)

\* An empty port: path and port mark the same character, and save_port, which
\* runs last, clears the mark.
NoPort(u) == save_port(markh(u))

Authority ==
    /\ In("authority")
    /\ \/ \E c \in regular \cup {"%"} : Outside(c, "userhost", markh(m))
       \/ Outside(":", "colon", save_host(markh(m)))
       \/ Outside("@", "host", save_userinfo(markh(m)))
       \/ Reads("[", "literal", markh(m)) /\ lit' = Lit0 /\ UNCHANGED abs
       \/ Leave(HostEnds(markh(m)))

\* A userinfo or a host: only "@" tells.
UserHost ==
    /\ In("userhost")
    /\ \/ \E c \in regular \cup {"%"} : Outside(c, "userhost", m)
       \/ Outside(":", "colon", save_host(m))
       \/ Outside("@", "host", save_userinfo(m))
       \/ Leave(HostEnds(m))

\* After the first ":" of a userinfo or of host ":" port.
UserColon ==
    /\ In("colon")
    /\ \/ \E c \in (regular \ digit) \cup {":", "%"} : Outside(c, "userinfo", m)
       \/ \E c \in digit : Outside(c, "userport", markh(m))
       \/ Outside("@", "host", save_userinfo(m))
       \/ Leave(NoPort(m))

UserPort ==
    /\ In("userport")
    /\ \/ \E c \in digit : Outside(c, "userport", m)
       \/ \E c \in (regular \ digit) \cup {":", "%"} : Outside(c, "userinfo", m)
       \/ Outside("@", "host", save_userinfo(m))
       \/ Leave(PortEnds(m))

Userinfo ==
    /\ In("userinfo")
    /\ \/ \E c \in regular \cup {":", "%"} : Outside(c, "userinfo", m)
       \/ Outside("@", "host", save_userinfo(m))

\* The host after "@"; IPv4address is read by the reg_name states.
Host ==
    /\ In("host")
    /\ \/ \E c \in regular \cup {"%"} : Outside(c, "regname", markh(m))
       \/ Outside(":", "port0", save_host(markh(m)))
       \/ Reads("[", "literal", markh(m)) /\ lit' = Lit0 /\ UNCHANGED abs
       \/ Leave(HostEnds(markh(m)))

RegName ==
    /\ In("regname")
    /\ \/ \E c \in regular \cup {"%"} : Outside(c, "regname", m)
       \/ Outside(":", "port0", save_host(m))
       \/ Leave(HostEnds(m))

\* The "]" of an IP_literal has been read.
Closed ==
    /\ In("closed")
    /\ \/ Outside(":", "port0", save_host(m))
       \/ Leave(HostEnds(m))

Port ==
    \/ /\ In("port0")
       /\ \/ \E c \in digit : Outside(c, "port", markh(m))
          \/ Leave(NoPort(m))
    \/ /\ In("port")
       /\ \/ \E c \in digit : Outside(c, "port", m)
          \/ Leave(PortEnds(m))

RelAuthority == ~abs /\ Authority
RelUserHost == ~abs /\ UserHost
RelUserColon == ~abs /\ (UserColon \/ Userinfo)
RelUserPort == ~abs /\ UserPort
RelHost == ~abs /\ Host
RelRegName == ~abs /\ RegName
RelPort == ~abs /\ (Closed \/ Port)

AbsAuthority == abs /\ Authority
AbsUserHost == abs /\ UserHost
AbsUserColon == abs /\ (UserColon \/ Userinfo)
AbsUserPort == abs /\ UserPort
AbsHost == abs /\ Host
AbsRegName == abs /\ RegName
AbsClosed == abs /\ Closed
AbsPort == abs /\ Port

-----------------------------------------------------------------------------
(* IP_literal.  groups counts the h16 (an IPv4address counts for two) that *)
(* are complete, gap how many of them came before "::".                    *)

InLiteral(at) == In("literal") /\ lit.at = at

Within(c, l) == Reads(c, "literal", m) /\ lit' = l /\ UNCHANGED abs
Closes == Reads("]", "closed", m) /\ lit' = Lit0 /\ UNCHANGED abs

\* Eight groups, or seven around a "::" that is not the first thing written:
\* the alternatives of IPv6address repeat exactly {n} times what RFC 3986
\* repeats at most n times.
Complete(groups) ==
    IF lit.gap = NULL THEN groups = 8
    ELSE groups = 7 \/ (lit.gap = 0 /\ groups < 7)

\* ls32 may be an IPv4address here.
Ipv4Fits == Complete(lit.groups + 2)

\* dec_octet, as the prefix read so far: "d" takes one more digit, "z" none.
dec_octet(o, c) ==
    CASE o = "none" /\ c = "0" -> "z"
      [] o = "none" /\ c \in {"1", "2"} -> c
      [] o = "none" /\ c \in {"3", "5", "6"} -> "d"
      [] o = "1" /\ c \in digit -> "d"
      [] o = "2" /\ c = "5" -> "25"
      [] o = "2" /\ c \in digit \ {"5"} -> "z"
      [] o = "d" /\ c \in digit -> "z"
      [] o = "25" /\ c \in {"0", "1", "2", "3", "5"} -> "z"
      [] OTHER -> "no"

BeginGroup(c) ==
    Within(c, [lit EXCEPT !.at = "group", !.digits = 1,
                          !.octet = IF Ipv4Fits THEN dec_octet("none", c) ELSE "no"])

LiteralOpen ==
    \/ /\ InLiteral("open")
       /\ \/ \E c \in xdigit : BeginGroup(c)
          \/ Within(":", [lit EXCEPT !.at = "colon1"])
          \/ Within("v", [lit EXCEPT !.at = "v"])
    \/ /\ InLiteral("colon1")
       /\ Within(":", [lit EXCEPT !.at = "gap", !.gap = 0])

\* Inside an h16.
Group ==
    /\ InLiteral("group")
    /\ \/ /\ lit.digits < 4
          /\ \E c \in xdigit :
                Within(c, [lit EXCEPT !.digits = @ + 1,
                                      !.octet = IF @ = "no" THEN @ ELSE dec_octet(@, c)])
       \/ /\ lit.groups + 1 < (IF lit.gap = NULL THEN 8 ELSE 7)
          /\ Within(":", [lit EXCEPT !.at = "colon", !.groups = @ + 1,
                                     !.digits = 0, !.octet = "no"])
       \/ /\ lit.octet # "no"
          /\ Within(".", [lit EXCEPT !.at = "v4", !.digits = 0,
                                     !.octet = "none", !.dots = 1])

\* After the ":" that ends an h16: the next one, or the second ":" of "::".
AfterColon ==
    /\ InLiteral("colon")
    /\ \/ \E c \in xdigit : BeginGroup(c)
       \/ /\ lit.gap = NULL
          /\ Within(":", [lit EXCEPT !.at = "gap", !.gap = lit.groups])

AfterGap ==
    /\ InLiteral("gap")
    /\ lit.groups < 7
    /\ \E c \in xdigit : BeginGroup(c)

\* The rest of an IPv4address that started as an h16.
IPv4Tail ==
    /\ InLiteral("v4")
    /\ \/ \E c \in digit :
             /\ dec_octet(lit.octet, c) # "no"
             /\ Within(c, [lit EXCEPT !.octet = dec_octet(@, c)])
       \/ /\ lit.dots < 3 /\ lit.octet # "none"
          /\ Within(".", [lit EXCEPT !.octet = "none", !.dots = @ + 1])

IPvFuture ==
    \/ InLiteral("v") /\ \E c \in xdigit : Within(c, [lit EXCEPT !.at = "vhex"])
    \/ /\ InLiteral("vhex")
       /\ \/ \E c \in xdigit : Within(c, lit)
          \/ Within(".", [lit EXCEPT !.at = "vdot"])
    \/ /\ InLiteral("vdot") \/ InLiteral("vtail")
       /\ \E c \in regular \cup {":"} : Within(c, [lit EXCEPT !.at = "vtail"])

LiteralEnd ==
    /\ \/ InLiteral("group") /\ Complete(lit.groups + 1)
       \/ InLiteral("gap") /\ Complete(lit.groups)
       \/ InLiteral("v4") /\ lit.dots = 3 /\ lit.octet # "none"
       \/ InLiteral("vtail")
    /\ Closes

Groups == Group \/ AfterColon \/ AfterGap

RelLiteralOpen == ~abs /\ LiteralOpen
RelGroups == ~abs /\ lit.gap = NULL /\ Groups
RelGroupsBehindGap == ~abs /\ lit.gap > 0 /\ Groups
RelGroupsBehindFirstGap == ~abs /\ lit.gap = 0 /\ Groups
RelIPv4Tail == ~abs /\ IPv4Tail
RelIPvFuture == ~abs /\ IPvFuture

AbsLiteralOpen == abs /\ LiteralOpen
AbsGroups == abs /\ lit.gap = NULL /\ Groups
AbsGroupsBehindGap == abs /\ lit.gap > 0 /\ Groups
AbsGroupsBehindFirstGap == abs /\ lit.gap = 0 /\ Groups
AbsIPv4Tail == abs /\ IPv4Tail
AbsIPvFuture == abs /\ IPvFuture

Literal ==
    \/ RelLiteralOpen \/ RelGroups \/ RelGroupsBehindGap \/ RelGroupsBehindFirstGap
    \/ RelIPv4Tail \/ RelIPvFuture
    \/ AbsLiteralOpen \/ AbsGroups \/ AbsGroupsBehindGap \/ AbsGroupsBehindFirstGap
    \/ AbsIPv4Tail \/ AbsIPvFuture
    \/ LiteralEnd

-----------------------------------------------------------------------------
(* The end of the text: the eof actions of the region reached, then        *)
(* Create's test of cs.                                                    *)

Final ==
    /\ pct = 0
    /\ cs \notin {"userinfo", "literal"}

EofActions ==
    LET pathEnds(u) == IF abs THEN save_path(u) ELSE u IN
    CASE cs = "query" -> save_query(m)
      [] cs = "query0" -> save_query(marku(m))
      [] cs = "frag" -> save_fragment(m)
      [] cs = "frag0" -> save_fragment(marku(m))
      [] cs = "path" -> save_path(m)
      [] cs \in {"authority", "host"} -> pathEnds(HostEnds(markh(m)))
      [] cs \in {"userhost", "regname", "closed"} -> pathEnds(HostEnds(m))
      [] cs \in {"colon", "port0"} -> pathEnds(NoPort(m))
      [] cs \in {"port", "userport"} -> pathEnds(PortEnds(m))
      [] OTHER -> m

Create ==
    /\ result = "none" /\ ~m.threw
    /\ m' = IF Final THEN EofActions ELSE m
    /\ cs' = cs
    /\ result' = IF m'.threw THEN "throws" ELSE IF Final THEN "uri" ELSE "nullptr"
    /\ UNCHANGED <<text, abs, pct, lit, p, split, userdigit>>

\* An action threw in the middle of the text: Create never returns.
Throws ==
    /\ result = "none" /\ m.threw
    /\ result' = "throws"
    /\ UNCHANGED <<text, cs, abs, pct, lit, p, m, split, userdigit>>

\* A character no transition of the region takes: the automaton stops in its
\* error state.
Rejects ==
    /\ result = "none" /\ ~m.threw /\ p < text.length
    /\ "x" \in text.chars
    /\ result' = "nullptr"
    /\ UNCHANGED <<text, cs, abs, pct, lit, p, m, split, userdigit>>

Done == result # "none" /\ UNCHANGED vars

Next ==
    \/ Start \/ Noscheme \/ Scheme \/ Hier \/ HierSlash \/ Slash
    \/ Segments \/ AbsPath \/ Query \/ Fragment \/ PctDigit
    \/ RelAuthority \/ RelUserHost \/ RelUserColon \/ RelUserPort
    \/ RelHost \/ RelRegName \/ RelPort
    \/ AbsAuthority \/ AbsUserHost \/ AbsUserColon \/ AbsUserPort
    \/ AbsHost \/ AbsRegName \/ AbsClosed \/ AbsPort
    \/ Literal
    \/ Create \/ Throws \/ Rejects \/ Done

Spec == Init /\ [][Next]_vars

-----------------------------------------------------------------------------
(* Correctness.  End(s) is where the part before query and fragment ends.  *)

End(s) == FirstOf(s.query, FirstOf(s.hash, p))

AuthEnd(s) == FirstOf(s.path, End(s))

\* When Create (uri.rl, main := URI_reference) returns a Uri, its scheme, query
\* and fragment are the text between the delimiters where RFC 3986 puts them,
\* and so is the path of a text that has both a scheme and an authority (no
\* other form has its path saved): the one `mark` that all parts share is never
\* a leftover of another part.
PartsAgree ==
    result = "uri" =>
       /\ m.scheme = IF split.colon # NULL THEN <<0, split.colon>> ELSE Empty
       /\ m.path = IF split.colon # NULL /\ split.auth # NULL
                   THEN <<AuthEnd(split), End(split)>> ELSE Empty
       /\ m.query = IF split.query # NULL
                    THEN <<split.query + 1, FirstOf(split.hash, p)>> ELSE Empty
       /\ m.fragment = IF split.hash # NULL THEN <<split.hash + 1, p>> ELSE Empty

\* When Create returns a Uri with an authority, the host is the text between
\* "@" (or "//") and the ":" of the port, the port is read from the digits
\* after that ":", and the userinfo is what lies before "@", although the automaton cannot
\* know which of them it is reading before "@" or the end of the authority and
\* so saves user names as hosts and passwords as ports on the way.  The userinfo
\* starts where the authority does, unless a digit follows its first ":": port's
\* mark then replaces the authority's (uri.rl, markh), and the user name is lost.
AuthorityAgrees ==
    result = "uri" =>
       IF split.auth = NULL
       THEN m.host = Empty /\ m.port = Empty /\ m.userinfo = Empty
       ELSE LET first == IF split.at # NULL THEN split.at + 1 ELSE split.auth
                end == FirstOf(split.port, AuthEnd(split))
            IN  /\ m.host = <<first, end>>
                /\ m.port = IF end + 1 < AuthEnd(split)
                            THEN <<end + 1, AuthEnd(split)>> ELSE Empty
                /\ m.userinfo =
                      IF split.at = NULL THEN Empty
                      ELSE <<IF userdigit THEN split.usercolon + 1 ELSE split.auth, split.at>>

=============================================================================
