----------------------------- MODULE ParserProofs -----------------------------
(* Uri::Create, for texts of any length over any classes: the fields of the    *)
(* Uri it returns are the parts that RFC 3986 names.  And http_parser_execute  *)
(* behind recvRequest, for requests of any length that arrive in any pieces:   *)
(* what the callbacks were given is the part of the request line and of each   *)
(* header that came in one piece with its end.                                 *)
EXTENDS MCParsers, FiniteSets, FiniteSetTheorems, WellFoundedInduction, TLAPS

-----------------------------------------------------------------------------
(* Uri: the inductive invariant, what mark and the fields are in every region. *)

NULL == -1
Pos == Nat \cup {NULL}
Cut == {<<>>} \cup (Nat \X Nat)

Fields == [mark : Pos, scheme : Cut, userinfo : Cut, host : Cut, port : Cut, path : Cut, query : Cut,
           fragment : Cut, threw : BOOLEAN]
Delimiters == [colon : Pos, slash : Pos, auth : Pos, path : Pos, query : Pos, hash : Pos, at : Pos,
               port : Pos, usercolon : Pos, bracket : BOOLEAN]

Inside(f) == f # <<>> => f[1] <= f[2] /\ f[2] <= p
FieldsInside(u) ==
    /\ u.mark <= p
    /\ Inside(u.scheme) /\ Inside(u.userinfo) /\ Inside(u.host) /\ Inside(u.port)
    /\ Inside(u.path) /\ Inside(u.query) /\ Inside(u.fragment)

UriTypes ==
    /\ text \in Texts /\ abs \in BOOLEAN /\ pct \in 0..2 /\ p \in 0..text.length
    /\ m \in Fields /\ FieldsInside(m)
    /\ split \in Delimiters /\ userdigit \in BOOLEAN
    /\ result \in {"none", "uri", "nullptr", "throws"}

LiteralTypes ==
    /\ lit.groups \in 0..7 /\ lit.gap \in -1..7 /\ lit.digits \in 0..4 /\ lit.dots \in 0..3
    /\ DOMAIN lit = {"at", "groups", "gap", "digits", "octet", "dots"}

\* No query and no fragment yet.
NoTail == split.query = NULL /\ split.hash = NULL /\ m.query = <<>> /\ m.fragment = <<>>

\* The scheme is what comes before the colon.
SchemeCut(u) == u.scheme = IF split.colon # NULL THEN <<0, split.colon>> ELSE <<>>

NoAuthority(u) == u.host = <<>> /\ u.port = <<>> /\ u.userinfo = <<>>

\* Nothing but a scheme.
Before ==
    /\ NoTail /\ SchemeCut(m) /\ NoAuthority(m) /\ m.path = <<>>
    /\ split.auth = NULL /\ split.path = NULL /\ split.at = NULL /\ split.port = NULL
    /\ split.usercolon = NULL /\ ~split.bracket /\ ~userdigit

AtStart == Before /\ p = 0 /\ split.colon = NULL /\ split.slash = NULL
AtNoscheme == Before /\ p > 0 /\ split.colon = NULL /\ split.slash = NULL
AtScheme == AtNoscheme /\ m.mark = 0
AtHier == Before /\ split.colon >= 0 /\ p = split.colon + 1 /\ split.slash = NULL
AtSlash == Before /\ p = split.colon + 2 /\ split.slash = split.colon + 1

\* The authority, its path not yet begun.
InAuthority ==
    /\ NoTail /\ SchemeCut(m) /\ m.path = <<>>
    /\ split.auth >= 0 /\ split.auth <= p /\ split.path = NULL
    /\ abs <=> split.colon # NULL

\* Where the host begins.
First == IF split.at # NULL THEN split.at + 1 ELSE split.auth

\* No "@" yet: a user name or a host.
User == InAuthority /\ split.at = NULL /\ m.port = <<>> /\ m.userinfo = <<>> /\ ~split.bracket

NoColon == split.port = NULL /\ split.usercolon = NULL /\ ~userdigit
AtAuthority == User /\ p = split.auth /\ NoColon /\ m.host = <<>>
AtUserHost == User /\ m.mark = split.auth /\ NoColon /\ m.host = <<>>
AtColon ==
    /\ User /\ ~userdigit /\ m.mark = split.auth /\ split.port >= 0 /\ split.usercolon = split.port
    /\ p = split.port + 1 /\ m.host = <<split.auth, split.port>>
AtUserPort ==
    /\ User /\ userdigit /\ m.mark = split.port + 1 /\ split.port >= 0 /\ split.usercolon = split.port
    /\ p > split.port + 1 /\ m.host = <<split.auth, split.port>>
AtUserinfo ==
    /\ User /\ split.usercolon >= 0 /\ p > split.usercolon + 1
    /\ m.mark = IF userdigit THEN split.usercolon + 1 ELSE split.auth

UserinfoCut(u) ==
    IF split.at = NULL THEN u.userinfo = <<>>
    ELSE /\ userdigit => split.usercolon >= 0
         /\ u.userinfo = <<IF userdigit THEN split.usercolon + 1 ELSE split.auth, split.at>>

\* Before a ":" and behind "@" the history of the userinfo stays as it is.
UserKept == split.at # NULL \/ split.usercolon = NULL => userdigit' = userdigit

\* Behind "@", or in a literal: a host.
Server == InAuthority /\ UserinfoCut(m) /\ m.port = <<>>
AtHost == Server /\ ~split.bracket /\ split.at >= 0 /\ p = split.at + 1 /\ split.port = NULL
AtRegName == Server /\ ~split.bracket /\ m.mark = First /\ split.port = NULL
AtLiteral == Server /\ split.bracket /\ m.mark = First /\ split.port = NULL
AtPort0 == Server /\ ~split.bracket /\ split.port >= 0 /\ p = split.port + 1 /\ m.host = <<First, split.port>>
AtPort ==
    /\ Server /\ ~split.bracket /\ split.port >= 0 /\ p > split.port + 1
    /\ m.host = <<First, split.port>> /\ m.mark = split.port + 1

\* The authority has ended at `end`.
AuthorityCut(u, end) ==
    IF split.auth = NULL THEN NoAuthority(u)
    ELSE LET e == IF split.port # NULL THEN split.port ELSE end
         IN  /\ u.host = <<First, e>>
             /\ u.port = IF e + 1 < end THEN <<e + 1, end>> ELSE <<>>
             /\ UserinfoCut(u)

\* Nothing saves the path here.
AtSegments ==
    /\ NoTail /\ SchemeCut(m) /\ m.path = <<>>
    /\ split.colon = NULL \/ split.auth = NULL
    /\ AuthorityCut(m, split.path)
    /\ split.auth # NULL => split.path >= 0
    /\ split.path = NULL => /\ split.colon # NULL \/ split.slash # NULL
                            /\ p > split.colon + 1 /\ (split.slash # NULL => p > split.slash + 1)
AtPath ==
    /\ NoTail /\ SchemeCut(m) /\ m.path = <<>>
    /\ split.colon # NULL /\ split.auth # NULL /\ split.path >= 0
    /\ AuthorityCut(m, split.path)
    /\ m.mark = NULL \/ m.mark = split.path

\* The path, if it is saved, is what lies between authority and `end`.
PathCut(u, end) ==
    LET e == IF split.path # NULL THEN split.path ELSE end
    IN  /\ AuthorityCut(u, e) /\ SchemeCut(u)
        /\ u.path = IF split.colon # NULL /\ split.auth # NULL THEN <<e, end>> ELSE <<>>

AtQuery0 == split.query = p - 1 /\ p > 0 /\ split.hash = NULL /\ PathCut(m, split.query)
            /\ m.query = <<>> /\ m.fragment = <<>>
AtQuery == split.query >= 0 /\ split.hash = NULL /\ m.mark = split.query + 1 /\ PathCut(m, split.query)
           /\ m.query = <<>> /\ m.fragment = <<>>

QueryCut ==
    /\ split.hash >= 0 /\ m.fragment = <<>>
    /\ PathCut(m, IF split.query # NULL THEN split.query ELSE split.hash)
    /\ m.query = IF split.query # NULL THEN <<split.query + 1, split.hash>> ELSE <<>>
AtFrag0 == QueryCut /\ split.hash = p - 1
AtFrag == QueryCut /\ m.mark = split.hash + 1

\* The region the automaton is in.
At(region) ==
    /\ region = "start" => AtStart
    /\ region = "noscheme" => AtNoscheme
    /\ region = "scheme" => AtScheme
    /\ region = "hier" => AtHier
    /\ region = "hierslash" => AtSlash /\ split.colon >= 0
    /\ region = "slash" => AtSlash /\ split.colon = NULL
    /\ region = "authority" => AtAuthority
    /\ region = "userhost" => AtUserHost
    /\ region = "colon" => AtColon
    /\ region = "userport" => AtUserPort
    /\ region = "userinfo" => AtUserinfo
    /\ region = "host" => AtHost
    /\ region \in {"regname", "closed"} => AtRegName
    /\ region = "literal" => AtLiteral
    /\ region = "port0" => AtPort0
    /\ region = "port" => AtPort
    /\ region = "segments" => AtSegments
    /\ region = "path" => AtPath
    /\ region = "query0" => AtQuery0
    /\ region = "query" => AtQuery
    /\ region = "frag0" => AtFrag0
    /\ region = "frag" => AtFrag

\* Where a %-escape may be.
Escapes == {"noscheme", "segments", "path", "query", "frag", "userhost", "userinfo", "regname"}
Escaped == pct > 0 => cs \in Escapes

UriRegion == {"start", "noscheme", "scheme", "hier", "hierslash", "slash", "authority", "userhost",
              "colon", "userport", "userinfo", "host", "regname", "closed", "literal", "port0", "port",
              "segments", "path", "query0", "query", "frag0", "frag"}

UriInv ==
    /\ UriTypes /\ LiteralTypes
    /\ result = "none" /\ ~m.threw => cs \in UriRegion /\ At(cs) /\ Escaped
    /\ U!PartsAgree /\ U!AuthorityAgrees

UInv == parser = "uri" => UriInv

-----------------------------------------------------------------------------
(* Steps of the automaton *)

\* The split knows the delimiters only.
LEMMA SplitTypes ==
    ASSUME split \in Delimiters, p \in Nat, NEW c
    PROVE  U!SplitStep(split, c) \in Delimiters
<1>1. U!InAuthority(split, c) \in Delimiters
    BY DEF U!InAuthority, Delimiters, Pos, NULL, U!NULL
<1>2. U!BeforeAuthority(split, c) \in Delimiters
    BY DEF U!BeforeAuthority, U!HierStart, Delimiters, Pos, NULL, U!NULL
<1> QED
    BY <1>1, <1>2 DEF U!SplitStep, Delimiters, Pos, NULL, U!NULL

\* Other characters leave it as it is.
LEMMA SplitSame ==
    ASSUME NEW c, c \notin {"#", "?", "/", "@", ":", "[", "]"}
    PROVE  U!SplitStep(split, c) = split
BY DEF U!SplitStep, U!InAuthority, U!BeforeAuthority

\* A step into a region in which the invariant holds keeps it.
LEMMA Step ==
    ASSUME UriInv, NEW c, NEW to \in UriRegion, NEW u \in Fields, U!Reads(c, to, u),
           abs' \in BOOLEAN, LiteralTypes', FieldsInside(u),
           c = "%" => to \in Escapes,
           ~u.threw => At(to)'
    PROVE  UriInv'
<1>1. p \in Nat /\ p' = p + 1 /\ p' \in 0..text'.length /\ text' = text
    BY BoundsAssumption DEF U!Reads, UriInv, UriTypes
<1>2. FieldsInside(m)'
    BY <1>1 DEF U!Reads, FieldsInside, Inside, Fields, Cut, Pos, NULL
<1>3. UriTypes'
    BY <1>1, <1>2, SplitTypes DEF U!Reads, UriInv, UriTypes
<1>4. result' = "none" /\ m' = u /\ ~m'.threw => cs' \in UriRegion /\ At(cs)' /\ Escaped'
    BY DEF U!Reads, Escaped
<1>5. result' = "none" /\ m' = u
    BY DEF U!Reads
<1> QED
    BY <1>3, <1>4, <1>5 DEF UriInv, U!PartsAgree, U!AuthorityAgrees


\* Where "#" and "?" go, and that nothing counts behind them.
LEMMA SplitTail ==
    ASSUME NEW c
    PROVE  /\ split.hash = NULL => U!SplitStep(split, "#") = [split EXCEPT !.hash = p]
           /\ split.hash = NULL /\ split.query = NULL => U!SplitStep(split, "?") = [split EXCEPT !.query = p]
           /\ split.hash # NULL => U!SplitStep(split, c) = split
           /\ split.query # NULL /\ c # "#" => U!SplitStep(split, c) = split
           /\ split.path # NULL /\ c \notin {"#", "?"} => U!SplitStep(split, c) = split
BY DEF U!SplitStep, NULL, U!NULL

\* Before an authority.
LEMMA SplitEarly ==
    ASSUME split \in Delimiters, p \in Nat, NEW c, split.hash = NULL, split.query = NULL, split.path = NULL,
           split.auth = NULL
    PROVE  /\ p = split.colon + 1 => U!SplitStep(split, "/") = [split EXCEPT !.slash = p]
           /\ p # split.colon + 1 /\ split.slash # NULL /\ p = split.slash + 1
                 => U!SplitStep(split, "/") = [split EXCEPT !.auth = p + 1]
           /\ p # split.colon + 1 /\ ~(split.slash # NULL /\ p = split.slash + 1)
                 => U!SplitStep(split, "/") = [split EXCEPT !.path = split.colon + 1]
           /\ p > 0 /\ split.colon = NULL /\ split.slash = NULL
                 => U!SplitStep(split, ":") = [split EXCEPT !.colon = p]
           /\ split.colon # NULL \/ split.slash # NULL => U!SplitStep(split, ":") = split
           /\ c \in {"@", "[", "]"} => U!SplitStep(split, c) = split
BY DEF U!SplitStep, U!BeforeAuthority, U!HierStart, NULL, U!NULL, Delimiters, Pos

\* In the authority.
LEMMA SplitAuthority ==
    ASSUME split \in Delimiters, p \in Nat, split.hash = NULL, split.query = NULL, split.path = NULL,
           split.auth # NULL
    PROVE  /\ U!SplitStep(split, "/") = [split EXCEPT !.path = p]
           /\ U!SplitStep(split, "@") = [split EXCEPT !.at = p, !.port = NULL]
           /\ ~split.bracket => U!SplitStep(split, ":") =
                 [split EXCEPT !.port = p, !.usercolon = IF @ = NULL THEN p ELSE @]
           /\ split.bracket => U!SplitStep(split, ":") = split
           /\ U!SplitStep(split, "[") = [split EXCEPT !.bracket = TRUE]
           /\ U!SplitStep(split, "]") = [split EXCEPT !.bracket = FALSE]
BY DEF U!SplitStep, U!InAuthority, NULL, U!NULL, Delimiters, Pos

\* The fields and mark that are left.
Good(u) == u \in Fields /\ FieldsInside(u)

\* The grammar's actions cut fields out of what was read.
LEMMA MarkGood ==
    ASSUME p \in Nat, NEW u, Good(u)
    PROVE  /\ Good(U!marku(u)) /\ U!marku(u).mark = p
           /\ Good(U!markh(u)) /\ U!markh(u).mark = p
BY DEF Good, Fields, FieldsInside, Inside, U!marku, U!markh, Pos

LEMMA SaveGood ==
    ASSUME p \in Nat, NEW u, Good(u)
    PROVE  /\ Good(U!save_userinfo(u)) /\ Good(U!save_host(u)) /\ Good(U!save_path(u))
           /\ u.mark # NULL => /\ Good(U!save_scheme(u)) /\ Good(U!save_port(u))
                               /\ Good(U!save_query(u)) /\ Good(U!save_fragment(u))
<1>1. u.mark # NULL => <<u.mark, p>> \in Cut /\ Inside(<<u.mark, p>>)
    BY DEF Good, Fields, FieldsInside, Inside, Pos, Cut, NULL
<1> USE <1>1 DEF Good, Fields, Pos, NULL, U!NULL
<1>2. Good(U!save_userinfo(u))
    <2>1. U!save_userinfo(u) \in Fields
        BY DEF U!save_userinfo
    <2>2. U!save_userinfo(u).mark <= p
        BY DEF U!save_userinfo, FieldsInside
    <2> QED
        BY <2>1, <2>2 DEF U!save_userinfo, FieldsInside
<1>3. Good(U!save_host(u))
    <2>1. U!save_host(u) \in Fields
        BY DEF U!save_host
    <2>2. U!save_host(u).mark <= p
        BY DEF U!save_host, FieldsInside
    <2> QED
        BY <2>1, <2>2 DEF U!save_host, FieldsInside
<1>4. Good(U!save_path(u))
    <2>1. U!save_path(u) \in Fields
        BY DEF U!save_path
    <2>2. U!save_path(u).mark <= p
        BY DEF U!save_path, FieldsInside
    <2> QED
        BY <2>1, <2>2 DEF U!save_path, FieldsInside
<1>5. u.mark # NULL => Good(U!save_scheme(u))
    <2>1. u.mark # NULL => U!save_scheme(u) \in Fields
        BY DEF U!save_scheme
    <2>2. U!save_scheme(u).mark <= p
        BY DEF U!save_scheme, FieldsInside
    <2> QED
        BY <2>1, <2>2 DEF U!save_scheme, FieldsInside
<1>6. u.mark # NULL => Good(U!save_port(u))
    <2>1. u.mark # NULL => U!save_port(u) \in Fields
        BY DEF U!save_port
    <2>2. U!save_port(u).mark <= p
        BY DEF U!save_port, FieldsInside
    <2> QED
        BY <2>1, <2>2 DEF U!save_port, FieldsInside
<1>7. u.mark # NULL => Good(U!save_query(u))
    <2>1. u.mark # NULL => U!save_query(u) \in Fields
        BY DEF U!save_query
    <2>2. U!save_query(u).mark <= p
        BY DEF U!save_query, FieldsInside
    <2> QED
        BY <2>1, <2>2 DEF U!save_query, FieldsInside
<1>8. u.mark # NULL => Good(U!save_fragment(u))
    <2>1. u.mark # NULL => U!save_fragment(u) \in Fields
        BY DEF U!save_fragment
    <2>2. U!save_fragment(u).mark <= p
        BY DEF U!save_fragment, FieldsInside
    <2> QED
        BY <2>1, <2>2 DEF U!save_fragment, FieldsInside
<1> QED
    BY <1>2, <1>3, <1>4, <1>5, <1>6, <1>7, <1>8

\* Step, outside a literal.
LEMMA OutsideStep ==
    ASSUME UriInv, NEW c, NEW to \in UriRegion, NEW u, Good(u), U!Outside(c, to, u),
           c = "%" => to \in Escapes,
           ~u.threw => At(to)'
    PROVE  UriInv'
BY Step DEF U!Outside, Good, UriInv, UriTypes, LiteralTypes

\* What the invariant says where a character is read.
LEMMA Here ==
    ASSUME UriInv, NEW c, NEW to, NEW u, U!Reads(c, to, u)
    PROVE  /\ At(cs) /\ Good(m) /\ split \in Delimiters /\ p \in Nat /\ ~m.threw
           /\ p' = p + 1 /\ m' = u /\ split' = U!SplitStep(split, c)
           /\ UserKept /\ (c \notin U!digit => userdigit' = userdigit)
           /\ userdigit' = (userdigit \/ U!PortLike(c))
<1>1. userdigit' = (userdigit \/ U!PortLike(c)) /\ userdigit \in BOOLEAN
    BY DEF U!Reads, UriInv, UriTypes
<1>2. UserKept /\ (c \notin U!digit => userdigit' = userdigit)
    BY <1>1, Zenon DEF UserKept, U!PortLike, NULL, U!NULL
<1> QED
    BY <1>1, <1>2, BoundsAssumption DEF UriInv, UriTypes, U!Reads, Good

-----------------------------------------------------------------------------
(* Outside an authority *)

\* "?" and "#" after a part that ends with the actions u.
LEMMA TailStep ==
    ASSUME UriInv, NEW u, Good(u), U!QueryOrFragment(u), NoTail,
           u.query = <<>>, u.fragment = <<>>, ~u.threw => PathCut(u, p)
    PROVE  UriInv'
<1> USE DEF NULL
<1>1. CASE U!Outside("?", "query0", u)
    <2>1. p \in Nat /\ split \in Delimiters /\ UserKept /\ p' = p + 1 /\ m' = u /\ split' = [split EXCEPT !.query = p]
        BY <1>1, Here, SplitTail DEF U!Outside, NoTail
    <2>2. ~u.threw => AtQuery0'
        BY <2>1 DEF AtQuery0, PathCut, AuthorityCut, SchemeCut, NoAuthority, UserinfoCut, UserKept, First, NoTail,
                    Delimiters, Pos
    <2> QED
        BY <1>1, <2>2, OutsideStep DEF At, UriRegion
<1>2. CASE U!Outside("#", "frag0", u)
    <2>1. p \in Nat /\ split \in Delimiters /\ UserKept /\ p' = p + 1 /\ m' = u /\ split' = [split EXCEPT !.hash = p]
        BY <1>2, Here, SplitTail DEF U!Outside, NoTail
    <2>2. ~u.threw => AtFrag0'
        BY <2>1 DEF AtFrag0, QueryCut, PathCut, AuthorityCut, SchemeCut, NoAuthority, UserinfoCut, UserKept, First,
                    NoTail, Delimiters, Pos
    <2> QED
        BY <1>2, <2>2, OutsideStep DEF At, UriRegion
<1> QED
    BY <1>1, <1>2 DEF U!QueryOrFragment


LEMMA StartStep ==
    ASSUME UriInv, U!Start
    PROVE  UriInv'
<1> USE DEF NULL
<1>1. ASSUME NEW c \in U!alpha, U!Outside(c, "scheme", U!marku(m))
      PROVE  UriInv'
    <2>1. AtScheme'
        BY <1>1, Here, SplitSame
        DEF U!Start, U!In, At, AtStart, AtScheme, AtNoscheme, Before, UserKept, NoTail, SchemeCut, NoAuthority,
            U!Outside,
            U!alpha, U!marku, Good, Fields
    <2> QED
        BY <1>1, <2>1, Here, MarkGood, OutsideStep DEF U!Outside, U!alpha, UriRegion, At
<1>2. ASSUME NEW c \in (U!pchar \ (U!alpha \cup {":"})) \cup {"%"}, U!Outside(c, "noscheme", m)
      PROVE  UriInv'
    <2>1. AtStart
        BY <1>2, Here DEF U!Start, U!In, At, U!Outside
    <2>2. U!SplitStep(split, c) = split
        BY <1>2, <2>1, Here, SplitSame, SplitEarly
        DEF AtStart, Before, UserKept, NoTail, U!pchar, U!regular, U!alpha, U!digit, U!Outside
    <2>3. AtNoscheme'
        BY <1>2, <2>1, <2>2, Here
        DEF AtStart, AtNoscheme, Before, UserKept, NoTail, SchemeCut, NoAuthority, U!Outside
    <2> QED
        BY <1>2, <2>3, Here, OutsideStep DEF U!Outside, UriRegion, At, Escapes
<1>3. ASSUME U!Outside("/", "slash", m)
      PROVE  UriInv'
    <2>1. AtStart
        BY <1>3, Here DEF U!Start, U!In, At, U!Outside
    <2>2. AtSlash' /\ split'.colon = NULL
        BY <1>3, <2>1, Here, SplitEarly
        DEF AtStart, AtSlash, Before, UserKept, NoTail, SchemeCut, NoAuthority, U!Outside, Delimiters
    <2> QED
        BY <1>3, <2>2, Here, OutsideStep DEF U!Outside, UriRegion, At
<1>4. ASSUME U!QueryOrFragment(m)
      PROVE  UriInv'
    <2>1. AtStart /\ Good(m) /\ split \in Delimiters /\ p \in Nat
        BY <1>4, Here DEF U!Start, U!In, At, U!Outside, U!QueryOrFragment
    <2>2. NoTail /\ m.query = <<>> /\ m.fragment = <<>> /\ PathCut(m, p)
        BY <2>1 DEF AtStart, Before, UserKept, NoTail, PathCut, AuthorityCut
    <2> QED
        BY <1>4, <2>1, <2>2, TailStep
<1> QED
    BY <1>1, <1>2, <1>3, <1>4 DEF U!Start

\* A relative reference, before its first slash.
LEMMA NoschemeStep ==
    ASSUME UriInv, U!Noscheme
    PROVE  UriInv'
<1> USE DEF NULL
<1>1. result = "none" /\ ~m.threw /\ cs = "noscheme"
    BY DEF U!Noscheme, U!QueryOrFragment, U!In, U!Outside, U!Reads
<1>2. AtNoscheme /\ Good(m) /\ split \in Delimiters /\ p \in Nat
    BY <1>1, BoundsAssumption DEF UriInv, UriTypes, At, Good
<1>3. ASSUME NEW c \in (U!pchar \ {":"}) \cup {"%"}, U!Outside(c, "noscheme", m)
      PROVE  UriInv'
    <2>1. U!SplitStep(split, c) = split
        BY <1>2, <1>3, SplitSame, SplitEarly
        DEF AtNoscheme, Before, UserKept, NoTail, SchemeCut, NoAuthority, U!pchar, U!regular, U!alpha, U!digit
    <2>2. UserKept /\ p' = p + 1 /\ m' = m /\ split' = split
        BY <1>3, <2>1, Here DEF U!Outside
    <2>3. AtNoscheme'
        BY <1>2, <2>2 DEF AtNoscheme, Before, UserKept, NoTail, SchemeCut, NoAuthority
    <2> QED
        BY <1>3, <1>2, <2>3, OutsideStep DEF At, UriRegion, Escapes
<1>4. ASSUME U!Outside("/", "segments", m)
      PROVE  UriInv'
    <2>1. U!SplitStep(split, "/") = [split EXCEPT !.path = split.colon + 1]
        BY <1>2, SplitEarly DEF AtNoscheme, Before, UserKept, NoTail, SchemeCut, NoAuthority
    <2>2. UserKept /\ p' = p + 1 /\ m' = m /\ split' = [split EXCEPT !.path = split.colon + 1]
        BY <1>4, <2>1, Here DEF U!Outside
    <2>3. AtSegments'
        BY <1>2, <2>2
        DEF AtNoscheme, Before, UserKept, NoTail, SchemeCut, NoAuthority, AtSegments, AuthorityCut, Delimiters, Pos
    <2> QED
        BY <1>4, <1>2, <2>3, OutsideStep DEF At, UriRegion
<1>5. ASSUME U!QueryOrFragment(m)
      PROVE  UriInv'
    <2>1. NoTail /\ PathCut(m, p)
        BY <1>2 DEF AtNoscheme, Before, UserKept, NoTail, SchemeCut, NoAuthority, PathCut, AuthorityCut
    <2> QED
        BY <1>5, <1>2, <2>1, TailStep DEF NoTail
<1> QED
    BY <1>3, <1>4, <1>5 DEF U!Noscheme

\* A scheme, or a relative reference that starts like one.
LEMMA SchemeStep ==
    ASSUME UriInv, U!Scheme
    PROVE  UriInv'
<1> USE DEF NULL
<1>1. result = "none" /\ ~m.threw /\ cs = "scheme"
    BY DEF U!Scheme, U!QueryOrFragment, U!In, U!Outside, U!Reads
<1>2. AtScheme /\ Good(m) /\ split \in Delimiters /\ p \in Nat
    BY <1>1, BoundsAssumption DEF UriInv, UriTypes, At, Good
<1>3. ASSUME NEW c \in U!alpha \cup U!digit \cup {"+", "."}, U!Outside(c, "scheme", m)
      PROVE  UriInv'
    <2>1. U!SplitStep(split, c) = split
        BY <1>2, <1>3, SplitSame
        DEF AtScheme, AtNoscheme, Before, UserKept, NoTail, SchemeCut, NoAuthority, U!alpha, U!digit
    <2>2. UserKept /\ p' = p + 1 /\ m' = m /\ split' = split
        BY <1>3, <2>1, Here DEF U!Outside
    <2>3. AtScheme'
        BY <1>2, <2>2 DEF AtScheme, AtNoscheme, Before, UserKept, NoTail, SchemeCut, NoAuthority
    <2> QED
        BY <1>3, <1>2, <2>3, OutsideStep DEF At, UriRegion, U!alpha, U!digit
<1>4. ASSUME NEW c \in {"!", "@", "u", "%"}, U!Outside(c, "noscheme", m)
      PROVE  UriInv'
    <2>1. U!SplitStep(split, c) = split
        BY <1>2, <1>4, SplitSame, SplitEarly
        DEF AtScheme, AtNoscheme, Before, UserKept, NoTail, SchemeCut, NoAuthority
    <2>2. UserKept /\ p' = p + 1 /\ m' = m /\ split' = split
        BY <1>4, <2>1, Here DEF U!Outside
    <2>3. AtNoscheme'
        BY <1>2, <2>2 DEF AtScheme, AtNoscheme, Before, UserKept, NoTail, SchemeCut, NoAuthority
    <2> QED
        BY <1>4, <1>2, <2>3, OutsideStep DEF At, UriRegion, Escapes
<1>5. ASSUME U!Outside(":", "hier", U!save_scheme(m))
      PROVE  UriInv'
    <2>1. U!SplitStep(split, ":") = [split EXCEPT !.colon = p]
        BY <1>2, SplitEarly DEF AtScheme, AtNoscheme, Before, UserKept, NoTail, SchemeCut, NoAuthority
    <2>2. UserKept /\ p' = p + 1 /\ m' = U!save_scheme(m) /\ split' = [split EXCEPT !.colon = p]
        BY <1>5, <2>1, Here DEF U!Outside
    <2>3. AtHier'
        BY <1>2, <2>2
        DEF AtScheme, AtNoscheme, Before, UserKept, NoTail, SchemeCut, NoAuthority, AtHier, U!save_scheme, Cut,
            Delimiters, Pos, Good, Fields
    <2>4. Good(U!save_scheme(m))
        BY <1>2, SaveGood DEF AtScheme
    <2> QED
        BY <1>5, <1>2, <2>3, <2>4, OutsideStep DEF At, UriRegion
<1>6. ASSUME U!Outside("/", "segments", m)
      PROVE  UriInv'
    <2>1. U!SplitStep(split, "/") = [split EXCEPT !.path = split.colon + 1]
        BY <1>2, SplitEarly DEF AtScheme, AtNoscheme, Before, UserKept, NoTail, SchemeCut, NoAuthority
    <2>2. UserKept /\ p' = p + 1 /\ m' = m /\ split' = [split EXCEPT !.path = split.colon + 1]
        BY <1>6, <2>1, Here DEF U!Outside
    <2>3. AtSegments'
        BY <1>2, <2>2
        DEF AtScheme, AtNoscheme, Before, UserKept, NoTail, SchemeCut, NoAuthority, AtSegments, AuthorityCut,
            Delimiters, Pos
    <2> QED
        BY <1>6, <1>2, <2>3, OutsideStep DEF At, UriRegion
<1>7. ASSUME U!QueryOrFragment(m)
      PROVE  UriInv'
    <2>1. NoTail /\ PathCut(m, p)
        BY <1>2 DEF AtScheme, AtNoscheme, Before, UserKept, NoTail, SchemeCut, NoAuthority, PathCut, AuthorityCut
    <2> QED
        BY <1>7, <1>2, <2>1, TailStep DEF NoTail
<1> QED
    BY <1>3, <1>4, <1>5, <1>6, <1>7 DEF U!Scheme

\* Behind the colon of the scheme.
LEMMA HierStep ==
    ASSUME UriInv, U!Hier
    PROVE  UriInv'
<1> USE DEF NULL
<1>1. result = "none" /\ ~m.threw /\ cs = "hier"
    BY DEF U!Hier, U!QueryOrFragment, U!In, U!Outside, U!Reads
<1>2. AtHier /\ Good(m) /\ split \in Delimiters /\ p \in Nat
    BY <1>1, BoundsAssumption DEF UriInv, UriTypes, At, Good
<1>3. ASSUME NEW c \in U!pchar \cup {"%"}, U!Outside(c, "segments", m)
      PROVE  UriInv'
    <2>1. U!SplitStep(split, c) = split
        BY <1>2, <1>3, SplitSame, SplitEarly
        DEF AtHier, Before, UserKept, NoTail, SchemeCut, NoAuthority, U!pchar, U!regular, U!alpha, U!digit
    <2>2. UserKept /\ p' = p + 1 /\ m' = m /\ split' = split
        BY <1>3, <2>1, Here DEF U!Outside
    <2>3. AtSegments'
        BY <1>2, <2>2 DEF AtHier, Before, UserKept, NoTail, SchemeCut, NoAuthority, AtSegments, AuthorityCut
    <2> QED
        BY <1>3, <1>2, <2>3, OutsideStep DEF At, UriRegion, Escapes
<1>4. ASSUME U!Outside("/", "hierslash", m)
      PROVE  UriInv'
    <2>1. U!SplitStep(split, "/") = [split EXCEPT !.slash = p]
        BY <1>2, SplitEarly DEF AtHier, Before, UserKept, NoTail, SchemeCut, NoAuthority
    <2>2. UserKept /\ p' = p + 1 /\ m' = m /\ split' = [split EXCEPT !.slash = p]
        BY <1>4, <2>1, Here DEF U!Outside
    <2>3. (AtSlash /\ split.colon >= 0)'
        BY <1>2, <2>2 DEF AtHier, Before, UserKept, NoTail, SchemeCut, NoAuthority, AtSlash, Delimiters, Pos
    <2> QED
        BY <1>4, <1>2, <2>3, OutsideStep DEF At, UriRegion
<1>5. ASSUME U!QueryOrFragment(m)
      PROVE  UriInv'
    <2>1. NoTail /\ PathCut(m, p)
        BY <1>2 DEF AtHier, Before, UserKept, NoTail, SchemeCut, NoAuthority, PathCut, AuthorityCut
    <2> QED
        BY <1>5, <1>2, <2>1, TailStep DEF NoTail
<1> QED
    BY <1>3, <1>4, <1>5 DEF U!Hier

\* Behind the first slash: the second one starts an authority.
LEMMA HierSlashStep ==
    ASSUME UriInv, U!HierSlash
    PROVE  UriInv'
<1> USE DEF NULL
<1>1. result = "none" /\ ~m.threw /\ cs = "hierslash"
    BY DEF U!HierSlash, U!QueryOrFragment, U!In, U!Outside, U!Reads
<1>2. AtSlash /\ split.colon >= 0 /\ Good(m) /\ split \in Delimiters /\ p \in Nat
    BY <1>1, BoundsAssumption DEF UriInv, UriTypes, At, Good
<1>3. ASSUME NEW c \in U!pchar \cup {"%"}, U!Outside(c, "segments", m)
      PROVE  UriInv'
    <2>1. U!SplitStep(split, c) = split
        BY <1>2, <1>3, SplitSame, SplitEarly
        DEF AtSlash, Before, UserKept, NoTail, SchemeCut, NoAuthority, U!pchar, U!regular, U!alpha, U!digit
    <2>2. UserKept /\ p' = p + 1 /\ m' = m /\ split' = split
        BY <1>3, <2>1, Here DEF U!Outside
    <2>3. AtSegments'
        BY <1>2, <2>2
        DEF AtSlash, Before, UserKept, NoTail, SchemeCut, NoAuthority, AtSegments, AuthorityCut, Delimiters, Pos
    <2> QED
        BY <1>3, <1>2, <2>3, OutsideStep DEF At, UriRegion, Escapes
<1>4. ASSUME U!Reads("/", "authority", m), abs' = TRUE, UNCHANGED lit
      PROVE  UriInv'
    <2>1. U!SplitStep(split, "/") = [split EXCEPT !.auth = p + 1]
        BY <1>2, SplitEarly DEF AtSlash, Before, UserKept, NoTail, SchemeCut, NoAuthority, Delimiters, Pos
    <2>2. UserKept /\ p' = p + 1 /\ m' = m /\ split' = [split EXCEPT !.auth = p + 1]
        BY <1>4, <2>1, Here
    <2>3. AtAuthority'
        BY <1>2, <2>2, <1>4
        DEF AtSlash, Before, UserKept, NoTail, SchemeCut, NoAuthority, AtAuthority, NoColon, User, InAuthority,
            Delimiters, Pos
    <2> QED
        BY <1>4, <1>2, <2>3, Step DEF At, UriRegion, Good, UriInv, LiteralTypes
<1>5. ASSUME U!QueryOrFragment(m)
      PROVE  UriInv'
    <2>1. NoTail /\ PathCut(m, p)
        BY <1>2 DEF AtSlash, Before, UserKept, NoTail, SchemeCut, NoAuthority, PathCut, AuthorityCut
    <2> QED
        BY <1>5, <1>2, <2>1, TailStep DEF NoTail
<1> QED
    BY <1>3, <1>4, <1>5 DEF U!HierSlash

\* The same without a scheme.
LEMMA SlashStep ==
    ASSUME UriInv, U!Slash
    PROVE  UriInv'
<1> USE DEF NULL
<1>1. result = "none" /\ ~m.threw /\ cs = "slash"
    BY DEF U!Slash, U!QueryOrFragment, U!In, U!Outside, U!Reads
<1>2. AtSlash /\ split.colon = NULL /\ Good(m) /\ split \in Delimiters /\ p \in Nat
    BY <1>1, BoundsAssumption DEF UriInv, UriTypes, At, Good
<1>3. ASSUME NEW c \in U!pchar \cup {"%"}, U!Outside(c, "segments", m)
      PROVE  UriInv'
    <2>1. U!SplitStep(split, c) = split
        BY <1>2, <1>3, SplitSame, SplitEarly
        DEF AtSlash, Before, UserKept, NoTail, SchemeCut, NoAuthority, U!pchar, U!regular, U!alpha, U!digit
    <2>2. UserKept /\ p' = p + 1 /\ m' = m /\ split' = split
        BY <1>3, <2>1, Here DEF U!Outside
    <2>3. AtSegments'
        BY <1>2, <2>2
        DEF AtSlash, Before, UserKept, NoTail, SchemeCut, NoAuthority, AtSegments, AuthorityCut, Delimiters, Pos
    <2> QED
        BY <1>3, <1>2, <2>3, OutsideStep DEF At, UriRegion, Escapes
<1>4. ASSUME U!Reads("/", "authority", m), abs' = FALSE, UNCHANGED lit
      PROVE  UriInv'
    <2>1. U!SplitStep(split, "/") = [split EXCEPT !.auth = p + 1]
        BY <1>2, SplitEarly DEF AtSlash, Before, UserKept, NoTail, SchemeCut, NoAuthority, Delimiters, Pos
    <2>2. UserKept /\ p' = p + 1 /\ m' = m /\ split' = [split EXCEPT !.auth = p + 1]
        BY <1>4, <2>1, Here
    <2>3. AtAuthority'
        BY <1>2, <2>2, <1>4
        DEF AtSlash, Before, UserKept, NoTail, SchemeCut, NoAuthority, AtAuthority, NoColon, User, InAuthority,
            Delimiters, Pos
    <2> QED
        BY <1>4, <1>2, <2>3, Step DEF At, UriRegion, Good, UriInv, LiteralTypes
<1>5. ASSUME U!QueryOrFragment(m)
      PROVE  UriInv'
    <2>1. NoTail /\ PathCut(m, p)
        BY <1>2 DEF AtSlash, Before, UserKept, NoTail, SchemeCut, NoAuthority, PathCut, AuthorityCut
    <2> QED
        BY <1>5, <1>2, <2>1, TailStep DEF NoTail
<1> QED
    BY <1>3, <1>4, <1>5 DEF U!Slash

\* The path that nothing saves.
LEMMA SegmentsStep ==
    ASSUME UriInv, U!Segments
    PROVE  UriInv'
<1> USE DEF NULL
<1>1. result = "none" /\ ~m.threw /\ cs = "segments"
    BY DEF U!Segments, U!QueryOrFragment, U!In, U!Outside, U!Reads
<1>2. AtSegments /\ Good(m) /\ split \in Delimiters /\ p \in Nat
    BY <1>1, BoundsAssumption DEF UriInv, UriTypes, At, Good
<1>3. ASSUME NEW c \in U!pchar \cup {"/", "%"}, U!Outside(c, "segments", m)
      PROVE  UriInv'
    <2>1. UserKept /\ p' = p + 1 /\ m' = m /\ split' = U!SplitStep(split, c)
        BY <1>3, Here DEF U!Outside
    <2>2. CASE c = "/" /\ split.path = NULL
        <3>1. split' = [split EXCEPT !.path = split.colon + 1] /\ split.auth = NULL
            BY <1>2, <2>1, <2>2, SplitEarly DEF AtSegments, NoTail
        <3>2. AtSegments'
            BY <1>2, <2>1, <2>2, <3>1
            DEF AtSegments, NoTail, SchemeCut, AuthorityCut, NoAuthority, Delimiters, Pos
        <3> QED
            BY <1>2, <1>3, <2>2, <3>2, OutsideStep DEF At, UriRegion
    <2>3. CASE ~(c = "/" /\ split.path = NULL)
        <3>1. split' = split
            BY <1>2, <1>3, <2>1, <2>3, SplitEarly, SplitTail, SplitSame
            DEF AtSegments, NoTail, U!pchar, U!regular, U!alpha, U!digit
        <3>2. AtSegments'
            BY <1>2, <2>1, <3>1
            DEF AtSegments, NoTail, SchemeCut, AuthorityCut, NoAuthority, UserinfoCut, UserKept, First, Delimiters,
                Pos
        <3> QED
            BY <1>2, <1>3, <3>2, OutsideStep DEF At, UriRegion, Escapes
    <2> QED
        BY <2>2, <2>3
<1>4. ASSUME U!QueryOrFragment(m)
      PROVE  UriInv'
    <2>1. NoTail /\ PathCut(m, p)
        BY <1>2
        DEF AtSegments, PathCut, NoTail, SchemeCut, AuthorityCut, NoAuthority, UserinfoCut, UserKept, First
    <2> QED
        BY <1>4, <1>2, <2>1, TailStep DEF NoTail
<1> QED
    BY <1>3, <1>4 DEF U!Segments

\* The path behind a scheme and an authority.
LEMMA AbsPathStep ==
    ASSUME UriInv, U!AbsPath
    PROVE  UriInv'
<1> USE DEF NULL
<1>1. result = "none" /\ ~m.threw /\ cs = "path"
    BY DEF U!AbsPath, U!QueryOrFragment, U!In, U!Outside, U!Reads
<1>2. AtPath /\ Good(m) /\ split \in Delimiters /\ p \in Nat
    BY <1>1, BoundsAssumption DEF UriInv, UriTypes, At, Good
<1>3. ASSUME NEW c \in U!pchar \cup {"/", "%"}, U!Outside(c, "path", m)
      PROVE  UriInv'
    <2>1. U!SplitStep(split, c) = split
        BY <1>2, <1>3, SplitTail
        DEF AtPath, NoTail, SchemeCut, AuthorityCut, NoAuthority, UserinfoCut, UserKept, First, U!pchar, U!regular,
            U!alpha, U!digit
    <2>2. UserKept /\ p' = p + 1 /\ m' = m /\ split' = split
        BY <1>3, <2>1, Here DEF U!Outside
    <2>3. AtPath'
        BY <1>2, <2>2 DEF AtPath, NoTail, SchemeCut, AuthorityCut, NoAuthority, UserinfoCut, UserKept, First
    <2> QED
        BY <1>3, <1>2, <2>3, OutsideStep DEF At, UriRegion, Escapes
<1>4. ASSUME U!QueryOrFragment(U!save_path(m))
      PROVE  UriInv'
    <2>1. NoTail /\ U!save_path(m).query = <<>> /\ U!save_path(m).fragment = <<>>
        BY <1>2 DEF AtPath, NoTail, U!save_path, Good, Fields
    <2>2. ~U!save_path(m).threw => PathCut(U!save_path(m), p)
        BY <1>2
        DEF AtPath, PathCut, NoTail, SchemeCut, AuthorityCut, NoAuthority, UserinfoCut, UserKept, First, U!save_path,
            U!NULL, Good, Fields
    <2> QED
        BY <1>4, <1>2, <2>1, <2>2, SaveGood, TailStep
<1> QED
    BY <1>3, <1>4 DEF U!AbsPath

\* The query.
LEMMA QueryStep ==
    ASSUME UriInv, U!Query
    PROVE  UriInv'
<1> USE DEF NULL
<1>1. result = "none" /\ ~m.threw /\ cs \in {"query0", "query"}
    BY DEF U!Query, U!In, U!Outside, U!Reads
<1>2. /\ cs = "query0" => AtQuery0
      /\ cs = "query" => AtQuery
      /\ Good(m) /\ split \in Delimiters /\ p \in Nat
    BY <1>1, BoundsAssumption DEF UriInv, UriTypes, At, Good
<1> DEFINE u == IF cs = "query0" THEN U!marku(m) ELSE m
<1>3. Good(u) /\ split.query >= 0 /\ split.hash = NULL /\ u.mark = split.query + 1
    BY <1>1, <1>2, MarkGood DEF AtQuery0, AtQuery, Delimiters, Pos
<1>4. PathCut(u, split.query) /\ u.query = <<>> /\ u.fragment = <<>> /\ ~u.threw
    BY <1>1, <1>2
    DEF AtQuery0, AtQuery, PathCut, SchemeCut, AuthorityCut, NoAuthority, UserinfoCut, UserKept, U!marku, Good, Fields
<1>5. ASSUME NEW c \in U!pchar \cup {"/", "?", "%"}, U!Outside(c, "query", u)
      PROVE  UriInv'
    <2>1. U!SplitStep(split, c) = split
        BY <1>3, <1>5, SplitTail DEF U!pchar, U!regular, U!alpha, U!digit
    <2>2. UserKept /\ p' = p + 1 /\ m' = u /\ split' = split
        BY <1>5, <2>1, Here DEF U!Outside
    <2> HIDE DEF u
    <2>3. AtQuery'
        BY <1>3, <1>4, <2>2
        DEF AtQuery, PathCut, SchemeCut, AuthorityCut, NoAuthority, UserinfoCut, UserKept, First
    <2> QED
        BY <1>3, <1>5, <2>3, OutsideStep DEF At, UriRegion, Escapes
<1>6. ASSUME U!Outside("#", "frag0", U!save_query(u))
      PROVE  UriInv'
    <2>1. U!SplitStep(split, "#") = [split EXCEPT !.hash = p]
        BY <1>3, SplitTail
    <2>2. UserKept /\ p' = p + 1 /\ m' = U!save_query(u) /\ split' = [split EXCEPT !.hash = p]
        BY <1>6, <2>1, Here DEF U!Outside
    <2> HIDE DEF u
    <2>3. Good(U!save_query(u))
        <3>1. u.mark # NULL
            BY <1>2, <1>3 DEF Delimiters, Pos
        <3> QED
            BY <1>2, <1>3, <3>1, SaveGood
    <2>4. AtFrag0'
        <3>1. split.query \in Nat /\ split'.query = split.query /\ split'.hash = p /\ split'.colon = split.colon
              /\ split'.path = split.path /\ split'.auth = split.auth /\ split'.at = split.at
              /\ split'.port = split.port /\ split'.usercolon = split.usercolon
            BY <1>2, <1>3, <2>2 DEF Delimiters, Pos
        <3>2. /\ m'.scheme = u.scheme /\ m'.host = u.host /\ m'.port = u.port /\ m'.userinfo = u.userinfo
              /\ m'.path = u.path /\ m'.fragment = <<>> /\ m'.query = <<split.query + 1, p>>
            BY <1>3, <1>4, <2>2 DEF U!save_query, Good, Fields
        <3>3. PathCut(m, split.query)'
            BY <1>4, <2>2, <3>1, <3>2 DEF PathCut, SchemeCut, AuthorityCut, NoAuthority, UserinfoCut, UserKept, First
        <3> QED
            BY <1>2, <2>2, <3>1, <3>2, <3>3 DEF AtFrag0, QueryCut
    <2> QED
        BY <1>6, <2>3, <2>4, OutsideStep DEF At, UriRegion
<1>7. CASE U!In("query0")
    BY <1>5, <1>6, <1>7 DEF U!Query, U!In
<1>8. CASE U!In("query")
    BY <1>5, <1>6, <1>8 DEF U!Query, U!In
<1> QED
    BY <1>7, <1>8 DEF U!Query

\* The fragment.
LEMMA FragmentStep ==
    ASSUME UriInv, U!Fragment
    PROVE  UriInv'
<1> USE DEF NULL
<1> DEFINE u == IF cs = "frag0" THEN U!marku(m) ELSE m
<1>1. PICK c \in U!pchar \cup {"/", "?", "%"} : U!Outside(c, "frag", u)
    BY DEF U!Fragment
<1>2. /\ cs = "frag0" => AtFrag0
      /\ cs = "frag" => AtFrag
      /\ cs \in {"frag0", "frag"} /\ Good(m) /\ split \in Delimiters /\ p \in Nat
    BY <1>1, Here DEF U!Fragment, U!In, U!Outside, At
<1>3. Good(u) /\ split.hash >= 0 /\ u.mark = split.hash + 1
    BY <1>2, MarkGood DEF AtFrag0, AtFrag, QueryCut
<1>4. /\ u.fragment = <<>> /\ PathCut(u, IF split.query # NULL THEN split.query ELSE split.hash)
      /\ u.query = IF split.query # NULL THEN <<split.query + 1, split.hash>> ELSE <<>>
    BY <1>2
    DEF AtFrag0, AtFrag, QueryCut, PathCut, SchemeCut, AuthorityCut, NoAuthority, UserinfoCut, UserKept, U!marku,
        Good,
        Fields
<1>5. UserKept /\ p' = p + 1 /\ m' = u /\ split' = split
    BY <1>1, <1>3, Here, SplitTail DEF U!Outside
<1> HIDE DEF u
<1>6. AtFrag'
    BY <1>3, <1>4, <1>5
    DEF AtFrag, QueryCut, PathCut, SchemeCut, AuthorityCut, NoAuthority, UserinfoCut, UserKept, First
<1> QED
    BY <1>1, <1>3, <1>6, OutsideStep DEF At, UriRegion, Escapes

\* The digits of an escape.
LEMMA PctDigitStep ==
    ASSUME UriInv, U!PctDigit
    PROVE  UriInv'
<1> USE DEF NULL
<1>1. PICK c \in U!xdigit : /\ result = "none" /\ p < text.length
                            /\ pct' = pct - 1 /\ p' = p + 1
                            /\ split' = U!SplitStep(split, c)
                            /\ userdigit' = (userdigit \/ U!PortLike(c))
    BY DEF U!PctDigit
<1>2. split' = split /\ pct > 0 /\ UNCHANGED <<text, cs, abs, lit, m, result>>
    BY <1>1, SplitSame DEF U!PctDigit, U!xdigit, U!digit
<1>3. p \in Nat /\ text.length \in Nat
    BY BoundsAssumption DEF UriInv, UriTypes
<1>4. UriTypes' /\ LiteralTypes'
    BY <1>1, <1>2, <1>3 DEF UriInv, UriTypes, LiteralTypes, FieldsInside, Inside, Fields, Cut, Pos
<1>5. split \in Delimiters
    BY DEF UriInv, UriTypes
<1>7. UserKept /\ (AtUserinfo \/ ~U!PortLike(c) => userdigit' = userdigit)
    <2>1. userdigit \in BOOLEAN
        BY DEF UriInv, UriTypes
    <2>2. AtUserinfo => ~U!PortLike(c)
        BY <1>3, <1>5 DEF AtUserinfo, U!PortLike, Delimiters, Pos
    <2> QED
        BY <1>1, <2>1, <2>2, Zenon DEF UserKept, U!PortLike, U!NULL
<1>6. ASSUME ~m.threw
      PROVE  cs \in Escapes /\ At(cs)'
    <2>1. cs \in Escapes /\ At(cs)
        BY <1>1, <1>2, <1>6 DEF UriInv, Escaped
    <2>2. AtNoscheme => AtNoscheme'
        BY <1>1, <1>2, <1>3, <1>5, <1>7 DEF AtNoscheme, Before, UserKept, NoTail, SchemeCut, NoAuthority
    <2>3. AtSegments => AtSegments'
        <3>1. split.path \in Int /\ split.colon \in Int /\ split.slash \in Int
            BY <1>5 DEF Delimiters, Pos, NULL
        <3>2. AuthorityCut(m, split.path) => AuthorityCut(m, split.path)'
            BY <1>2, <1>7 DEF AuthorityCut, NoAuthority, UserinfoCut, UserKept, First
        <3>3. NoTail /\ SchemeCut(m) => NoTail' /\ SchemeCut(m)'
            BY <1>2 DEF NoTail, SchemeCut
        <3> QED
            BY <1>1, <1>2, <1>3, <3>1, <3>2, <3>3 DEF AtSegments
    <2>4. AtPath => AtPath'
        BY <1>1, <1>2, <1>3, <1>5, <1>7 DEF AtPath, NoTail, SchemeCut, AuthorityCut, NoAuthority, UserinfoCut,
                                            UserKept, First
    <2>5. AtQuery => AtQuery'
        BY <1>1, <1>2, <1>3, <1>5, <1>7 DEF AtQuery, PathCut, SchemeCut, AuthorityCut, NoAuthority, UserinfoCut,
                                            UserKept, First
    <2>6. AtFrag => AtFrag'
        BY <1>1, <1>2, <1>3, <1>5, <1>7 DEF AtFrag, QueryCut, PathCut, SchemeCut, AuthorityCut, NoAuthority,
                                            UserinfoCut, UserKept,
                                    First
    <2>7. AtUserHost => AtUserHost'
        BY <1>1, <1>2, <1>3, <1>5, <1>7 DEF AtUserHost, UserKept, NoColon, User, InAuthority, NoTail, SchemeCut,
                                            Delimiters, Pos
    <2>8. AtUserinfo => AtUserinfo'
        BY <1>1, <1>2, <1>3, <1>5, <1>7 DEF AtUserinfo, User, InAuthority, NoTail, SchemeCut, Delimiters, Pos
    <2>9. AtRegName => AtRegName'
        BY <1>1, <1>2, <1>3, <1>5, <1>7 DEF AtRegName, Server, InAuthority, NoTail, SchemeCut, UserinfoCut,
                                            UserKept, First,
                                    Delimiters, Pos
    <2> QED
        BY <1>2, <2>1, <2>2, <2>3, <2>4, <2>5, <2>6, <2>7, <2>8, <2>9 DEF Escapes, At
<1> QED
    BY <1>1, <1>2, <1>4, <1>6 DEF UriInv, UriRegion, Escapes, Escaped, U!PartsAgree, U!AuthorityAgrees

-----------------------------------------------------------------------------
(* The authority *)

\* u has the parts of an authority that ends here.
Ends(u) ==
    /\ InAuthority /\ Good(u) /\ ~u.threw
    /\ AuthorityCut(u, p) /\ SchemeCut(u) /\ u.path = <<>> /\ u.query = <<>> /\ u.fragment = <<>>
    /\ abs => u.mark = NULL \/ u.mark = p

\* "/", "?" or "#" ends the authority.
LEMMA LeaveStep ==
    ASSUME UriInv, NEW u, Ends(u), U!Leave(u)
    PROVE  UriInv'
<1> USE DEF NULL, Ends
<1>1. split \in Delimiters /\ p \in Nat
    BY BoundsAssumption DEF UriInv, UriTypes
<1>2. ASSUME U!Outside("/", IF abs THEN "path" ELSE "segments", u)
      PROVE  UriInv'
    <2>1. U!SplitStep(split, "/") = [split EXCEPT !.path = p]
        BY <1>1, SplitAuthority DEF InAuthority, NoTail, Delimiters, Pos
    <2>2. UserKept /\ p' = p + 1 /\ m' = u /\ split' = [split EXCEPT !.path = p]
        BY <1>2, <2>1, Here DEF U!Outside
    <2>3. CASE abs
        <3>1. AtPath'
            BY <1>1, <2>2, <2>3
            DEF AtPath, InAuthority, NoTail, SchemeCut, AuthorityCut, UserinfoCut, UserKept, First, Delimiters, Pos
        <3> QED
            BY <1>2, <2>3, <3>1, OutsideStep DEF At, UriRegion
    <2>4. CASE ~abs
        <3>1. AtSegments'
            BY <1>1, <2>2, <2>4
            DEF AtSegments, InAuthority, NoTail, SchemeCut, AuthorityCut, UserinfoCut, UserKept, First, Delimiters,
                Pos
        <3> QED
            BY <1>2, <2>4, <3>1, OutsideStep DEF At, UriRegion
    <2> QED
        BY <2>3, <2>4
<1>3. ASSUME abs, U!QueryOrFragment(U!save_path(u))
      PROVE  UriInv'
    <2>1. Good(U!save_path(u)) /\ U!save_path(u).query = <<>> /\ U!save_path(u).fragment = <<>>
        BY <1>1, SaveGood DEF U!save_path, Good, Fields
    <2>2. ~U!save_path(u).threw => PathCut(U!save_path(u), p)
        BY <1>1, <1>3
        DEF PathCut, InAuthority, SchemeCut, AuthorityCut, UserinfoCut, UserKept, Delimiters, Pos, U!save_path,
            U!NULL,
            Good, Fields
    <2> QED
        BY <1>3, <2>1, <2>2, TailStep DEF InAuthority
<1>4. ASSUME ~abs, U!QueryOrFragment(u)
      PROVE  UriInv'
    <2>1. PathCut(u, p)
        BY <1>4 DEF PathCut, InAuthority
    <2> QED
        BY <1>4, <2>1, TailStep DEF InAuthority
<1> QED
    BY <1>2, <1>3, <1>4 DEF U!Leave

\* What no action of the authority touches.
SameRest(u, v) ==
    u.scheme = v.scheme /\ u.path = v.path /\ u.query = v.query /\ u.fragment = v.fragment /\ u.threw = v.threw

LEMMA MarkhFields ==
    ASSUME p \in Nat, NEW u, Good(u)
    PROVE  /\ Good(U!markh(u)) /\ SameRest(U!markh(u), u) /\ U!markh(u).mark = p /\ U!markh(u).mark # NULL
           /\ U!markh(u).host = u.host /\ U!markh(u).port = u.port /\ U!markh(u).userinfo = u.userinfo
BY MarkGood DEF U!markh, SameRest, Good, Fields, NULL

LEMMA HostFields ==
    ASSUME p \in Nat, NEW u, Good(u), u.mark # NULL
    PROVE  /\ Good(U!save_host(u)) /\ SameRest(U!save_host(u), u) /\ U!save_host(u).mark = u.mark
           /\ U!save_host(u).host = <<u.mark, p>>
           /\ U!save_host(u).port = u.port /\ U!save_host(u).userinfo = u.userinfo
<1>1. Good(U!save_host(u))
    BY SaveGood
<1> QED
    BY <1>1 DEF U!save_host, SameRest, Good, Fields, NULL, U!NULL

LEMMA UserinfoFields ==
    ASSUME p \in Nat, NEW u, Good(u), u.mark # NULL
    PROVE  /\ Good(U!save_userinfo(u)) /\ SameRest(U!save_userinfo(u), u) /\ U!save_userinfo(u).mark = NULL
           /\ U!save_userinfo(u).userinfo = <<u.mark, p>>
           /\ U!save_userinfo(u).port = u.port /\ U!save_userinfo(u).host = u.host
<1>1. Good(U!save_userinfo(u))
    BY SaveGood
<1> QED
    BY <1>1 DEF U!save_userinfo, SameRest, Good, Fields, NULL, U!NULL

\* A port that has digits, and one that has none.
LEMMA PortFields ==
    ASSUME p \in Nat, NEW u, Good(u), u.mark # NULL
    PROVE  /\ Good(U!save_port(u)) /\ SameRest(U!save_port(u), u) /\ U!save_port(u).mark = NULL
           /\ U!save_port(u).port = IF u.mark # p THEN <<u.mark, p>> ELSE u.port
           /\ U!save_port(u).host = u.host /\ U!save_port(u).userinfo = u.userinfo
<1>1. Good(U!save_port(u))
    BY SaveGood
<1> QED
    BY <1>1 DEF U!save_port, SameRest, Good, Fields, NULL, U!NULL

\* save_host before the end of the authority, and markh for a path behind it.
LEMMA HostEnds ==
    ASSUME p \in Nat, abs \in BOOLEAN, NEW u, Good(u), u.mark # NULL
    PROVE  /\ Good(U!HostEnds(u)) /\ SameRest(U!HostEnds(u), u) /\ (abs => U!HostEnds(u).mark = p)
           /\ U!HostEnds(u).host = <<u.mark, p>>
           /\ U!HostEnds(u).port = u.port /\ U!HostEnds(u).userinfo = u.userinfo
<1>1. CASE abs
    BY <1>1, HostFields, MarkhFields DEF U!HostEnds, SameRest
<1>2. CASE ~abs
    BY <1>2, HostFields DEF U!HostEnds
<1> QED
    BY <1>1, <1>2

\* The same for the port.
LEMMA PortEnds ==
    ASSUME p \in Nat, abs \in BOOLEAN, NEW u, Good(u), u.mark # NULL
    PROVE  /\ Good(U!PortEnds(u)) /\ SameRest(U!PortEnds(u), u) /\ (abs => U!PortEnds(u).mark = p)
           /\ U!PortEnds(u).port = IF u.mark # p THEN <<u.mark, p>> ELSE u.port
           /\ U!PortEnds(u).host = u.host /\ U!PortEnds(u).userinfo = u.userinfo
<1>1. CASE abs
    BY <1>1, PortFields, MarkhFields DEF U!PortEnds, SameRest
<1>2. CASE ~abs
    BY <1>2, PortFields DEF U!PortEnds
<1> QED
    BY <1>1, <1>2

\* An empty port is not saved, and takes the mark with it.
LEMMA NoPort ==
    ASSUME p \in Nat, NEW u, Good(u)
    PROVE  /\ Good(U!NoPort(u)) /\ SameRest(U!NoPort(u), u) /\ U!NoPort(u).mark = NULL
           /\ U!NoPort(u).host = u.host /\ U!NoPort(u).port = u.port /\ U!NoPort(u).userinfo = u.userinfo
<1> DEFINE v == U!markh(u)
<1>1. Good(v) /\ SameRest(v, u) /\ v.mark = p /\ v.mark # NULL
      /\ v.host = u.host /\ v.port = u.port /\ v.userinfo = u.userinfo
    BY MarkhFields
<1>2. U!NoPort(u) = U!save_port(v)
    BY DEF U!NoPort
<1> HIDE DEF v
<1>3. /\ Good(U!save_port(v)) /\ SameRest(U!save_port(v), v) /\ U!save_port(v).mark = NULL
      /\ U!save_port(v).port = v.port /\ U!save_port(v).host = v.host /\ U!save_port(v).userinfo = v.userinfo
    BY <1>1, PortFields
<1> QED
    BY <1>1, <1>2, <1>3 DEF SameRest

\* The delimiters that are fixed in the authority.
SplitRest(d, e) == d.colon = e.colon /\ d.auth = e.auth /\ d.path = e.path /\ d.query = e.query /\ d.hash = e.hash

\* Its own delimiters.
LEMMA SplitColon ==
    ASSUME split \in Delimiters, p \in Nat, InAuthority, ~split.bracket, NEW d, d = U!SplitStep(split, ":")
    PROVE  /\ SplitRest(d, split) /\ d.port = p /\ d.at = split.at /\ ~d.bracket
           /\ d.usercolon = IF split.usercolon = NULL THEN p ELSE split.usercolon
<1>1. d = [split EXCEPT !.port = p, !.usercolon = IF @ = NULL THEN p ELSE @]
    BY SplitAuthority DEF InAuthority, NoTail, NULL
<1> QED
    BY <1>1 DEF SplitRest, Delimiters

LEMMA SplitAt ==
    ASSUME split \in Delimiters, p \in Nat, InAuthority, NEW d, d = U!SplitStep(split, "@")
    PROVE  /\ SplitRest(d, split) /\ d.port = NULL /\ d.at = p /\ d.bracket = split.bracket
           /\ d.usercolon = split.usercolon
<1>1. d = [split EXCEPT !.at = p, !.port = NULL]
    BY SplitAuthority DEF InAuthority, NoTail, NULL
<1> QED
    BY <1>1 DEF SplitRest, Delimiters

LEMMA SplitBracket ==
    ASSUME split \in Delimiters, p \in Nat, InAuthority, NEW c \in {"[", "]"}, NEW d, d = U!SplitStep(split, c)
    PROVE  /\ SplitRest(d, split) /\ d.port = split.port /\ d.at = split.at /\ d.bracket = (c = "[")
           /\ d.usercolon = split.usercolon
<1>1. split.auth # NULL /\ split.hash = NULL /\ split.query = NULL /\ split.path = NULL
    BY DEF InAuthority, NoTail, NULL, Delimiters, Pos
<1>2. CASE c = "["
    BY <1>1, <1>2, SplitAuthority DEF SplitRest, Delimiters
<1>3. CASE c = "]"
    BY <1>1, <1>3, SplitAuthority DEF SplitRest, Delimiters
<1> QED
    BY <1>2, <1>3

\* Other characters inside it.
LEMMA SplitInside ==
    ASSUME split \in Delimiters, NEW c \in U!regular \cup {"%"}
    PROVE  U!SplitStep(split, c) = split
BY SplitSame DEF U!regular, U!alpha, U!digit

\* The two halves of Port.
Port0 == U!In("port0") /\ (U!Leave(U!NoPort(m)) \/ \E c \in U!digit : U!Outside(c, "port", U!markh(m)))
Port == U!In("port") /\ (U!Leave(U!PortEnds(m)) \/ \E c \in U!digit : U!Outside(c, "port", m))

\* An empty authority.
LEMMA AuthorityEnds ==
    ASSUME UriInv, ~m.threw, AtAuthority
    PROVE  Ends(U!HostEnds(U!markh(m)))
<1> USE DEF NULL
<1>1. Good(m) /\ split \in Delimiters /\ p \in Nat /\ abs \in BOOLEAN
    BY BoundsAssumption DEF UriInv, UriTypes, Good
<1>2. /\ Good(U!HostEnds(U!markh(m))) /\ SameRest(U!HostEnds(U!markh(m)), m) /\ (abs => U!HostEnds(U!markh(m)).mark = p)
      /\ U!HostEnds(U!markh(m)).host = <<p, p>> /\ U!HostEnds(U!markh(m)).port = m.port
      /\ U!HostEnds(U!markh(m)).userinfo = m.userinfo
    BY <1>1, MarkhFields, HostEnds DEF AtAuthority, NoColon, User, InAuthority, SameRest, Delimiters, Pos
<1>3. AuthorityCut(U!HostEnds(U!markh(m)), p) /\ SchemeCut(U!HostEnds(U!markh(m)))
    BY <1>1, <1>2
    DEF AtAuthority, NoColon, User, InAuthority, NoTail, SchemeCut, SameRest, AuthorityCut, UserinfoCut, UserKept,
        First,
        Delimiters, Pos
<1> QED
    BY <1>1, <1>2, <1>3 DEF AtAuthority, NoColon, User, InAuthority, NoTail, SchemeCut, Ends, SameRest

\* Behind "//".
LEMMA AuthorityStep ==
    ASSUME UriInv, U!Authority
    PROVE  UriInv'
<1> USE DEF NULL
<1>1. result = "none" /\ ~m.threw /\ cs = "authority"
    BY DEF U!Authority, U!Leave, U!QueryOrFragment, U!In, U!Outside, U!Reads
<1>2. AtAuthority /\ Good(m) /\ split \in Delimiters /\ p \in Nat
    BY <1>1, BoundsAssumption DEF UriInv, UriTypes, At, Good
<1>3. ASSUME NEW c \in U!regular \cup {"%"}, U!Outside(c, "userhost", U!markh(m))
      PROVE  UriInv'
    <2>1. /\ p' = p + 1 /\ m' = U!markh(m) /\ split' = U!SplitStep(split, c) /\ abs' = abs
          /\ userdigit' = (userdigit \/ U!PortLike(c))
        BY <1>3, Here DEF U!Outside
    <2>5. ~userdigit'
        BY <1>2, <2>1, Zenon DEF AtAuthority, NoColon, U!PortLike, U!NULL
    <2>2. split' = split
        BY <1>2, <1>3, <2>1, SplitInside
    <2>3. /\ Good(U!markh(m)) /\ SameRest(U!markh(m), m) /\ U!markh(m).mark = p
          /\ U!markh(m).host = m.host /\ U!markh(m).port = m.port /\ U!markh(m).userinfo = m.userinfo
        BY <1>2, MarkhFields DEF AtAuthority, NoColon, User, InAuthority, SameRest, Delimiters, Pos
    <2>4. AtUserHost'
        BY <1>2, <2>1, <2>3, <2>2, <2>5
        DEF AtAuthority, NoColon, User, InAuthority, NoTail, SchemeCut, AtUserHost, NoColon, SameRest, Delimiters, Pos
    <2> QED
        BY <1>3, <1>2, <2>3, <2>4, OutsideStep DEF At, UriRegion, Escapes
<1>4. ASSUME U!Outside(":", "colon", U!save_host(U!markh(m)))
      PROVE  UriInv'
    <2>1. /\ p' = p + 1 /\ m' = U!save_host(U!markh(m)) /\ split' = U!SplitStep(split, ":")
          /\ abs' = abs /\ userdigit' = userdigit
        BY <1>4, Here DEF U!Outside, U!digit
    <2>2. SplitRest(split', split) /\ split'.port = p /\ split'.at = split.at /\ ~split'.bracket
          /\ split'.usercolon = IF split.usercolon = NULL THEN p ELSE split.usercolon
        BY <1>2, <1>4, <2>1, SplitColon DEF AtAuthority, User
    <2>3. /\ Good(U!save_host(U!markh(m))) /\ SameRest(U!save_host(U!markh(m)), m) /\ U!save_host(U!markh(m)).mark = p
          /\ U!save_host(U!markh(m)).host = <<p, p>> /\ U!save_host(U!markh(m)).port = m.port
          /\ U!save_host(U!markh(m)).userinfo = m.userinfo
        BY <1>2, MarkhFields, HostFields DEF AtAuthority, NoColon, User, InAuthority, SameRest, Delimiters, Pos
    <2>4. AtColon'
        BY <1>2, <2>1, <2>3, <2>2
        DEF AtAuthority, NoColon, User, InAuthority, NoTail, SchemeCut, AtColon, SameRest, SplitRest, Delimiters, Pos
    <2> QED
        BY <1>4, <1>2, <2>3, <2>4, OutsideStep DEF At, UriRegion
<1>5. ASSUME U!Outside("@", "host", U!save_userinfo(U!markh(m)))
      PROVE  UriInv'
    <2>1. /\ p' = p + 1 /\ m' = U!save_userinfo(U!markh(m)) /\ split' = U!SplitStep(split, "@")
          /\ abs' = abs /\ userdigit' = userdigit
        BY <1>5, Here DEF U!Outside, U!digit
    <2>2. SplitRest(split', split) /\ split'.port = NULL /\ split'.at = p /\ ~split'.bracket
          /\ split'.usercolon = split.usercolon
        BY <1>2, <1>5, <2>1, SplitAt DEF AtAuthority, User
    <2>3. /\ Good(U!save_userinfo(U!markh(m))) /\ SameRest(U!save_userinfo(U!markh(m)), m)
          /\ U!save_userinfo(U!markh(m)).mark = NULL
          /\ U!save_userinfo(U!markh(m)).host = m.host /\ U!save_userinfo(U!markh(m)).port = m.port
          /\ U!save_userinfo(U!markh(m)).userinfo = <<p, p>>
        BY <1>2, MarkhFields, UserinfoFields DEF AtAuthority, NoColon, User, InAuthority, SameRest, Delimiters, Pos
    <2>4. AtHost'
        BY <1>2, <2>1, <2>3, <2>2
        DEF AtAuthority, NoColon, User, InAuthority, NoTail, SchemeCut, AtHost, Server, UserinfoCut, UserKept,
            First, SameRest,
            SplitRest, Delimiters, Pos
    <2> QED
        BY <1>5, <1>2, <2>3, <2>4, OutsideStep DEF At, UriRegion
<1>6. ASSUME U!Reads("[", "literal", U!markh(m)), lit' = U!Lit0, UNCHANGED abs
      PROVE  UriInv'
    <2>1. UserKept /\ p' = p + 1 /\ m' = U!markh(m) /\ split' = U!SplitStep(split, "[") /\ abs' = abs
        BY <1>6, Here
    <2>2. SplitRest(split', split) /\ split'.port = split.port /\ split'.at = split.at /\ split'.bracket
          /\ split'.usercolon = split.usercolon
        BY <1>2, <1>6, <2>1, SplitBracket DEF AtAuthority, User
    <2>3. /\ Good(U!markh(m)) /\ SameRest(U!markh(m), m) /\ U!markh(m).mark = p
          /\ U!markh(m).host = m.host /\ U!markh(m).port = m.port /\ U!markh(m).userinfo = m.userinfo
        BY <1>2, MarkhFields DEF AtAuthority, NoColon, User, InAuthority, SameRest, Delimiters, Pos
    <2>4. AtLiteral'
        <3>1. split.auth \in Int
            BY <1>2 DEF Delimiters, Pos
        <3>2. InAuthority'
            BY <1>2, <2>1, <2>2, <2>3, <3>1 DEF AtAuthority, User, InAuthority, NoTail, SchemeCut, SameRest, SplitRest
        <3>3. UserinfoCut(m)' /\ m'.port = <<>> /\ m'.mark = First'
            BY <1>2, <2>1, <2>2, <2>3 DEF AtAuthority, User, UserinfoCut, First, SplitRest
        <3> QED
            BY <1>2, <2>2, <3>2, <3>3 DEF AtAuthority, NoColon, AtLiteral, Server
    <2>5. LiteralTypes' /\ abs' \in BOOLEAN
        BY <1>6 DEF UriInv, UriTypes, LiteralTypes, U!Lit0, U!NULL
    <2>6. At("literal")'
        BY <2>4 DEF At
    <2> QED
        BY <1>6, <2>3, <2>5, <2>6, Step DEF UriRegion, Good
<1>7. ASSUME U!Leave(U!HostEnds(U!markh(m)))
      PROVE  UriInv'
    BY <1>7, <1>1, <1>2, AuthorityEnds, LeaveStep
<1> QED
    BY <1>3, <1>4, <1>5, <1>6, <1>7 DEF U!Authority

\* It was the host.
LEMMA UserHostEnds ==
    ASSUME UriInv, ~m.threw, AtUserHost
    PROVE  Ends(U!HostEnds(m))
<1> USE DEF NULL
<1>1. Good(m) /\ split \in Delimiters /\ p \in Nat /\ abs \in BOOLEAN
    BY BoundsAssumption DEF UriInv, UriTypes, Good
<1>2. /\ Good(U!HostEnds(m)) /\ SameRest(U!HostEnds(m), m) /\ (abs => U!HostEnds(m).mark = p)
      /\ U!HostEnds(m).host = <<m.mark, p>> /\ U!HostEnds(m).port = m.port /\ U!HostEnds(m).userinfo = m.userinfo
    BY <1>1, HostEnds DEF AtUserHost, NoColon, User, InAuthority, SameRest, Delimiters, Pos
<1>3. AuthorityCut(U!HostEnds(m), p) /\ SchemeCut(U!HostEnds(m))
    BY <1>1, <1>2
    DEF AtUserHost, NoColon, User, InAuthority, NoTail, SchemeCut, SameRest, AuthorityCut, UserinfoCut, UserKept,
        First,
        Delimiters, Pos
<1> QED
    BY <1>1, <1>2, <1>3 DEF AtUserHost, NoColon, User, InAuthority, NoTail, SchemeCut, Ends, SameRest

\* A user name or a host.
LEMMA UserHostStep ==
    ASSUME UriInv, U!UserHost
    PROVE  UriInv'
<1> USE DEF NULL
<1>1. result = "none" /\ ~m.threw /\ cs = "userhost"
    BY DEF U!UserHost, U!Leave, U!QueryOrFragment, U!In, U!Outside, U!Reads
<1>2. AtUserHost /\ Good(m) /\ split \in Delimiters /\ p \in Nat
    BY <1>1, BoundsAssumption DEF UriInv, UriTypes, At, Good
<1>3. ASSUME NEW c \in U!regular \cup {"%"}, U!Outside(c, "userhost", m)
      PROVE  UriInv'
    <2>1. /\ p' = p + 1 /\ m' = m /\ split' = U!SplitStep(split, c) /\ abs' = abs
          /\ userdigit' = (userdigit \/ U!PortLike(c))
        BY <1>3, Here DEF U!Outside
    <2>5. ~userdigit'
        BY <1>2, <2>1, Zenon DEF AtUserHost, NoColon, U!PortLike, U!NULL
    <2>2. split' = split
        BY <1>2, <1>3, <2>1, SplitInside
    <2>3. Good(m)
        BY <1>2
    <2>4. AtUserHost'
        BY <1>2, <2>1, <2>3, <2>2, <2>5 DEF AtUserHost, NoColon, User, InAuthority, NoTail, SchemeCut, Delimiters, Pos
    <2> QED
        BY <1>3, <1>2, <2>3, <2>4, OutsideStep DEF At, UriRegion, Escapes
<1>4. ASSUME U!Outside(":", "colon", U!save_host(m))
      PROVE  UriInv'
    <2>1. /\ p' = p + 1 /\ m' = U!save_host(m) /\ split' = U!SplitStep(split, ":")
          /\ abs' = abs /\ userdigit' = userdigit
        BY <1>4, Here DEF U!Outside, U!digit
    <2>2. SplitRest(split', split) /\ split'.port = p /\ split'.at = split.at /\ ~split'.bracket
          /\ split'.usercolon = IF split.usercolon = NULL THEN p ELSE split.usercolon
        BY <1>2, <1>4, <2>1, SplitColon DEF AtUserHost, User
    <2>3. /\ Good(U!save_host(m)) /\ SameRest(U!save_host(m), m) /\ U!save_host(m).mark = m.mark
          /\ U!save_host(m).host = <<m.mark, p>> /\ U!save_host(m).port = m.port /\ U!save_host(m).userinfo = m.userinfo
        BY <1>2, HostFields DEF AtUserHost, NoColon, User, InAuthority, SameRest, Delimiters, Pos
    <2>4. AtColon'
        BY <1>2, <2>1, <2>3, <2>2
        DEF AtUserHost, NoColon, User, InAuthority, NoTail, SchemeCut, AtColon, SameRest, SplitRest, Delimiters, Pos
    <2> QED
        BY <1>4, <1>2, <2>3, <2>4, OutsideStep DEF At, UriRegion
<1>5. ASSUME U!Outside("@", "host", U!save_userinfo(m))
      PROVE  UriInv'
    <2>1. /\ p' = p + 1 /\ m' = U!save_userinfo(m) /\ split' = U!SplitStep(split, "@")
          /\ abs' = abs /\ userdigit' = userdigit
        BY <1>5, Here DEF U!Outside, U!digit
    <2>2. SplitRest(split', split) /\ split'.port = NULL /\ split'.at = p /\ ~split'.bracket
          /\ split'.usercolon = split.usercolon
        BY <1>2, <1>5, <2>1, SplitAt DEF AtUserHost, User
    <2>3. /\ Good(U!save_userinfo(m)) /\ SameRest(U!save_userinfo(m), m) /\ U!save_userinfo(m).mark = NULL
          /\ U!save_userinfo(m).host = m.host /\ U!save_userinfo(m).port = m.port
          /\ U!save_userinfo(m).userinfo = <<m.mark, p>>
        BY <1>2, UserinfoFields DEF AtUserHost, NoColon, User, InAuthority, SameRest, Delimiters, Pos
    <2>4. AtHost'
        BY <1>2, <2>1, <2>3, <2>2
        DEF AtUserHost, NoColon, User, InAuthority, NoTail, SchemeCut, AtHost, Server, UserinfoCut, UserKept,
            First, SameRest,
            SplitRest, Delimiters, Pos
    <2> QED
        BY <1>5, <1>2, <2>3, <2>4, OutsideStep DEF At, UriRegion
<1>6. ASSUME U!Leave(U!HostEnds(m))
      PROVE  UriInv'
    BY <1>6, <1>1, <1>2, UserHostEnds, LeaveStep
<1> QED
    BY <1>3, <1>4, <1>5, <1>6 DEF U!UserHost

\* The colon had no port behind it.
LEMMA UserColonEnds ==
    ASSUME UriInv, ~m.threw, AtColon
    PROVE  Ends(U!NoPort(m))
<1> USE DEF NULL
<1>1. Good(m) /\ split \in Delimiters /\ p \in Nat /\ abs \in BOOLEAN
    BY BoundsAssumption DEF UriInv, UriTypes, Good
<1>2. /\ Good(U!NoPort(m)) /\ SameRest(U!NoPort(m), m) /\ U!NoPort(m).mark = NULL
      /\ U!NoPort(m).host = m.host /\ U!NoPort(m).port = m.port /\ U!NoPort(m).userinfo = m.userinfo
    BY <1>1, NoPort
<1>3. AuthorityCut(U!NoPort(m), p) /\ SchemeCut(U!NoPort(m))
    BY <1>1, <1>2
    DEF AtColon, User, InAuthority, NoTail, SchemeCut, SameRest, AuthorityCut, UserinfoCut, UserKept, First,
        Delimiters, Pos
<1> QED
    BY <1>1, <1>2, <1>3 DEF AtColon, User, InAuthority, NoTail, SchemeCut, Ends, SameRest

\* Behind the first colon.
LEMMA UserColonStep ==
    ASSUME UriInv, U!UserColon
    PROVE  UriInv'
<1> USE DEF NULL
<1>1. result = "none" /\ ~m.threw /\ cs = "colon"
    BY DEF U!UserColon, U!Leave, U!QueryOrFragment, U!In, U!Outside, U!Reads
<1>2. AtColon /\ Good(m) /\ split \in Delimiters /\ p \in Nat
    BY <1>1, BoundsAssumption DEF UriInv, UriTypes, At, Good
<1>3. ASSUME NEW c \in (U!regular \ U!digit) \cup {":", "%"}, U!Outside(c, "userinfo", m)
      PROVE  UriInv'
    <2>1. /\ p' = p + 1 /\ m' = m /\ split' = U!SplitStep(split, c) /\ abs' = abs
          /\ userdigit' = userdigit
        BY <1>3, Here DEF U!Outside, U!digit
    <2>2. \/ split' = split
          \/ /\ SplitRest(split', split) /\ split'.port = p /\ split'.at = split.at /\ ~split'.bracket
             /\ split'.usercolon = IF split.usercolon = NULL THEN p ELSE split.usercolon
        BY <1>2, <1>3, <2>1, SplitInside, SplitColon DEF AtColon, User
    <2>3. AtUserinfo'
        BY <1>2, <2>1, <2>2
        DEF AtColon, User, InAuthority, NoTail, SchemeCut, AtUserinfo, SplitRest, Delimiters, Pos
    <2> QED
        BY <1>3, <1>2, <2>3, OutsideStep DEF At, UriRegion, Escapes
<1>4. ASSUME NEW c \in U!digit, U!Outside(c, "userport", U!markh(m))
      PROVE  UriInv'
    <2>1. /\ p' = p + 1 /\ m' = U!markh(m) /\ split' = U!SplitStep(split, c) /\ abs' = abs
          /\ userdigit' = (userdigit \/ U!PortLike(c))
        BY <1>4, Here DEF U!Outside
    <2>5. userdigit'
        <3>1. U!PortLike(c)
            BY <1>2, <1>4 DEF AtColon, User, U!PortLike, U!NULL, Delimiters, Pos
        <3> QED
            BY <2>1, <3>1, Zenon
    <2>2. split' = split
        BY <1>2, <1>4, <2>1, SplitSame DEF U!digit
    <2>3. /\ Good(U!markh(m)) /\ SameRest(U!markh(m), m) /\ U!markh(m).mark = p
          /\ U!markh(m).host = m.host /\ U!markh(m).port = m.port /\ U!markh(m).userinfo = m.userinfo
        BY <1>2, MarkhFields DEF AtColon, User, InAuthority, SameRest, Delimiters, Pos
    <2>4. AtUserPort'
        BY <1>2, <2>1, <2>3, <2>2, <2>5
        DEF AtColon, User, InAuthority, NoTail, SchemeCut, AtUserPort, SameRest, Delimiters, Pos
    <2> QED
        BY <1>4, <1>2, <2>3, <2>4, OutsideStep DEF At, UriRegion, Escapes, U!digit
<1>5. ASSUME U!Outside("@", "host", U!save_userinfo(m))
      PROVE  UriInv'
    <2>1. /\ p' = p + 1 /\ m' = U!save_userinfo(m) /\ split' = U!SplitStep(split, "@")
          /\ abs' = abs /\ userdigit' = userdigit
        BY <1>5, Here DEF U!Outside, U!digit
    <2>2. SplitRest(split', split) /\ split'.port = NULL /\ split'.at = p /\ ~split'.bracket
          /\ split'.usercolon = split.usercolon
        BY <1>2, <1>5, <2>1, SplitAt DEF AtColon, User
    <2>3. /\ Good(U!save_userinfo(m)) /\ SameRest(U!save_userinfo(m), m) /\ U!save_userinfo(m).mark = NULL
          /\ U!save_userinfo(m).host = m.host /\ U!save_userinfo(m).port = m.port
          /\ U!save_userinfo(m).userinfo = <<m.mark, p>>
        BY <1>2, UserinfoFields DEF AtColon, User, InAuthority, SameRest, Delimiters, Pos
    <2>4. AtHost'
        <3>3. split.auth \in Int
            BY <1>2 DEF Delimiters, Pos
        <3>1. InAuthority'
            BY <1>2, <2>1, <2>2, <2>3, <3>3 DEF AtColon, User, InAuthority, NoTail, SchemeCut, SameRest, SplitRest
        <3>2. UserinfoCut(m)' /\ m'.port = <<>>
            BY <1>2, <2>1, <2>2, <2>3 DEF AtColon, User, UserinfoCut, UserKept, SplitRest
        <3> QED
            BY <1>2, <2>1, <2>2, <3>1, <3>2 DEF AtHost, Server
    <2> QED
        BY <1>5, <1>2, <2>3, <2>4, OutsideStep DEF At, UriRegion
<1>6. ASSUME U!Leave(U!NoPort(m))
      PROVE  UriInv'
    BY <1>6, <1>1, <1>2, UserColonEnds, LeaveStep
<1> QED
    BY <1>3, <1>4, <1>5, <1>6 DEF U!UserColon

\* It was the port.
LEMMA UserPortEnds ==
    ASSUME UriInv, ~m.threw, AtUserPort
    PROVE  Ends(U!PortEnds(m))
<1> USE DEF NULL
<1>1. Good(m) /\ split \in Delimiters /\ p \in Nat /\ abs \in BOOLEAN
    BY BoundsAssumption DEF UriInv, UriTypes, Good
<1>2. /\ Good(U!PortEnds(m)) /\ SameRest(U!PortEnds(m), m) /\ (abs => U!PortEnds(m).mark = p)
      /\ U!PortEnds(m).host = m.host /\ U!PortEnds(m).port = (IF m.mark # p THEN <<m.mark, p>> ELSE m.port)
      /\ U!PortEnds(m).userinfo = m.userinfo
    BY <1>1, PortEnds DEF AtUserPort, User, InAuthority, SameRest, Delimiters, Pos
<1>3. AuthorityCut(U!PortEnds(m), p) /\ SchemeCut(U!PortEnds(m))
    BY <1>1, <1>2
    DEF AtUserPort, User, InAuthority, NoTail, SchemeCut, SameRest, AuthorityCut, UserinfoCut, UserKept, First,
        Delimiters, Pos
<1> QED
    BY <1>1, <1>2, <1>3 DEF AtUserPort, User, InAuthority, NoTail, SchemeCut, Ends, SameRest

\* A password or a port.
LEMMA UserPortStep ==
    ASSUME UriInv, U!UserPort
    PROVE  UriInv'
<1> USE DEF NULL
<1>1. result = "none" /\ ~m.threw /\ cs = "userport"
    BY DEF U!UserPort, U!Leave, U!QueryOrFragment, U!In, U!Outside, U!Reads
<1>2. AtUserPort /\ Good(m) /\ split \in Delimiters /\ p \in Nat
    BY <1>1, BoundsAssumption DEF UriInv, UriTypes, At, Good
<1>3. ASSUME NEW c \in U!digit, U!Outside(c, "userport", m)
      PROVE  UriInv'
    <2>1. /\ p' = p + 1 /\ m' = m /\ split' = U!SplitStep(split, c) /\ abs' = abs
          /\ userdigit' = (userdigit \/ U!PortLike(c))
        BY <1>3, Here DEF U!Outside
    <2>5. userdigit'
        BY <1>2, <2>1, Zenon DEF AtUserPort
    <2>2. split' = split
        BY <1>2, <1>3, <2>1, SplitSame DEF U!digit
    <2>3. Good(m)
        BY <1>2
    <2>4. AtUserPort'
        BY <1>2, <2>1, <2>3, <2>2, <2>5 DEF AtUserPort, User, InAuthority, NoTail, SchemeCut, Delimiters, Pos
    <2> QED
        BY <1>3, <1>2, <2>3, <2>4, OutsideStep DEF At, UriRegion, Escapes, U!digit
<1>4. ASSUME NEW c \in (U!regular \ U!digit) \cup {":", "%"}, U!Outside(c, "userinfo", m)
      PROVE  UriInv'
    <2>1. /\ p' = p + 1 /\ m' = m /\ split' = U!SplitStep(split, c) /\ abs' = abs
          /\ userdigit' = userdigit
        BY <1>4, Here DEF U!Outside, U!digit
    <2>2. \/ split' = split
          \/ /\ SplitRest(split', split) /\ split'.port = p /\ split'.at = split.at /\ ~split'.bracket
             /\ split'.usercolon = IF split.usercolon = NULL THEN p ELSE split.usercolon
        BY <1>2, <1>4, <2>1, SplitInside, SplitColon DEF AtUserPort, User
    <2>3. AtUserinfo'
        BY <1>2, <2>1, <2>2
        DEF AtUserPort, User, InAuthority, NoTail, SchemeCut, AtUserinfo, SplitRest, Delimiters, Pos
    <2> QED
        BY <1>4, <1>2, <2>3, OutsideStep DEF At, UriRegion, Escapes
<1>5. ASSUME U!Outside("@", "host", U!save_userinfo(m))
      PROVE  UriInv'
    <2>1. /\ p' = p + 1 /\ m' = U!save_userinfo(m) /\ split' = U!SplitStep(split, "@")
          /\ abs' = abs /\ userdigit' = userdigit
        BY <1>5, Here DEF U!Outside, U!digit
    <2>2. SplitRest(split', split) /\ split'.port = NULL /\ split'.at = p /\ ~split'.bracket
          /\ split'.usercolon = split.usercolon
        BY <1>2, <1>5, <2>1, SplitAt DEF AtUserPort, User
    <2>3. /\ Good(U!save_userinfo(m)) /\ SameRest(U!save_userinfo(m), m) /\ U!save_userinfo(m).mark = NULL
          /\ U!save_userinfo(m).host = m.host /\ U!save_userinfo(m).port = m.port
          /\ U!save_userinfo(m).userinfo = <<m.mark, p>>
        BY <1>2, UserinfoFields DEF AtUserPort, User, InAuthority, SameRest, Delimiters, Pos
    <2>4. AtHost'
        BY <1>2, <2>1, <2>3, <2>2
        DEF AtUserPort, User, InAuthority, NoTail, SchemeCut, AtHost, Server, UserinfoCut, UserKept, First, SameRest,
            SplitRest, Delimiters, Pos
    <2> QED
        BY <1>5, <1>2, <2>3, <2>4, OutsideStep DEF At, UriRegion
<1>6. ASSUME U!Leave(U!PortEnds(m))
      PROVE  UriInv'
    BY <1>6, <1>1, <1>2, UserPortEnds, LeaveStep
<1> QED
    BY <1>3, <1>4, <1>5, <1>6 DEF U!UserPort

\* A userinfo.
LEMMA UserinfoStep ==
    ASSUME UriInv, U!Userinfo
    PROVE  UriInv'
<1> USE DEF NULL
<1>1. result = "none" /\ ~m.threw /\ cs = "userinfo"
    BY DEF U!Userinfo, U!In, U!Outside, U!Reads
<1>2. AtUserinfo /\ Good(m) /\ split \in Delimiters /\ p \in Nat
    BY <1>1, BoundsAssumption DEF UriInv, UriTypes, At, Good
<1>3. ASSUME NEW c \in U!regular \cup {":", "%"}, U!Outside(c, "userinfo", m)
      PROVE  UriInv'
    <2>1. /\ p' = p + 1 /\ m' = m /\ split' = U!SplitStep(split, c) /\ abs' = abs
          /\ userdigit' = (userdigit \/ U!PortLike(c))
        BY <1>3, Here DEF U!Outside
    <2>4. userdigit' = userdigit
        <3>1. ~U!PortLike(c) /\ userdigit \in BOOLEAN
            BY <1>2 DEF AtUserinfo, U!PortLike, UriInv, UriTypes, Delimiters, Pos
        <3> QED
            BY <2>1, <3>1, Zenon
    <2>2. \/ split' = split
          \/ /\ SplitRest(split', split) /\ split'.port = p /\ split'.at = split.at /\ ~split'.bracket
             /\ split'.usercolon = IF split.usercolon = NULL THEN p ELSE split.usercolon
        BY <1>2, <1>3, <2>1, SplitInside, SplitColon DEF AtUserinfo, User
    <2>3. AtUserinfo'
        BY <1>2, <2>1, <2>2, <2>4 DEF AtUserinfo, User, InAuthority, NoTail, SchemeCut, SplitRest, Delimiters, Pos
    <2> QED
        BY <1>3, <1>2, <2>3, OutsideStep DEF At, UriRegion, Escapes
<1>4. ASSUME U!Outside("@", "host", U!save_userinfo(m))
      PROVE  UriInv'
    <2>1. /\ p' = p + 1 /\ m' = U!save_userinfo(m) /\ split' = U!SplitStep(split, "@")
          /\ abs' = abs /\ userdigit' = userdigit
        BY <1>4, Here DEF U!Outside, U!digit
    <2>2. SplitRest(split', split) /\ split'.port = NULL /\ split'.at = p /\ ~split'.bracket
          /\ split'.usercolon = split.usercolon
        BY <1>2, <1>4, <2>1, SplitAt DEF AtUserinfo, User
    <2>3. /\ Good(U!save_userinfo(m)) /\ SameRest(U!save_userinfo(m), m) /\ U!save_userinfo(m).mark = NULL
          /\ U!save_userinfo(m).host = m.host /\ U!save_userinfo(m).port = m.port
          /\ U!save_userinfo(m).userinfo = <<m.mark, p>>
        BY <1>2, UserinfoFields DEF AtUserinfo, User, InAuthority, SameRest, Delimiters, Pos
    <2>4. AtHost'
        BY <1>2, <2>1, <2>3, <2>2
        DEF AtUserinfo, User, InAuthority, NoTail, SchemeCut, AtHost, Server, UserinfoCut, UserKept, First, SameRest,
            SplitRest, Delimiters, Pos
    <2> QED
        BY <1>4, <1>2, <2>3, <2>4, OutsideStep DEF At, UriRegion
<1> QED
    BY <1>3, <1>4 DEF U!Userinfo

\* An empty host behind "@".
LEMMA HostNone ==
    ASSUME UriInv, ~m.threw, AtHost
    PROVE  Ends(U!HostEnds(U!markh(m)))
<1> USE DEF NULL
<1>1. Good(m) /\ split \in Delimiters /\ p \in Nat /\ abs \in BOOLEAN
    BY BoundsAssumption DEF UriInv, UriTypes, Good
<1>2. /\ Good(U!HostEnds(U!markh(m))) /\ SameRest(U!HostEnds(U!markh(m)), m) /\ (abs => U!HostEnds(U!markh(m)).mark = p)
      /\ U!HostEnds(U!markh(m)).host = <<p, p>> /\ U!HostEnds(U!markh(m)).port = m.port
      /\ U!HostEnds(U!markh(m)).userinfo = m.userinfo
    BY <1>1, MarkhFields, HostEnds DEF AtHost, Server, InAuthority, SameRest, Delimiters, Pos, First
<1>3. AuthorityCut(U!HostEnds(U!markh(m)), p) /\ SchemeCut(U!HostEnds(U!markh(m)))
    BY <1>1, <1>2
    DEF AtHost, Server, UserinfoCut, UserKept, First, InAuthority, NoTail, SchemeCut, SameRest, AuthorityCut,
        Delimiters, Pos
<1> QED
    BY <1>1, <1>2, <1>3
    DEF AtHost, Server, UserinfoCut, UserKept, First, InAuthority, NoTail, SchemeCut, Ends, SameRest

\* Behind "@".
LEMMA HostStep ==
    ASSUME UriInv, U!Host
    PROVE  UriInv'
<1> USE DEF NULL
<1>1. result = "none" /\ ~m.threw /\ cs = "host"
    BY DEF U!Host, U!Leave, U!QueryOrFragment, U!In, U!Outside, U!Reads
<1>2. AtHost /\ Good(m) /\ split \in Delimiters /\ p \in Nat
    BY <1>1, BoundsAssumption DEF UriInv, UriTypes, At, Good
<1>3. ASSUME NEW c \in U!regular \cup {"%"}, U!Outside(c, "regname", U!markh(m))
      PROVE  UriInv'
    <2>1. UserKept /\ p' = p + 1 /\ m' = U!markh(m) /\ split' = U!SplitStep(split, c) /\ abs' = abs
        BY <1>3, Here DEF U!Outside
    <2>2. split' = split
        BY <1>2, <1>3, <2>1, SplitInside
    <2>3. /\ Good(U!markh(m)) /\ SameRest(U!markh(m), m) /\ U!markh(m).mark = p
          /\ U!markh(m).host = m.host /\ U!markh(m).port = m.port /\ U!markh(m).userinfo = m.userinfo
        BY <1>2, MarkhFields DEF AtHost, Server, InAuthority, SameRest, Delimiters, Pos, First
    <2>4. AtRegName'
        BY <1>2, <2>1, <2>3, <2>2
        DEF AtHost, Server, UserinfoCut, UserKept, First, InAuthority, NoTail, SchemeCut, AtRegName, SameRest,
            Delimiters, Pos
    <2> QED
        BY <1>3, <1>2, <2>3, <2>4, OutsideStep DEF At, UriRegion, Escapes
<1>4. ASSUME U!Outside(":", "port0", U!save_host(U!markh(m)))
      PROVE  UriInv'
    <2>1. /\ p' = p + 1 /\ m' = U!save_host(U!markh(m)) /\ split' = U!SplitStep(split, ":")
          /\ abs' = abs /\ userdigit' = userdigit
        BY <1>4, Here DEF U!Outside, U!digit
    <2>2. SplitRest(split', split) /\ split'.port = p /\ split'.at = split.at /\ ~split'.bracket
          /\ split'.usercolon = IF split.usercolon = NULL THEN p ELSE split.usercolon
        BY <1>2, <1>4, <2>1, SplitColon DEF AtHost, Server
    <2>3. /\ Good(U!save_host(U!markh(m))) /\ SameRest(U!save_host(U!markh(m)), m) /\ U!save_host(U!markh(m)).mark = p
          /\ U!save_host(U!markh(m)).host = <<p, p>> /\ U!save_host(U!markh(m)).port = m.port
          /\ U!save_host(U!markh(m)).userinfo = m.userinfo
        BY <1>2, MarkhFields, HostFields DEF AtHost, Server, InAuthority, SameRest, Delimiters, Pos, First
    <2>4. AtPort0'
        BY <1>2, <2>1, <2>3, <2>2
        DEF AtHost, Server, UserinfoCut, UserKept, First, InAuthority, NoTail, SchemeCut, AtPort0, SameRest,
            SplitRest, Delimiters, Pos
    <2> QED
        BY <1>4, <1>2, <2>3, <2>4, OutsideStep DEF At, UriRegion
<1>5. ASSUME U!Reads("[", "literal", U!markh(m)), lit' = U!Lit0, UNCHANGED abs
      PROVE  UriInv'
    <2>1. UserKept /\ p' = p + 1 /\ m' = U!markh(m) /\ split' = U!SplitStep(split, "[") /\ abs' = abs
        BY <1>5, Here
    <2>2. SplitRest(split', split) /\ split'.port = split.port /\ split'.at = split.at /\ split'.bracket
          /\ split'.usercolon = split.usercolon
        BY <1>2, <1>5, <2>1, SplitBracket DEF AtHost, Server
    <2>3. /\ Good(U!markh(m)) /\ SameRest(U!markh(m), m) /\ U!markh(m).mark = p
          /\ U!markh(m).host = m.host /\ U!markh(m).port = m.port /\ U!markh(m).userinfo = m.userinfo
        BY <1>2, MarkhFields DEF AtHost, Server, InAuthority, SameRest, Delimiters, Pos, First
    <2>4. AtLiteral'
        BY <1>2, <2>1, <2>3, <2>2
        DEF AtHost, Server, UserinfoCut, UserKept, First, InAuthority, NoTail, SchemeCut, AtLiteral, SameRest,
            SplitRest, Delimiters, Pos
    <2>5. LiteralTypes' /\ abs' \in BOOLEAN
        BY <1>5 DEF UriInv, UriTypes, LiteralTypes, U!Lit0, U!NULL
    <2>6. At("literal")'
        BY <2>4 DEF At
    <2> QED
        BY <1>5, <2>3, <2>5, <2>6, Step DEF UriRegion, Good
<1>6. ASSUME U!Leave(U!HostEnds(U!markh(m)))
      PROVE  UriInv'
    BY <1>6, <1>1, <1>2, HostNone, LeaveStep
<1> QED
    BY <1>3, <1>4, <1>5, <1>6 DEF U!Host

\* A host without a port.
LEMMA RegNameEnds ==
    ASSUME UriInv, ~m.threw, AtRegName
    PROVE  Ends(U!HostEnds(m))
<1> USE DEF NULL
<1>1. Good(m) /\ split \in Delimiters /\ p \in Nat /\ abs \in BOOLEAN
    BY BoundsAssumption DEF UriInv, UriTypes, Good
<1>2. /\ Good(U!HostEnds(m)) /\ SameRest(U!HostEnds(m), m) /\ (abs => U!HostEnds(m).mark = p)
      /\ U!HostEnds(m).host = <<m.mark, p>> /\ U!HostEnds(m).port = m.port /\ U!HostEnds(m).userinfo = m.userinfo
    BY <1>1, HostEnds DEF AtRegName, Server, InAuthority, SameRest, Delimiters, Pos, First
<1>3. AuthorityCut(U!HostEnds(m), p) /\ SchemeCut(U!HostEnds(m))
    BY <1>1, <1>2
    DEF AtRegName, Server, UserinfoCut, UserKept, First, InAuthority, NoTail, SchemeCut, SameRest, AuthorityCut,
        Delimiters, Pos
<1> QED
    BY <1>1, <1>2, <1>3
    DEF AtRegName, Server, UserinfoCut, UserKept, First, InAuthority, NoTail, SchemeCut, Ends, SameRest

\* A registered name or an IPv4 address.
LEMMA RegNameStep ==
    ASSUME UriInv, U!RegName
    PROVE  UriInv'
<1> USE DEF NULL
<1>1. result = "none" /\ ~m.threw /\ cs = "regname"
    BY DEF U!RegName, U!Leave, U!QueryOrFragment, U!In, U!Outside, U!Reads
<1>2. AtRegName /\ Good(m) /\ split \in Delimiters /\ p \in Nat
    BY <1>1, BoundsAssumption DEF UriInv, UriTypes, At, Good
<1>3. ASSUME NEW c \in U!regular \cup {"%"}, U!Outside(c, "regname", m)
      PROVE  UriInv'
    <2>1. UserKept /\ p' = p + 1 /\ m' = m /\ split' = U!SplitStep(split, c) /\ abs' = abs
        BY <1>3, Here DEF U!Outside
    <2>2. split' = split
        BY <1>2, <1>3, <2>1, SplitInside
    <2>3. Good(m)
        BY <1>2
    <2>4. AtRegName'
        BY <1>2, <2>1, <2>3, <2>2
        DEF AtRegName, Server, UserinfoCut, UserKept, First, InAuthority, NoTail, SchemeCut, Delimiters, Pos
    <2> QED
        BY <1>3, <1>2, <2>3, <2>4, OutsideStep DEF At, UriRegion, Escapes
<1>4. ASSUME U!Outside(":", "port0", U!save_host(m))
      PROVE  UriInv'
    <2>1. /\ p' = p + 1 /\ m' = U!save_host(m) /\ split' = U!SplitStep(split, ":")
          /\ abs' = abs /\ userdigit' = userdigit
        BY <1>4, Here DEF U!Outside, U!digit
    <2>2. SplitRest(split', split) /\ split'.port = p /\ split'.at = split.at /\ ~split'.bracket
          /\ split'.usercolon = IF split.usercolon = NULL THEN p ELSE split.usercolon
        BY <1>2, <1>4, <2>1, SplitColon DEF AtRegName, Server
    <2>3. /\ Good(U!save_host(m)) /\ SameRest(U!save_host(m), m) /\ U!save_host(m).mark = m.mark
          /\ U!save_host(m).host = <<m.mark, p>> /\ U!save_host(m).port = m.port /\ U!save_host(m).userinfo = m.userinfo
        BY <1>2, HostFields DEF AtRegName, Server, InAuthority, SameRest, Delimiters, Pos, First
    <2>4. AtPort0'
        BY <1>2, <2>1, <2>3, <2>2
        DEF AtRegName, Server, UserinfoCut, UserKept, First, InAuthority, NoTail, SchemeCut, AtPort0, SameRest,
            SplitRest, Delimiters, Pos
    <2> QED
        BY <1>4, <1>2, <2>3, <2>4, OutsideStep DEF At, UriRegion
<1>5. ASSUME U!Leave(U!HostEnds(m))
      PROVE  UriInv'
    BY <1>5, <1>1, <1>2, RegNameEnds, LeaveStep
<1> QED
    BY <1>3, <1>4, <1>5 DEF U!RegName

\* Behind the bracket of a literal.
LEMMA ClosedStep ==
    ASSUME UriInv, U!Closed
    PROVE  UriInv'
<1> USE DEF NULL
<1>1. result = "none" /\ ~m.threw /\ cs = "closed"
    BY DEF U!Closed, U!Leave, U!QueryOrFragment, U!In, U!Outside, U!Reads
<1>2. AtRegName /\ Good(m) /\ split \in Delimiters /\ p \in Nat
    BY <1>1, BoundsAssumption DEF UriInv, UriTypes, At, Good
<1>3. ASSUME U!Outside(":", "port0", U!save_host(m))
      PROVE  UriInv'
    <2>1. /\ p' = p + 1 /\ m' = U!save_host(m) /\ split' = U!SplitStep(split, ":")
          /\ abs' = abs /\ userdigit' = userdigit
        BY <1>3, Here DEF U!Outside, U!digit
    <2>2. SplitRest(split', split) /\ split'.port = p /\ split'.at = split.at /\ ~split'.bracket
          /\ split'.usercolon = IF split.usercolon = NULL THEN p ELSE split.usercolon
        BY <1>2, <1>3, <2>1, SplitColon DEF AtRegName, Server
    <2>3. /\ Good(U!save_host(m)) /\ SameRest(U!save_host(m), m) /\ U!save_host(m).mark = m.mark
          /\ U!save_host(m).host = <<m.mark, p>> /\ U!save_host(m).port = m.port /\ U!save_host(m).userinfo = m.userinfo
        BY <1>2, HostFields DEF AtRegName, Server, InAuthority, SameRest, Delimiters, Pos, First
    <2>4. AtPort0'
        BY <1>2, <2>1, <2>3, <2>2
        DEF AtRegName, Server, UserinfoCut, UserKept, First, InAuthority, NoTail, SchemeCut, AtPort0, SameRest,
            SplitRest, Delimiters, Pos
    <2> QED
        BY <1>3, <1>2, <2>3, <2>4, OutsideStep DEF At, UriRegion
<1>4. ASSUME U!Leave(U!HostEnds(m))
      PROVE  UriInv'
    BY <1>4, <1>1, <1>2, RegNameEnds, LeaveStep
<1> QED
    BY <1>3, <1>4 DEF U!Closed

\* A host with an empty port.
LEMMA PortNone ==
    ASSUME UriInv, ~m.threw, AtPort0
    PROVE  Ends(U!NoPort(m))
<1> USE DEF NULL
<1>1. Good(m) /\ split \in Delimiters /\ p \in Nat /\ abs \in BOOLEAN
    BY BoundsAssumption DEF UriInv, UriTypes, Good
<1>2. /\ Good(U!NoPort(m)) /\ SameRest(U!NoPort(m), m) /\ U!NoPort(m).mark = NULL
      /\ U!NoPort(m).host = m.host /\ U!NoPort(m).port = m.port /\ U!NoPort(m).userinfo = m.userinfo
    BY <1>1, NoPort
<1>3. AuthorityCut(U!NoPort(m), p) /\ SchemeCut(U!NoPort(m))
    BY <1>1, <1>2
    DEF AtPort0, Server, UserinfoCut, UserKept, First, InAuthority, NoTail, SchemeCut, SameRest, AuthorityCut,
        Delimiters, Pos
<1> QED
    BY <1>1, <1>2, <1>3
    DEF AtPort0, Server, UserinfoCut, UserKept, First, InAuthority, NoTail, SchemeCut, Ends, SameRest

\* Behind the colon of the port.
LEMMA Port0Step ==
    ASSUME UriInv, Port0
    PROVE  UriInv'
<1> USE DEF NULL
<1>1. result = "none" /\ ~m.threw /\ cs = "port0"
    BY DEF Port0, U!Leave, U!QueryOrFragment, U!In, U!Outside, U!Reads
<1>2. AtPort0 /\ Good(m) /\ split \in Delimiters /\ p \in Nat
    BY <1>1, BoundsAssumption DEF UriInv, UriTypes, At, Good
<1>3. ASSUME NEW c \in U!digit, U!Outside(c, "port", U!markh(m))
      PROVE  UriInv'
    <2>1. UserKept /\ p' = p + 1 /\ m' = U!markh(m) /\ split' = U!SplitStep(split, c) /\ abs' = abs
        BY <1>3, Here DEF U!Outside
    <2>2. split' = split
        BY <1>2, <1>3, <2>1, SplitSame DEF U!digit
    <2>3. /\ Good(U!markh(m)) /\ SameRest(U!markh(m), m) /\ U!markh(m).mark = p
          /\ U!markh(m).host = m.host /\ U!markh(m).port = m.port /\ U!markh(m).userinfo = m.userinfo
        BY <1>2, MarkhFields DEF AtPort0, Server, InAuthority, SameRest, Delimiters, Pos, First
    <2>4. AtPort'
        BY <1>2, <2>1, <2>3, <2>2
        DEF AtPort0, Server, UserinfoCut, UserKept, First, InAuthority, NoTail, SchemeCut, AtPort, SameRest,
            Delimiters, Pos
    <2> QED
        BY <1>3, <1>2, <2>3, <2>4, OutsideStep DEF At, UriRegion, Escapes, U!digit
<1>4. ASSUME U!Leave(U!NoPort(m))
      PROVE  UriInv'
    BY <1>4, <1>1, <1>2, PortNone, LeaveStep
<1> QED
    BY <1>3, <1>4 DEF Port0

\* A port with digits.
LEMMA PortSome ==
    ASSUME UriInv, ~m.threw, AtPort
    PROVE  Ends(U!PortEnds(m))
<1> USE DEF NULL
<1>1. Good(m) /\ split \in Delimiters /\ p \in Nat /\ abs \in BOOLEAN
    BY BoundsAssumption DEF UriInv, UriTypes, Good
<1>2. /\ Good(U!PortEnds(m)) /\ SameRest(U!PortEnds(m), m) /\ (abs => U!PortEnds(m).mark = p)
      /\ U!PortEnds(m).host = m.host /\ U!PortEnds(m).port = (IF m.mark # p THEN <<m.mark, p>> ELSE m.port)
      /\ U!PortEnds(m).userinfo = m.userinfo
    BY <1>1, PortEnds DEF AtPort, Server, InAuthority, SameRest, Delimiters, Pos, First
<1>3. AuthorityCut(U!PortEnds(m), p) /\ SchemeCut(U!PortEnds(m))
    BY <1>1, <1>2
    DEF AtPort, Server, UserinfoCut, UserKept, First, InAuthority, NoTail, SchemeCut, SameRest, AuthorityCut,
        Delimiters, Pos
<1> QED
    BY <1>1, <1>2, <1>3
    DEF AtPort, Server, UserinfoCut, UserKept, First, InAuthority, NoTail, SchemeCut, Ends, SameRest

\* In the port.
LEMMA PortStep ==
    ASSUME UriInv, Port
    PROVE  UriInv'
<1> USE DEF NULL
<1>1. result = "none" /\ ~m.threw /\ cs = "port"
    BY DEF Port, U!Leave, U!QueryOrFragment, U!In, U!Outside, U!Reads
<1>2. AtPort /\ Good(m) /\ split \in Delimiters /\ p \in Nat
    BY <1>1, BoundsAssumption DEF UriInv, UriTypes, At, Good
<1>3. ASSUME NEW c \in U!digit, U!Outside(c, "port", m)
      PROVE  UriInv'
    <2>1. UserKept /\ p' = p + 1 /\ m' = m /\ split' = U!SplitStep(split, c) /\ abs' = abs
        BY <1>3, Here DEF U!Outside
    <2>2. split' = split
        BY <1>2, <1>3, <2>1, SplitSame DEF U!digit
    <2>3. Good(m)
        BY <1>2
    <2>4. AtPort'
        BY <1>2, <2>1, <2>3, <2>2
        DEF AtPort, Server, UserinfoCut, UserKept, First, InAuthority, NoTail, SchemeCut, Delimiters, Pos
    <2> QED
        BY <1>3, <1>2, <2>3, <2>4, OutsideStep DEF At, UriRegion, Escapes, U!digit
<1>4. ASSUME U!Leave(U!PortEnds(m))
      PROVE  UriInv'
    BY <1>4, <1>1, <1>2, PortSome, LeaveStep
<1> QED
    BY <1>3, <1>4 DEF Port

-----------------------------------------------------------------------------
(* An IP literal *)

LitOK(l) ==
    /\ l.groups \in 0..7 /\ l.gap \in -1..7 /\ l.digits \in 0..4 /\ l.dots \in 0..3
    /\ DOMAIN l = {"at", "groups", "gap", "digits", "octet", "dots"}

\* Inside the brackets.
LEMMA WithinStep ==
    ASSUME UriInv, U!In("literal"), NEW c \in U!regular \cup {":"}, NEW l, U!Within(c, l), LitOK(l)
    PROVE  UriInv'
<1> USE DEF NULL
<1>1. AtLiteral /\ Good(m) /\ split \in Delimiters /\ p \in Nat /\ abs \in BOOLEAN
    BY BoundsAssumption DEF UriInv, UriTypes, At, Good, U!In, U!Within, U!Reads
<1>2. UserKept /\ p' = p + 1 /\ m' = m /\ split' = U!SplitStep(split, c) /\ abs' = abs /\ LiteralTypes' /\ c # "%"
    BY Here DEF U!Within, LitOK, LiteralTypes, U!regular, U!alpha, U!digit
<1>3. split' = split
    BY <1>1, <1>2, SplitInside, SplitAuthority DEF AtLiteral, Server, InAuthority, NoTail
<1>4. AtLiteral'
    BY <1>1, <1>2, <1>3
    DEF AtLiteral, Server, InAuthority, NoTail, SchemeCut, UserinfoCut, UserKept, First, Delimiters, Pos
<1>5. At("literal")'
    BY <1>4 DEF At
<1> QED
    BY <1>1, <1>2, <1>5, Step DEF U!Within, Good, UriRegion

LEMMA BeginGroupStep ==
    ASSUME UriInv, U!In("literal"), NEW c \in U!xdigit, U!BeginGroup(c)
    PROVE  UriInv'
<1> DEFINE l == [lit EXCEPT !.at = "group", !.digits = 1,
                            !.octet = IF U!Ipv4Fits THEN U!dec_octet("none", c) ELSE "no"]
<1>1. LitOK(l)
    BY DEF UriInv, LiteralTypes, LitOK
<1>2. U!Within(c, l)
    BY DEF U!BeginGroup
<1>3. c \in U!regular \cup {":"}
    BY DEF U!xdigit, U!regular, U!alpha
<1> HIDE DEF l
<1> QED
    BY <1>1, <1>2, <1>3, WithinStep

LEMMA LiteralOpenStep ==
    ASSUME UriInv, U!LiteralOpen
    PROVE  UriInv'
<1>1. U!In("literal")
    BY DEF U!LiteralOpen, U!InLiteral
<1>2. LitOK([lit EXCEPT !.at = "colon1"]) /\ LitOK([lit EXCEPT !.at = "v"])
      /\ LitOK([lit EXCEPT !.at = "gap", !.gap = 0])
    BY DEF UriInv, LiteralTypes, LitOK
<1>3. "v" \in U!regular
    BY DEF U!regular, U!alpha
<1> QED
    BY <1>1, <1>2, <1>3, BeginGroupStep, WithinStep DEF U!LiteralOpen

LEMMA GroupStep ==
    ASSUME UriInv, U!Group
    PROVE  UriInv'
<1>1. U!In("literal") /\ lit.groups \in 0..7 /\ lit.gap \in -1..7 /\ lit.digits \in 0..4 /\ lit.dots \in 0..3
      /\ DOMAIN lit = {"at", "groups", "gap", "digits", "octet", "dots"}
    BY DEF U!Group, U!InLiteral, UriInv, LiteralTypes
<1>2. ASSUME NEW c \in U!xdigit, lit.digits < 4,
             U!Within(c, [lit EXCEPT !.digits = @ + 1,
                                     !.octet = IF @ = "no" THEN @ ELSE U!dec_octet(@, c)])
      PROVE  UriInv'
    <2>1. LitOK([lit EXCEPT !.digits = @ + 1, !.octet = IF @ = "no" THEN @ ELSE U!dec_octet(@, c)])
        BY <1>1, <1>2 DEF LitOK
    <2>2. c \in U!regular
        BY <1>2 DEF U!xdigit, U!regular, U!alpha
    <2> QED
        BY <1>1, <1>2, <2>1, <2>2, WithinStep
<1>3. ASSUME lit.groups + 1 < (IF lit.gap = U!NULL THEN 8 ELSE 7),
             U!Within(":", [lit EXCEPT !.at = "colon", !.groups = @ + 1, !.digits = 0, !.octet = "no"])
      PROVE  UriInv'
    <2>1. LitOK([lit EXCEPT !.at = "colon", !.groups = @ + 1, !.digits = 0, !.octet = "no"])
        BY <1>1, <1>3 DEF LitOK
    <2> QED
        BY <1>1, <1>3, <2>1, WithinStep
<1>4. ASSUME U!Within(".", [lit EXCEPT !.at = "v4", !.digits = 0, !.octet = "none", !.dots = 1])
      PROVE  UriInv'
    <2>1. LitOK([lit EXCEPT !.at = "v4", !.digits = 0, !.octet = "none", !.dots = 1])
        BY <1>1 DEF LitOK
    <2> QED
        BY <1>1, <1>4, <2>1, WithinStep DEF U!regular
<1> QED
    BY <1>2, <1>3, <1>4 DEF U!Group

LEMMA GapStep ==
    ASSUME UriInv, U!AfterColon \/ U!AfterGap
    PROVE  UriInv'
<1>1. U!In("literal")
    BY DEF U!AfterColon, U!AfterGap, U!InLiteral
<1>2. LitOK([lit EXCEPT !.at = "gap", !.gap = lit.groups])
    BY DEF UriInv, LiteralTypes, LitOK
<1> QED
    BY <1>1, <1>2, BeginGroupStep, WithinStep DEF U!AfterColon, U!AfterGap

LEMMA IPv4TailStep ==
    ASSUME UriInv, U!IPv4Tail
    PROVE  UriInv'
<1>1. U!In("literal") /\ lit.groups \in 0..7 /\ lit.gap \in -1..7 /\ lit.digits \in 0..4 /\ lit.dots \in 0..3
      /\ DOMAIN lit = {"at", "groups", "gap", "digits", "octet", "dots"}
    BY DEF U!IPv4Tail, U!InLiteral, UriInv, LiteralTypes
<1>2. ASSUME NEW c \in U!digit, U!Within(c, [lit EXCEPT !.octet = U!dec_octet(@, c)])
      PROVE  UriInv'
    <2>1. LitOK([lit EXCEPT !.octet = U!dec_octet(@, c)])
        BY <1>1 DEF LitOK
    <2> QED
        BY <1>1, <1>2, <2>1, WithinStep DEF U!regular
<1>3. ASSUME lit.dots < 3, U!Within(".", [lit EXCEPT !.octet = "none", !.dots = @ + 1])
      PROVE  UriInv'
    <2>1. LitOK([lit EXCEPT !.octet = "none", !.dots = @ + 1])
        BY <1>1, <1>3 DEF LitOK
    <2> QED
        BY <1>1, <1>3, <2>1, WithinStep DEF U!regular
<1> QED
    BY <1>2, <1>3 DEF U!IPv4Tail

LEMMA IPvFutureStep ==
    ASSUME UriInv, U!IPvFuture
    PROVE  UriInv'
<1>1. U!In("literal")
    BY DEF U!IPvFuture, U!InLiteral
<1>2. LitOK(lit) /\ \A x \in {"vhex", "vdot", "vtail"} : LitOK([lit EXCEPT !.at = x])
    BY DEF UriInv, LiteralTypes, LitOK
<1>3. U!xdigit \subseteq U!regular /\ "." \in U!regular
    BY DEF U!xdigit, U!regular, U!alpha
<1>4. PICK c \in U!regular \cup {":"}, l \in {lit} \cup {[lit EXCEPT !.at = x] : x \in {"vhex", "vdot", "vtail"}} :
         U!Within(c, l)
    BY <1>3 DEF U!IPvFuture
<1> QED
    BY <1>1, <1>2, <1>4, WithinStep

\* The bracket that closes it.
LEMMA LiteralEndStep ==
    ASSUME UriInv, U!LiteralEnd
    PROVE  UriInv'
<1> USE DEF NULL
<1>1. U!In("literal") /\ U!Reads("]", "closed", m) /\ lit' = U!Lit0 /\ abs' = abs
    BY DEF U!LiteralEnd, U!InLiteral, U!Closes
<1>2. AtLiteral /\ Good(m) /\ split \in Delimiters /\ p \in Nat /\ abs \in BOOLEAN
    BY <1>1, BoundsAssumption DEF UriInv, UriTypes, At, Good, U!In, U!Reads
<1>3. UserKept /\ p' = p + 1 /\ m' = m /\ split' = U!SplitStep(split, "]")
    BY <1>1, Here
<1>4. SplitRest(split', split) /\ split'.port = split.port /\ split'.at = split.at /\ ~split'.bracket
      /\ split'.usercolon = split.usercolon
    BY <1>2, <1>3, SplitBracket DEF AtLiteral, Server
<1>5. AtRegName'
    BY <1>1, <1>2, <1>3, <1>4
    DEF AtLiteral, AtRegName, Server, InAuthority, NoTail, SchemeCut, UserinfoCut, UserKept, First, SplitRest,
        Delimiters,
        Pos
<1>6. LiteralTypes' /\ abs' \in BOOLEAN
    BY <1>1, <1>2 DEF LiteralTypes, U!Lit0, U!NULL
<1>7. At("closed")'
    BY <1>5 DEF At
<1> QED
    BY <1>1, <1>2, <1>6, <1>7, Step DEF UriRegion, Good

LEMMA LiteralStep ==
    ASSUME UriInv, U!Literal
    PROVE  UriInv'
BY LiteralOpenStep, GroupStep, GapStep, IPv4TailStep, IPvFutureStep, LiteralEndStep
DEF U!Literal, U!Groups, U!RelLiteralOpen, U!RelGroups, U!RelGroupsBehindGap, U!RelGroupsBehindFirstGap,
    U!RelIPv4Tail, U!RelIPvFuture, U!AbsLiteralOpen, U!AbsGroups, U!AbsGroupsBehindGap,
    U!AbsGroupsBehindFirstGap, U!AbsIPv4Tail, U!AbsIPvFuture

-----------------------------------------------------------------------------
(* The end of the text *)

\* The parts of the whole text.
Agrees(u) ==
    /\ PathCut(u, U!End(split))
    /\ u.query = IF split.query # NULL THEN <<split.query + 1, U!FirstOf(split.hash, p)>> ELSE <<>>
    /\ u.fragment = IF split.hash # NULL THEN <<split.hash + 1, p>> ELSE <<>>

\* They are what the properties ask for.
LEMMA AgreesEnough ==
    ASSUME UriInv, NEW u, Good(u), Agrees(u), m' = u, UNCHANGED <<p, split, userdigit>>
    PROVE  U!PartsAgree' /\ U!AuthorityAgrees'
<1> USE DEF NULL, U!NULL
<1>1. split \in Delimiters /\ p \in Nat
    BY BoundsAssumption DEF UriInv, UriTypes
<1>2. U!PartsAgree'
    BY <1>1 DEF U!PartsAgree, Agrees, PathCut, SchemeCut, U!AuthEnd, U!End, U!FirstOf, U!Empty
<1>3. U!AuthorityAgrees'
    BY <1>1 DEF U!AuthorityAgrees, Agrees, PathCut, AuthorityCut, NoAuthority, UserinfoCut, UserKept, First,
                U!AuthEnd,
                U!End, U!FirstOf, U!Empty, Delimiters, Pos
<1> QED
    BY <1>2, <1>3

\* The end of the text ends an authority, and the path behind it.
LEMMA EndsAgree ==
    ASSUME UriInv, NEW u, Ends(u)
    PROVE  /\ Good(IF abs THEN U!save_path(u) ELSE u)
           /\ ~(IF abs THEN U!save_path(u) ELSE u).threw => Agrees(IF abs THEN U!save_path(u) ELSE u)
<1> USE DEF NULL, U!NULL
<1>1. split \in Delimiters /\ p \in Nat /\ U!End(split) = p
    BY BoundsAssumption DEF UriInv, UriTypes, Ends, InAuthority, NoTail, U!End, U!FirstOf
<1>2. CASE abs
    <2>1. Good(U!save_path(u))
        BY <1>1, SaveGood DEF Ends
    <2>2. ~U!save_path(u).threw => PathCut(U!save_path(u), p)
        BY <1>1, <1>2
        DEF PathCut, Ends, InAuthority, SchemeCut, AuthorityCut, UserinfoCut, UserKept, Delimiters, Pos,
            U!save_path, Good,
            Fields
    <2>3. U!save_path(u).query = <<>> /\ U!save_path(u).fragment = <<>>
        BY DEF U!save_path, Ends, Good, Fields
    <2> QED
        BY <1>1, <1>2, <2>1, <2>2, <2>3 DEF Agrees, Ends, InAuthority, NoTail
<1>3. CASE ~abs
    BY <1>1, <1>3 DEF Agrees, Ends, InAuthority, NoTail, PathCut
<1> QED
    BY <1>2, <1>3

\* The eof actions of every region.
LEMMA EofAgrees ==
    ASSUME UriInv, result = "none", ~m.threw, U!Final
    PROVE  Good(U!EofActions) /\ (~U!EofActions.threw => Agrees(U!EofActions))
<1> USE DEF NULL, U!NULL
<1>1. split \in Delimiters /\ p \in Nat /\ Good(m) /\ cs \in UriRegion \ {"userinfo", "literal"} /\ At(cs)
    BY BoundsAssumption DEF UriInv, UriTypes, Good, U!Final
<1>2. CASE cs \in {"start", "noscheme", "scheme", "hier", "hierslash", "slash"}
    <2>1. U!EofActions = m
        BY <1>2 DEF U!EofActions
    <2>2. Before
        BY <1>1, <1>2 DEF At, AtStart, AtScheme, AtNoscheme, AtHier, AtSlash
    <2>3. Agrees(m)
        BY <2>2 DEF Before, UserKept, NoTail, Agrees, PathCut, AuthorityCut, U!End, U!FirstOf
    <2> QED
        BY <1>1, <2>1, <2>3
<1>3. CASE cs = "segments"
    <2>1. U!EofActions = m
        BY <1>3 DEF U!EofActions
    <2>2. AtSegments
        BY <1>1, <1>3 DEF At
    <2>3. Agrees(m)
        BY <1>1, <2>2 DEF AtSegments, NoTail, Agrees, PathCut, AuthorityCut, U!End, U!FirstOf, Delimiters, Pos
    <2> QED
        BY <1>1, <2>1, <2>3
<1>4. CASE cs = "path"
    <2>1. U!EofActions = U!save_path(m)
        BY <1>4 DEF U!EofActions
    <2>2. AtPath
        BY <1>1, <1>4 DEF At
    <2>3. Good(U!save_path(m))
        BY <1>1, SaveGood
    <2>4. ~U!save_path(m).threw => Agrees(U!save_path(m))
        BY <1>1, <2>2
        DEF AtPath, NoTail, Agrees, PathCut, SchemeCut, AuthorityCut, UserinfoCut, UserKept, U!End, U!FirstOf,
            Delimiters, Pos,
            U!save_path, Good, Fields
    <2> QED
        BY <2>1, <2>3, <2>4
<1>5. CASE cs \in {"query", "query0"}
    <2> DEFINE u == IF cs = "query" THEN m ELSE U!marku(m)
    <2>1. U!EofActions = U!save_query(u)
        BY <1>5 DEF U!EofActions
    <2>2. Good(u) /\ u.mark # NULL
        BY <1>1, <1>5, MarkGood DEF At, AtQuery, Delimiters, Pos
    <2>3. Good(U!save_query(u))
        BY <1>1, <2>2, SaveGood
    <2>4. /\ split.query >= 0 /\ split.hash = NULL /\ u.mark = split.query + 1 /\ PathCut(u, split.query)
          /\ u.fragment = <<>>
        BY <1>1, <1>5
        DEF At, AtQuery, AtQuery0, PathCut, SchemeCut, AuthorityCut, NoAuthority, UserinfoCut, UserKept, U!marku,
            Good, Fields
    <2> HIDE DEF u
    <2>5. Agrees(U!save_query(u))
        BY <1>1, <2>2, <2>4
        DEF Agrees, PathCut, SchemeCut, AuthorityCut, NoAuthority, UserinfoCut, UserKept, U!End, U!FirstOf,
            U!save_query, Good,
            Fields
    <2> QED
        BY <2>1, <2>3, <2>5
<1>6. CASE cs \in {"frag", "frag0"}
    <2> DEFINE u == IF cs = "frag" THEN m ELSE U!marku(m)
    <2>1. U!EofActions = U!save_fragment(u)
        BY <1>6 DEF U!EofActions
    <2>2. Good(u) /\ u.mark # NULL
        BY <1>1, <1>6, MarkGood DEF At, AtFrag, QueryCut, Delimiters, Pos
    <2>3. Good(U!save_fragment(u))
        BY <1>1, <2>2, SaveGood
    <2>4. /\ split.hash >= 0 /\ u.mark = split.hash + 1
          /\ PathCut(u, IF split.query # NULL THEN split.query ELSE split.hash)
          /\ u.query = IF split.query # NULL THEN <<split.query + 1, split.hash>> ELSE <<>>
        BY <1>1, <1>6
        DEF At, AtFrag, AtFrag0, QueryCut, PathCut, SchemeCut, AuthorityCut, NoAuthority, UserinfoCut, UserKept,
            U!marku,
            Good, Fields
    <2> HIDE DEF u
    <2>5. Agrees(U!save_fragment(u))
        BY <1>1, <2>2, <2>4
        DEF Agrees, PathCut, SchemeCut, AuthorityCut, NoAuthority, UserinfoCut, UserKept, U!End, U!FirstOf,
            U!save_fragment,
            Good, Fields
    <2> QED
        BY <2>1, <2>3, <2>5
<1>7. ASSUME NEW u, Ends(u), U!EofActions = IF abs THEN U!save_path(u) ELSE u
      PROVE  Good(U!EofActions) /\ (~U!EofActions.threw => Agrees(U!EofActions))
    BY <1>7, EndsAgree
<1>8. CASE cs \in {"authority", "host"}
    <2>1. Ends(U!HostEnds(U!markh(m)))
        BY <1>1, <1>8, AuthorityEnds, HostNone DEF At
    <2>2. U!EofActions = IF abs THEN U!save_path(U!HostEnds(U!markh(m))) ELSE U!HostEnds(U!markh(m))
        BY <1>8 DEF U!EofActions
    <2> QED
        BY <1>7, <2>1, <2>2
<1>9. CASE cs \in {"userhost", "regname", "closed"}
    <2>1. Ends(U!HostEnds(m))
        BY <1>1, <1>9, UserHostEnds, RegNameEnds DEF At
    <2>2. U!EofActions = IF abs THEN U!save_path(U!HostEnds(m)) ELSE U!HostEnds(m)
        BY <1>9 DEF U!EofActions
    <2> QED
        BY <1>7, <2>1, <2>2
<1>10. CASE cs \in {"colon", "port0"}
    <2>1. Ends(U!NoPort(m))
        BY <1>1, <1>10, UserColonEnds, PortNone DEF At
    <2>2. U!EofActions = IF abs THEN U!save_path(U!NoPort(m)) ELSE U!NoPort(m)
        BY <1>10 DEF U!EofActions
    <2> QED
        BY <1>7, <2>1, <2>2
<1>11. CASE cs \in {"userport", "port"}
    <2>1. Ends(U!PortEnds(m))
        BY <1>1, <1>11, UserPortEnds, PortSome DEF At
    <2>2. U!EofActions = IF abs THEN U!save_path(U!PortEnds(m)) ELSE U!PortEnds(m)
        BY <1>11 DEF U!EofActions
    <2> QED
        BY <1>7, <2>1, <2>2
<1> QED
    BY <1>1, <1>2, <1>3, <1>4, <1>5, <1>6, <1>8, <1>9, <1>10, <1>11 DEF UriRegion

LEMMA CreateStep ==
    ASSUME UriInv, U!Create
    PROVE  UriInv'
<1>1. result = "none" /\ ~m.threw /\ UNCHANGED <<text, abs, pct, lit, p, split, userdigit>> /\ result' # "none"
    BY DEF U!Create
<1>2. CASE U!Final
    <2>1. m' = U!EofActions /\ Good(m')
        BY <1>1, <1>2, EofAgrees DEF U!Create
    <2>2. UriTypes'
        BY <1>1, <2>1 DEF U!Create, UriInv, UriTypes, Good, FieldsInside, Inside
    <2>3. CASE m'.threw
        <3>1. result' # "uri"
            BY <2>3 DEF U!Create
        <3> QED
            BY <1>1, <2>2, <3>1 DEF UriInv, LiteralTypes, U!PartsAgree, U!AuthorityAgrees
    <2>4. CASE ~m'.threw
        <3>1. Agrees(U!EofActions)
            BY <1>1, <1>2, <2>1, <2>4, EofAgrees
        <3>2. U!PartsAgree' /\ U!AuthorityAgrees'
            BY <1>1, <2>1, <3>1, AgreesEnough
        <3> QED
            BY <1>1, <2>2, <3>2 DEF UriInv, LiteralTypes
    <2> QED
        BY <2>3, <2>4
<1>3. CASE ~U!Final
    <2>1. m' = m /\ result' = "nullptr"
        BY <1>1, <1>3 DEF U!Create
    <2> QED
        BY <1>1, <2>1
        DEF UriInv, UriTypes, LiteralTypes, FieldsInside, Inside, U!PartsAgree, U!AuthorityAgrees
<1> QED
    BY <1>2, <1>3

\* The other ends.
LEMMA StopStep ==
    ASSUME UriInv, U!Throws \/ U!Rejects \/ U!Done
    PROVE  UriInv'
<1>1. UNCHANGED <<text, cs, abs, pct, lit, p, m, split, userdigit>>
    BY DEF U!Throws, U!Rejects, U!Done, U!vars
<1>2. UriTypes' /\ LiteralTypes'
    BY <1>1 DEF U!Throws, U!Rejects, U!Done, U!vars, UriInv, UriTypes, LiteralTypes, FieldsInside, Inside
<1>3. CASE result' = result /\ result # "none"
    BY <1>1, <1>2, <1>3
    DEF UriInv, U!PartsAgree, U!AuthorityAgrees, U!AuthEnd, U!End
<1>4. CASE result' \in {"throws", "nullptr"}
    BY <1>2, <1>4 DEF UriInv, U!PartsAgree, U!AuthorityAgrees
<1> QED
    BY <1>3, <1>4 DEF U!Throws, U!Rejects, U!Done, U!vars

\* A step of the other parsers, or none, changes nothing of this one.
LEMMA UriStutter ==
    ASSUME UriInv, UNCHANGED <<cs, p, result, pct, lit, split, text, abs, m, userdigit>>
    PROVE  UriInv'
<1>1. UriTypes' /\ LiteralTypes'
    BY DEF UriInv, UriTypes, LiteralTypes, FieldsInside, Inside
<1>2. U!PartsAgree' /\ U!AuthorityAgrees'
    BY DEF UriInv, U!PartsAgree, U!AuthorityAgrees, U!AuthEnd, U!End
<1>3. At(cs) => At(cs)'
    <2>1. AuthorityCut(m, split.path) => AuthorityCut(m, split.path)'
        BY DEF AuthorityCut, UserinfoCut, UserKept, First, NoAuthority
    <2>2. /\ PathCut(m, split.query) => PathCut(m, split.query)'
          /\ PathCut(m, split.hash) => PathCut(m, split.hash)'
        BY DEF PathCut, SchemeCut, AuthorityCut, UserinfoCut, UserKept, First, NoAuthority
    <2>3. /\ AtStart => AtStart'
          /\ AtNoscheme => AtNoscheme'
          /\ AtScheme => AtScheme'
          /\ AtHier => AtHier'
          /\ AtSlash => AtSlash'
        BY DEF AtStart, AtNoscheme, AtScheme, AtHier, AtSlash, Before, UserKept, NoTail, SchemeCut, NoAuthority
    <2>4. /\ AtAuthority => AtAuthority'
          /\ AtUserHost => AtUserHost'
          /\ AtColon => AtColon'
          /\ AtUserPort => AtUserPort'
          /\ AtUserinfo => AtUserinfo'
        BY DEF NoColon, AtAuthority, AtUserHost, AtColon, AtUserPort, AtUserinfo, User, InAuthority, NoTail, SchemeCut
    <2>5. Server => Server'
        BY DEF Server, InAuthority, NoTail, SchemeCut, UserinfoCut, UserKept
    <2>6. /\ AtHost => AtHost'
          /\ AtRegName => AtRegName'
          /\ AtLiteral => AtLiteral'
          /\ AtPort0 => AtPort0'
          /\ AtPort => AtPort'
        BY <2>5 DEF AtHost, AtRegName, AtLiteral, AtPort0, AtPort, First
    <2>7. (AtSegments => AtSegments') /\ (AtPath => AtPath')
        BY <2>1 DEF AtSegments, AtPath, NoTail, SchemeCut
    <2>8. (AtQuery0 => AtQuery0') /\ (AtQuery => AtQuery')
        BY <2>2 DEF AtQuery0, AtQuery
    <2>9. (AtFrag0 => AtFrag0') /\ (AtFrag => AtFrag')
        BY <2>2 DEF AtFrag0, AtFrag, QueryCut
    <2> QED
        BY <2>3, <2>4, <2>6, <2>7, <2>8, <2>9 DEF At
<1> QED
    BY <1>1, <1>2, <1>3 DEF UriInv, Escaped

LEMMA UriNext ==
    ASSUME UriInv, U!Next
    PROVE  UriInv'
<1>1. U!Port => Port0 \/ Port
    BY DEF U!Port, Port0, Port
<1> QED
    BY <1>1, StartStep, NoschemeStep, SchemeStep, HierStep, HierSlashStep, SlashStep, SegmentsStep, AbsPathStep,
       QueryStep, FragmentStep, PctDigitStep, AuthorityStep, UserHostStep, UserColonStep, UserPortStep,
       UserinfoStep, HostStep, RegNameStep, ClosedStep, Port0Step, PortStep, LiteralStep, CreateStep, StopStep
    DEF U!Next, U!RelAuthority, U!RelUserHost, U!RelUserColon, U!RelUserPort, U!RelHost, U!RelRegName, U!RelPort,
        U!AbsAuthority, U!AbsUserHost, U!AbsUserColon, U!AbsUserPort, U!AbsHost, U!AbsRegName, U!AbsClosed,
        U!AbsPort

LEMMA UriStart ==
    ASSUME U!Init
    PROVE  UriInv
<1> USE DEF NULL, U!NULL
<1>1. m = U!Uri0 /\ m \in Fields
    BY DEF U!Init, U!Uri0, U!Empty, Fields, Pos, Cut
<1>2. split = U!Split0 /\ split \in Delimiters
    BY DEF U!Init, U!Split0, Delimiters, Pos
<1>3. UriTypes
    <2>1. p = 0 /\ pct = 0 /\ result = "none" /\ text \in Texts /\ abs = FALSE
        BY DEF U!Init
    <2>3. m.mark = -1 /\ m.scheme = <<>> /\ m.userinfo = <<>> /\ m.host = <<>> /\ m.port = <<>> /\ m.path = <<>>
          /\ m.query = <<>> /\ m.fragment = <<>>
        BY <1>1 DEF U!Uri0, U!Empty
    <2>4. FieldsInside(m)
        BY <2>1, <2>3 DEF FieldsInside, Inside
    <2>5. abs \in BOOLEAN /\ userdigit \in BOOLEAN
        BY <2>1, Zenon DEF U!Init
    <2>6. pct \in 0..2
        BY <2>1
    <2>2. p \in 0..text.length
        BY <2>1, BoundsAssumption
    <2> QED
        BY <1>1, <1>2, <2>1, <2>2, <2>4, <2>5, <2>6 DEF UriTypes
<1>4. LiteralTypes
    BY DEF U!Init, U!Lit0, LiteralTypes
<1>5. AtStart
    BY <1>1, <1>2
    DEF U!Init, U!Uri0, U!Split0, U!Empty, AtStart, Before, UserKept, NoTail, SchemeCut, NoAuthority
<1>6. At(cs) /\ cs \in UriRegion /\ Escaped
    BY <1>5 DEF U!Init, At, UriRegion, Escaped
<1> QED
    BY <1>3, <1>4, <1>6 DEF U!Init, UriInv, U!PartsAgree, U!AuthorityAgrees

LEMMA UriInvariant == Spec => []UInv
<1>1. Init => UInv
    BY UriStart DEF Init, UInv
<1>2. UInv /\ [Next]_vars => UInv'
    <2> SUFFICES ASSUME UInv, [Next]_vars, parser' = "uri"
                 PROVE  UriInv'
        BY DEF UInv
    <2>1. UriInv /\ (U!Next \/ UNCHANGED <<cs, p, result, pct, lit, split, text, abs, m, userdigit>>)
        BY DEF UInv, Next, vars, targetVars, uriVars
    <2> QED
        BY <2>1, UriNext, UriStutter
<1> QED
    BY <1>1, <1>2, PTL DEF Spec

\* The scheme, query and fragment that Uri::Create returns are those of RFC 3986,
\* for every text, and so is the path behind a scheme and an authority (no other
\* path is saved): the mark that all parts share is never a leftover of another.
THEOREM UriParts == Spec => []UriPartsAgree
<1>1. UInv => UriPartsAgree
    BY DEF UInv, UriInv, UriPartsAgree
<1> QED
    BY <1>1, UriInvariant, PTL

\* So are its userinfo, host and port, although the automaton saves user names
\* as hosts and passwords as ports before it has seen "@".
THEOREM UriAuthority == Spec => []UriAuthorityAgrees
<1>1. UInv => UriAuthorityAgrees
    BY DEF UInv, UriInv, UriAuthorityAgrees
<1> QED
    BY <1>1, UriInvariant, PTL

-----------------------------------------------------------------------------
(* Requests: pieces *)

\* The last of the pieces S that starts at q or before it.
LastPiece(S, q) == Q!Max({b \in S : b <= q})

Later(a, b) == IF a >= b THEN a ELSE b

\* base is where the last piece starts.
PiecesOK ==
    /\ p \in Nat /\ base \in Nat /\ base <= p
    /\ pieces \subseteq Nat /\ base \in pieces /\ 0 \in pieces /\ \A b \in pieces : b <= base
    /\ IsFiniteSet(pieces) /\ Cardinality(pieces) <= MaxReads

\* The greatest of a set is unique.
LEMMA MaxIs ==
    ASSUME NEW S \in SUBSET Int, NEW x \in S, \A y \in S : y <= x
    PROVE  Q!Max(S) = x /\ R!Max(S) = x
<1>1. \A z \in S : (\A y \in S : z >= y) => z = x
    OBVIOUS
<1>2. x \in S /\ \A y \in S : x >= y
    OBVIOUS
<1> QED
    BY <1>1, <1>2 DEF Q!Max, R!Max

LEMMA MaxOfTwo ==
    ASSUME NEW a \in Int, NEW b \in Int
    PROVE  Q!Max({a, b}) = Later(a, b) /\ R!Max({a, b}) = Later(a, b)
<1>1. Later(a, b) \in {a, b} /\ \A y \in {a, b} : y <= Later(a, b)
    BY DEF Later
<1> QED
    BY <1>1, MaxIs

\* What is read now, or was read since the piece began, is in this piece.
LEMMA LastPieceIs ==
    ASSUME PiecesOK, NEW q \in Nat, base <= q
    PROVE  LastPiece(pieces, q) = base
BY MaxIs DEF LastPiece, PiecesOK

\* A new piece changes nothing before it.
LEMMA LastPieceKept ==
    ASSUME p \in Nat, NEW S, NEW q \in Int, q < p
    PROVE  LastPiece(S \cup {p}, q) = LastPiece(S, q)
<1>1. {b \in S \cup {p} : b <= q} = {b \in S : b <= q}
    OBVIOUS
<1> QED
    BY <1>1 DEF LastPiece

LEMMA PiecesStep ==
    ASSUME PiecesOK, p' = p + 1, UNCHANGED <<base, pieces>>
    PROVE  PiecesOK'
BY DEF PiecesOK

LEMMA PiecesRead ==
    ASSUME PiecesOK, p > base, Cardinality(pieces) < MaxReads, base' = p, pieces' = pieces \cup {p}, p' = p
    PROVE  PiecesOK' /\ pieces' # {0}
<1>1. IsFiniteSet(pieces') /\ Cardinality(pieces') <= MaxReads
    <2>1. p \notin pieces /\ IsFiniteSet(pieces) /\ MaxReads \in Nat
        BY BoundsAssumption DEF PiecesOK
    <2>2. Cardinality(pieces) \in Nat
        BY <2>1, FS_CardinalityType
    <2>3. IsFiniteSet(pieces') /\ Cardinality(pieces') = Cardinality(pieces) + 1
        BY <2>1, FS_AddElement
    <2> QED
        BY <2>1, <2>2, <2>3
<1>2. pieces' # {0}
    BY DEF PiecesOK
<1> QED
    BY <1>1, <1>2 DEF PiecesOK



\* Cardinality is the same operator in every module.
LEMMA SameCardinality ==
    ASSUME NEW S
    PROVE  Q!Cardinality(S) = Cardinality(S) /\ R!Cardinality(S) = Cardinality(S)
BY DEF Cardinality, Q!Cardinality, R!Cardinality

-----------------------------------------------------------------------------
(* The inductive invariant *)

ReqFields ==
    [mark : Nat, field_start : Nat, field_len : Nat, query_start : Nat, method : Cut, path : Cut, query : Cut,
     fragment : Cut, version : {"none"} \cup Q!digit, field : Cut, value : Cut, dropped : BOOLEAN,
     error : BOOLEAN, threw : BOOLEAN]
ReqSplit ==
    [sp1 : Pos, colon : Pos, query : Pos, hash : Pos, pathseen : BOOLEAN, sp2 : Pos,
     minor : {"none"} \cup Q!digit, line : Pos, hcolon : Pos, value : Pos, eol : Pos]

\* Offsets are inside the piece.
ReqGood(r) ==
    /\ r \in ReqFields
    /\ base + r.mark <= p /\ base + r.field_start <= p /\ base + r.field_len <= p

ReqLit(l) ==
    /\ l.groups \in 0..7 /\ l.after \in 0..3 /\ l.digits \in 0..4
    /\ DOMAIN l = {"at", "gap", "groups", "after", "digits", "octet", "dots"}

ReqTypes ==
    /\ bound \in Requests /\ relaxed \in BOOLEAN /\ json \in BOOLEAN /\ pct \in 0..2 /\ count \in 0..20
    /\ p \in 0..bound.length /\ PiecesOK /\ ReqGood(s) /\ split \in ReqSplit
    /\ result \in {"none", "request", "closed", "throws"}
    /\ ReqLit(lit)

\* mark is at q, or at the start of the piece if that came later.
MarkAt(r, q) == base + r.mark = Later(q, base)

\* The method is what came in the last piece of it.
MethodCut(r) ==
    split.sp1 >= 0 /\ split.sp1 < p /\ r.method = <<LastPiece(pieces, split.sp1), split.sp1>>

NoHeader == split.line = NULL /\ split.hcolon = NULL /\ split.value = NULL /\ split.eol = NULL

\* Where the path starts and ends.
PathStart == (IF split.colon # NULL THEN split.colon ELSE split.sp1) + 1
PathEnd == IF split.query # NULL THEN split.query ELSE IF split.hash # NULL THEN split.hash ELSE split.sp2
QueryEnd == IF split.hash # NULL THEN split.hash ELSE split.sp2

InPath ==
    /\ MethodCut(s) /\ NoHeader /\ s.query = <<>> /\ s.fragment = <<>>
    /\ split.query = NULL /\ split.hash = NULL /\ split.sp2 = NULL /\ split.colon < p /\ count = 0

ReqTarget == InPath /\ p = split.sp1 + 1 /\ split.colon = NULL /\ ~split.pathseen
ReqScheme == InPath /\ split.colon = NULL /\ ~split.pathseen /\ MarkAt(s, split.sp1 + 1)
ReqNoscheme == InPath /\ split.colon = NULL /\ MarkAt(s, split.sp1 + 1)
ReqHier == InPath /\ split.colon >= 0 /\ split.colon = p - 1
ReqPath == InPath /\ (split.colon # NULL \/ split.pathseen) /\ MarkAt(s, PathStart)

ReqPathCut(r) ==
    PathEnd >= 0 /\ PathEnd < p /\ r.path = <<Later(PathStart, LastPiece(pieces, PathEnd)), PathEnd>>

\* The query is cut at the offset that its start had in the piece it began in.
ReqQueryCut(r) ==
    IF split.query = NULL THEN r.query = <<>>
    ELSE /\ split.query < QueryEnd /\ QueryEnd < p
         /\ r.query = <<LastPiece(pieces, QueryEnd) + ((split.query + 1) - LastPiece(pieces, split.query + 1)),
                        QueryEnd>>
ReqFragmentCut(r) ==
    IF split.hash = NULL THEN r.fragment = <<>>
    ELSE r.fragment = <<Later(split.hash + 1, LastPiece(pieces, split.sp2)), split.sp2>>

BehindPath == MethodCut(s) /\ ReqPathCut(s) /\ NoHeader /\ split.sp2 = NULL /\ s.fragment = <<>> /\ count = 0

ReqQuery0 == BehindPath /\ split.query = p - 1 /\ split.query >= 0 /\ split.hash = NULL /\ s.query = <<>>
ReqQuery ==
    /\ BehindPath /\ split.query >= 0 /\ split.query + 1 < p /\ split.hash = NULL /\ s.query = <<>>
    /\ s.query_start = (split.query + 1) - LastPiece(pieces, split.query + 1)
ReqFrag0 == BehindPath /\ ReqQueryCut(s) /\ split.hash >= 0 /\ split.hash = p - 1
ReqFrag == BehindPath /\ ReqQueryCut(s) /\ split.hash >= 0 /\ split.hash < p /\ MarkAt(s, split.hash + 1)

\* The request line up to the version.
LineCut(r) ==
    /\ MethodCut(r) /\ ReqPathCut(r) /\ ReqQueryCut(r) /\ ReqFragmentCut(r)
    /\ split.sp2 >= 0 /\ split.sp2 < p

ReqVersion ==
    /\ LineCut(s) /\ NoHeader
    /\ pieces = {0} /\ count > 0 => s.mark + count = p
ReqEol == LineCut(s) /\ NoHeader /\ split.minor \in {"0", "1"} /\ (pieces = {0} => s.mark + 8 = p)

VersionCut(r) ==
    r.error \/ (r.version \in {split.minor, "1"} /\ (pieces = {0} => r.version = split.minor))
Head(r) == LineCut(r) /\ VersionCut(r)

\* The last header was stored if no read ended behind its name.
HeaderCut ==
    /\ split.line >= 0 /\ split.hcolon >= 0 /\ split.value >= 0 /\ split.hcolon < split.eol /\ split.eol < p
    /\ IF LastPiece(pieces, split.eol) < split.hcolon
       THEN /\ s.dropped = FALSE
            /\ s.field = <<Later(split.line, LastPiece(pieces, split.hcolon)), split.hcolon>>
            /\ s.value = <<split.value, split.eol>>
       ELSE s.dropped = TRUE

ReqLine == Head(s) /\ (NoHeader \/ HeaderCut)
ReqName ==
    /\ Head(s) /\ split.line >= 0 /\ split.line < p
    /\ split.hcolon = NULL /\ split.value = NULL /\ split.eol = NULL
    /\ base + s.field_start = Later(split.line, base)

\* The name, unless a read ended behind it.
NameCut ==
    /\ split.line >= 0 /\ split.line < split.hcolon /\ split.hcolon < p /\ split.eol = NULL
    /\ IF base <= split.hcolon
       THEN /\ base + s.field_start = Later(split.line, base)
            /\ base + s.field_start + s.field_len = split.hcolon
       ELSE s.field_len = 0
ReqColon == Head(s) /\ NameCut /\ split.value = NULL
ReqValue == Head(s) /\ NameCut /\ split.value >= 0 /\ (base <= split.hcolon => base + s.mark = split.value)

PathRegion == {"slash", "path", "authority", "userhost", "userport", "userinfo", "host", "regname", "literal",
               "closed", "port"}
JsonRegion == {"json", "noscheme", "json0", "jsondata", "jsonend", "done"} \cup PathRegion
XmlRegion == {"xmlname0", "xmlname", "xml", "xmlgt"}

\* What is known where the automaton is in a request with a request line.
LineAt(region) ==
    /\ region \notin {"json", "json0", "jsondata", "jsonend"}
    /\ region = "start" => p = 0 /\ s = Q!Parser0 /\ split = Q!Split0
    /\ region = "method" => /\ s.mark = 0 /\ s.method = <<>> /\ s.query = <<>> /\ s.fragment = <<>>
                            /\ split = Q!Split0
    /\ region \in XmlRegion => s.method = <<>>
    /\ region = "target" => ReqTarget
    /\ region = "scheme" => ReqScheme
    /\ region = "noscheme" => ReqNoscheme
    /\ region = "hier" => ReqHier
    /\ region \in PathRegion => ReqPath
    /\ region = "query0" => ReqQuery0
    /\ region = "query" => ReqQuery
    /\ region = "frag0" => ReqFrag0
    /\ region = "frag" => ReqFrag
    /\ region = "version" => ReqVersion
    /\ region = "eol" => ReqEol
    /\ region \in {"line", "cr"} => ReqLine
    /\ region \in {"name", "endcr"} => ReqName
    /\ region = "colon" => ReqColon
    /\ region = "value" => ReqValue
    /\ region = "done" => s.method = <<>> \/ Head(s)

\* Other requests report no method.
ReqAt(region) ==
    /\ json => region \in JsonRegion /\ s.method = <<>>
    /\ ~json => LineAt(region)

ReqEscapes == {"noscheme", "path", "userhost", "userinfo", "regname", "query", "frag"}

ReqInv ==
    /\ ReqTypes
    /\ ~s.threw => ReqAt(cs)
    /\ s.threw => cs \in {"version", "frag0"}
    /\ pct > 0 => cs \in ReqEscapes
    /\ result = "request" => cs = "done" /\ ~s.threw /\ ~s.error

QInv == parser = "request" => ReqInv

-----------------------------------------------------------------------------
(* What the grammar's actions change *)

SameParts(u, v) ==
    /\ u.method = v.method /\ u.query = v.query /\ u.fragment = v.fragment
    /\ u.version = v.version /\ u.error = v.error /\ u.threw = v.threw
SameField(u, v) ==
    /\ u.field_start = v.field_start /\ u.field_len = v.field_len
    /\ u.field = v.field /\ u.value = v.value /\ u.dropped = v.dropped

\* What a callback is given.
LEMMA CutHere ==
    ASSUME PiecesOK, NEW r, ReqGood(r)
    PROVE  /\ Q!From(r.mark) \in Cut /\ Q!From(r.query_start) \in Cut
           /\ <<base + r.field_start, base + r.field_start + r.field_len>> \in Cut
BY DEF PiecesOK, ReqGood, ReqFields, Q!From, Cut

LEMMA ReqMark ==
    ASSUME PiecesOK, NEW r, ReqGood(r)
    PROVE  /\ ReqGood(Q!mark(r)) /\ SameParts(Q!mark(r), r) /\ SameField(Q!mark(r), r)
           /\ base + Q!mark(r).mark = p /\ Q!mark(r).path = r.path /\ Q!start_value(r) = Q!mark(r)
<1>1. Q!mark(r) \in ReqFields
    BY DEF PiecesOK, ReqGood, ReqFields, Q!mark, Q!Offset
<1> QED
    BY <1>1 DEF PiecesOK, ReqGood, ReqFields, SameParts, SameField, Q!mark, Q!start_value, Q!Offset

LEMMA ReqStartField ==
    ASSUME PiecesOK, NEW r, ReqGood(r)
    PROVE  /\ ReqGood(Q!start_field(r)) /\ SameParts(Q!start_field(r), r)
           /\ base + Q!start_field(r).field_start = p /\ Q!start_field(r).path = r.path
<1>1. Q!start_field(r) \in ReqFields
    BY DEF PiecesOK, ReqGood, ReqFields, Q!start_field, Q!Offset
<1> QED
    BY <1>1 DEF PiecesOK, ReqGood, ReqFields, SameParts, Q!start_field, Q!Offset

LEMMA ReqWriteField ==
    ASSUME PiecesOK, NEW r, ReqGood(r)
    PROVE  /\ ReqGood(Q!write_field(r)) /\ SameParts(Q!write_field(r), r)
           /\ Q!write_field(r).field_start = r.field_start /\ Q!write_field(r).path = r.path
           /\ base + r.field_start + Q!write_field(r).field_len = p
<1>1. Q!write_field(r) \in ReqFields
    BY DEF PiecesOK, ReqGood, ReqFields, Q!write_field, Q!Offset
<1> QED
    BY <1>1 DEF PiecesOK, ReqGood, ReqFields, SameParts, Q!write_field, Q!Offset

LEMMA ReqStartQuery ==
    ASSUME PiecesOK, NEW r, ReqGood(r)
    PROVE  /\ ReqGood(Q!start_query(r)) /\ SameParts(Q!start_query(r), r)
           /\ Q!start_query(r).query_start = p - base /\ Q!start_query(r).path = r.path
<1>1. Q!start_query(r) \in ReqFields
    BY DEF PiecesOK, ReqGood, ReqFields, Q!start_query, Q!Offset
<1> QED
    BY <1>1 DEF PiecesOK, ReqGood, ReqFields, SameParts, Q!start_query, Q!Offset

LEMMA ReqWriteValue ==
    ASSUME PiecesOK, NEW r, ReqGood(r)
    PROVE  /\ ReqGood(Q!write_value(r)) /\ SameParts(Q!write_value(r), r) /\ Q!write_value(r).path = r.path
           /\ IF r.field_len = 0 THEN Q!write_value(r).dropped = TRUE
              ELSE /\ Q!write_value(r).dropped = FALSE
                   /\ Q!write_value(r).field = <<base + r.field_start, base + r.field_start + r.field_len>>
                   /\ Q!write_value(r).value = <<base + r.mark, p>>
<1>1. Q!write_value(r) \in ReqFields
    BY CutHere DEF ReqGood, ReqFields, Q!write_value
<1> QED
    BY <1>1 DEF PiecesOK, ReqGood, ReqFields, SameParts, Q!write_value, Q!From

LEMMA ReqMethod ==
    ASSUME PiecesOK, NEW r, ReqGood(r), NEW known \in BOOLEAN
    PROVE  /\ ReqGood(Q!request_method(r, known))
           /\ Q!request_method(r, known).method = <<base + r.mark, p>>
           /\ Q!request_method(r, known).query = r.query /\ Q!request_method(r, known).fragment = r.fragment
           /\ Q!request_method(r, known).threw = r.threw
<1>1. Q!request_method(r, known) \in ReqFields
    BY CutHere DEF ReqGood, ReqFields, Q!request_method
<1> QED
    BY <1>1 DEF PiecesOK, ReqGood, ReqFields, Q!request_method, Q!From

LEMMA ReqPathField ==
    ASSUME PiecesOK, NEW r, ReqGood(r)
    PROVE  /\ ReqGood(Q!request_path(r)) /\ SameParts(Q!request_path(r), r)
           /\ Q!request_path(r).path = <<base + r.mark, p>>
<1>1. Q!request_path(r) \in ReqFields
    BY CutHere DEF ReqGood, ReqFields, Q!request_path
<1> QED
    BY <1>1 DEF PiecesOK, ReqGood, ReqFields, SameParts, Q!request_path, Q!From

LEMMA ReqFragment ==
    ASSUME PiecesOK, NEW r, ReqGood(r)
    PROVE  /\ ReqGood(Q!fragment(r)) /\ Q!fragment(r).fragment = <<base + r.mark, p>>
           /\ Q!fragment(r).method = r.method /\ Q!fragment(r).path = r.path /\ Q!fragment(r).query = r.query
           /\ Q!fragment(r).threw = r.threw
<1>1. Q!fragment(r) \in ReqFields
    BY CutHere DEF ReqGood, ReqFields, Q!fragment
<1> QED
    BY <1>1 DEF PiecesOK, ReqGood, ReqFields, Q!fragment, Q!From

LEMMA ReqQueryString ==
    ASSUME PiecesOK, NEW r, ReqGood(r)
    PROVE  /\ ReqGood(Q!query_string(r))
           /\ Q!query_string(r).threw \/ Q!query_string(r).query = <<base + r.query_start, p>>
           /\ Q!query_string(r).method = r.method /\ Q!query_string(r).path = r.path
           /\ Q!query_string(r).fragment = r.fragment
<1>1. Q!query_string(r) \in ReqFields
    BY CutHere DEF ReqGood, ReqFields, Q!query_string
<1> QED
    BY <1>1 DEF PiecesOK, ReqGood, ReqFields, Q!query_string, Q!From

LEMMA ReqHttpVersion ==
    ASSUME PiecesOK, NEW r, ReqGood(r), NEW minor \in {"0", "1"}
    PROVE  /\ ReqGood(Q!http_version(r, minor))
           /\ Q!http_version(r, minor).error \/ Q!http_version(r, minor).version \in {minor, "1"}
           /\ base + r.mark + 8 = p => Q!http_version(r, minor).version = minor
           /\ Q!http_version(r, minor).method = r.method /\ Q!http_version(r, minor).path = r.path
           /\ Q!http_version(r, minor).query = r.query /\ Q!http_version(r, minor).fragment = r.fragment
           /\ Q!http_version(r, minor).threw = r.threw
<1>1. \/ Q!http_version(r, minor) = [r EXCEPT !.version = "1"] /\ base + r.mark = p
      \/ Q!http_version(r, minor) = [r EXCEPT !.version = minor]
      \/ Q!http_version(r, minor) = [r EXCEPT !.error = TRUE] /\ base + r.mark + 8 # p
    BY DEF PiecesOK, ReqGood, ReqFields, Q!http_version, Q!Offset
<1>2. "1" \in Q!digit /\ minor \in Q!digit
    BY DEF Q!digit
<1>3. Q!http_version(r, minor) \in ReqFields
    BY <1>1, <1>2 DEF ReqGood, ReqFields
<1> QED
    BY <1>1, <1>3 DEF PiecesOK, ReqGood, ReqFields

-----------------------------------------------------------------------------
(* Where the delimiters are *)

SameTarget(d, e) ==
    d.sp1 = e.sp1 /\ d.colon = e.colon /\ d.query = e.query /\ d.hash = e.hash /\ d.sp2 = e.sp2
Blank == " "
Blanks == {" ", "tab"}

LEMMA BlankChar ==
    Blank \notin {"%", "#", "?", "/", ":", "CR", "LF"} /\ Blanks = {Blank, "tab"}
BY DEF Blank, Blanks

SameHeader(d, e) == d.line = e.line /\ d.hcolon = e.hcolon /\ d.value = e.value /\ d.eol = e.eol

LEMMA ReqSplitTypes ==
    ASSUME split \in ReqSplit, p \in Nat, NEW c
    PROVE  Q!SplitStep(split, c) \in ReqSplit
<1>1. p \in Pos /\ Q!NULL \in Pos
    BY DEF Pos, NULL, Q!NULL
<1>2. Q!InTarget(split, c) \in ReqSplit
    BY <1>1 DEF Q!InTarget, ReqSplit
<1>3. Q!NewLine(split) \in ReqSplit
    BY <1>1 DEF Q!NewLine, ReqSplit
<1>4. ASSUME NEW g \in ReqSplit
      PROVE  Q!InHeader(g, c) \in ReqSplit
    <2>1. [g EXCEPT !.hcolon = p, !.eol = Q!NULL] \in ReqSplit
        BY <1>1, <1>4 DEF ReqSplit
    <2>2. [g EXCEPT !.eol = p, !.value = IF @ = Q!NULL THEN p ELSE @] \in ReqSplit
        BY <1>1, <1>4 DEF ReqSplit
    <2>3. [g EXCEPT !.value = p] \in ReqSplit
        BY <1>1, <1>4 DEF ReqSplit
    <2> QED
        BY <1>4, <2>1, <2>2, <2>3 DEF Q!InHeader
<1>5. [split EXCEPT !.sp1 = p] \in ReqSplit
    BY <1>1 DEF ReqSplit
<1>6. [split EXCEPT !.minor = IF c \in Q!digit THEN c ELSE @] \in ReqSplit
    BY DEF ReqSplit
<1> QED
    BY <1>2, <1>3, <1>4, <1>5, <1>6 DEF Q!SplitStep

\* In the target.
LEMMA TargetSplit ==
    ASSUME split \in ReqSplit, split.sp1 # NULL, split.sp2 = NULL, NEW c, NEW d, d = Q!SplitStep(split, c)
    PROVE  /\ SameHeader(d, split) /\ d.minor = split.minor /\ d.sp1 = split.sp1
           /\ d.sp2 = IF c = Blank THEN p ELSE NULL
           /\ d.hash = IF c = "#" /\ split.hash = NULL THEN p ELSE split.hash
           /\ d.query = IF c = "?" /\ split.hash = NULL /\ split.query = NULL THEN p ELSE split.query
           /\ c # ":" \/ split.hash # NULL \/ split.query # NULL \/ split.pathseen \/ split.colon # NULL
                 => d.colon = split.colon
           /\ c = ":" /\ split.hash = NULL /\ split.query = NULL /\ ~split.pathseen /\ split.colon = NULL
                 => d.colon = p
           /\ c # "/" => d.pathseen = split.pathseen
           /\ split.pathseen \/ (c = "/" /\ split.hash = NULL /\ split.query = NULL) => d.pathseen
<1> USE DEF ReqSplit, Q!NULL, NULL
<1>1. d = Q!InTarget(split, c)
    BY DEF Q!SplitStep
<1> QED
    BY <1>1 DEF Q!InTarget, SameHeader, Blank

\* In the version.
LEMMA VersionSplit ==
    ASSUME split \in ReqSplit, split.sp1 # NULL, split.sp2 # NULL, split.line = NULL, cs # "line",
           NEW c, NEW d, d = Q!SplitStep(split, c)
    PROVE  /\ SameTarget(d, split) /\ SameHeader(d, split)
           /\ d.minor = IF c \in Q!digit THEN c ELSE split.minor
<1>1. d = [split EXCEPT !.minor = IF c \in Q!digit THEN c ELSE @]
    BY DEF Q!SplitStep, Q!NULL, NULL
<1> QED
    BY <1>1 DEF ReqSplit, SameTarget, SameHeader

\* At the start of a line.
LEMMA LineSplit ==
    ASSUME split \in ReqSplit, split.sp1 # NULL, split.sp2 # NULL, cs = "line",
           split.line = NULL \/ split.hcolon # NULL, NEW c, c # ":", NEW d, d = Q!SplitStep(split, c)
    PROVE  /\ SameTarget(d, split) /\ d.minor = split.minor
           /\ d.line = p /\ d.hcolon = NULL /\ d.value = NULL /\ d.eol = NULL
<1>1. d = Q!InHeader(Q!NewLine(split), c)
    BY DEF Q!SplitStep, Q!NULL, NULL
<1>2. d = Q!NewLine(split)
    BY <1>1 DEF Q!InHeader, Q!NewLine, ReqSplit
<1> QED
    BY <1>2 DEF Q!NewLine, ReqSplit, SameTarget, Q!NULL, NULL

\* In a header.
LEMMA HeaderSplit ==
    ASSUME split \in ReqSplit, split.sp1 # NULL, split.sp2 # NULL, cs # "line", split.line # NULL,
           NEW c, NEW d, d = Q!SplitStep(split, c)
    PROVE  /\ SameTarget(d, split) /\ d.minor = split.minor /\ d.line = split.line
           /\ split.hcolon = NULL /\ c # ":" => d = split
           /\ split.hcolon = NULL /\ c = ":" => d.hcolon = p /\ d.value = split.value /\ d.eol = NULL
           /\ split.hcolon # NULL =>
                 /\ d.hcolon = split.hcolon
                 /\ d.eol = IF c \in {"CR", "LF"} /\ split.eol = NULL THEN p ELSE split.eol
                 /\ split.value # NULL => d.value = split.value
                 /\ split.value = NULL => d.value = IF c \in Blanks THEN NULL ELSE p
<1> USE DEF ReqSplit, Q!NULL, NULL
<1>1. d = Q!InHeader(split, c)
    BY DEF Q!SplitStep
<1> QED
    BY <1>1 DEF Q!InHeader, SameTarget, Blanks

-----------------------------------------------------------------------------
(* Steps of the automaton *)

LEMMA ReqStep ==
    ASSUME ReqInv, NEW c, NEW to, NEW r, ReqGood(r), Q!Consumes(c, to, r), ~r.threw, ReqAt(to)',
           json' \in BOOLEAN, pct' \in 0..2, count' \in 0..20, ReqLit(lit'), pct' > 0 => to \in ReqEscapes
    PROVE  ReqInv'
<1>1. p' = p + 1 /\ s' = r /\ cs' = to /\ split' = Q!SplitStep(split, c) /\ result' = "none"
      /\ UNCHANGED <<bound, relaxed, base, pieces, result>> /\ p < bound.length
    BY DEF Q!Consumes, Q!Running
<1>2. p \in Nat /\ bound.length \in Nat /\ PiecesOK /\ p' \in 0..bound'.length
    BY <1>1, BoundsAssumption DEF ReqInv, ReqTypes
<1>3. ReqGood(s)'
    BY <1>1, <1>2 DEF ReqGood, ReqFields, PiecesOK
<1>4. PiecesOK' /\ split' \in ReqSplit
    BY <1>1, <1>2, PiecesStep, ReqSplitTypes DEF ReqInv, ReqTypes
<1>5. ReqTypes'
    BY <1>1, <1>2, <1>3, <1>4 DEF ReqInv, ReqTypes
<1> QED
    BY <1>1, <1>5 DEF ReqInv

\* An action that throws stops the automaton.
LEMMA ReqThrows ==
    ASSUME ReqInv, NEW c, NEW to \in {"version", "frag0"}, NEW r, ReqGood(r), Q!Reads(c, to, r), r.threw,
           c # "%"
    PROVE  ReqInv'
<1>1. p' = p + 1 /\ s' = r /\ cs' = to /\ split' = Q!SplitStep(split, c) /\ result' = "none"
      /\ UNCHANGED <<bound, relaxed, base, pieces, result, json, count, lit>> /\ p < bound.length /\ pct' = 0
    BY DEF Q!Reads, Q!Consumes, Q!Running
<1>2. p \in Nat /\ bound.length \in Nat /\ PiecesOK /\ p' \in 0..bound'.length
    BY <1>1, BoundsAssumption DEF ReqInv, ReqTypes
<1>3. ReqGood(s)'
    BY <1>1, <1>2 DEF ReqGood, ReqFields, PiecesOK
<1>4. PiecesOK' /\ split' \in ReqSplit
    BY <1>1, <1>2, PiecesStep, ReqSplitTypes DEF ReqInv, ReqTypes
<1>5. ReqTypes'
    BY <1>1, <1>2, <1>3, <1>4 DEF ReqInv, ReqTypes
<1> QED
    BY <1>1, <1>5 DEF ReqInv

LEMMA ReqReads ==
    ASSUME ReqInv, NEW c, NEW to, NEW r, ReqGood(r), Q!Reads(c, to, r), ~r.threw, ReqAt(to)',
           c = "%" => to \in ReqEscapes
    PROVE  ReqInv'
BY ReqStep DEF Q!Reads, ReqInv, ReqTypes

\* What the invariant says where a character is read.
LEMMA ReqHere ==
    ASSUME ReqInv, NEW c, NEW to, NEW r, Q!Consumes(c, to, r)
    PROVE  /\ ReqAt(cs) /\ ReqGood(s) /\ split \in ReqSplit /\ PiecesOK /\ p \in Nat /\ base \in Nat /\ base <= p
           /\ ~s.threw /\ p' = p + 1 /\ s' = r /\ split' = Q!SplitStep(split, c) /\ cs' = to
           /\ base' = base /\ pieces' = pieces /\ LastPiece(pieces, p) = base
           /\ ReqLit(lit) /\ json \in BOOLEAN /\ count \in 0..20
BY LastPieceIs DEF ReqInv, ReqTypes, Q!Consumes, Q!Running, PiecesOK

\* The characters of a target.
LEMMA ReqChars ==
    /\ \A c \in Q!regchar \cup Q!xdigit \cup {"%", "@"} : c \notin {Blank, "?", "#", "/", ":"}
    /\ \A c \in Q!pchar \cup {"%"} : c \notin {Blank, "?", "#", "/"}
    /\ Q!alpha \subseteq Q!regchar /\ Q!digit \subseteq Q!regchar /\ {"+", "-", ".", "v"} \subseteq Q!regchar
    /\ Q!xdigit \subseteq Q!regchar
BY DEF Q!regchar, Q!regular, Q!alpha, Q!upper, Q!upperhex, Q!lowerhex, Q!digit, Q!xdigit, Q!braces, Q!pchar, Blank


-----------------------------------------------------------------------------
(* What was cut stays cut *)

LEMMA SplitInts ==
    ASSUME NEW d \in ReqSplit
    PROVE  /\ d.sp1 \in Int /\ d.colon \in Int /\ d.query \in Int /\ d.hash \in Int /\ d.sp2 \in Int
           /\ d.line \in Int /\ d.hcolon \in Int /\ d.value \in Int /\ d.eol \in Int
           /\ d.sp1 >= -1 /\ d.colon >= -1 /\ d.query >= -1 /\ d.hash >= -1 /\ d.sp2 >= -1
           /\ d.line >= -1 /\ d.hcolon >= -1 /\ d.value >= -1 /\ d.eol >= -1
BY DEF ReqSplit, Pos, NULL

\* No piece begins before what was read.
PastKept == p \in Nat /\ p' \in Nat /\ p <= p' /\ \A q \in Int : q < p => LastPiece(pieces', q) = LastPiece(pieces, q)

LEMMA MethodKept ==
    ASSUME PastKept, split \in ReqSplit, MethodCut(s), split'.sp1 = split.sp1, s'.method = s.method
    PROVE  MethodCut(s)'
<1>1. split.sp1 \in Int
    BY SplitInts
<1> QED
    BY <1>1 DEF MethodCut, PastKept

LEMMA PathKept ==
    ASSUME PastKept, split \in ReqSplit, ReqPathCut(s), PathStart' = PathStart, PathEnd' = PathEnd, s'.path = s.path
    PROVE  ReqPathCut(s)'
<1>1. PathEnd \in Int /\ PathStart \in Int
    BY SplitInts DEF PathEnd, PathStart
<1> QED
    BY <1>1 DEF ReqPathCut, PastKept

LEMMA QueryKept ==
    ASSUME PastKept, split \in ReqSplit, ReqQueryCut(s), split'.query = split.query,
           split.query # NULL => QueryEnd' = QueryEnd, s'.query = s.query
    PROVE  ReqQueryCut(s)'
<1>1. QueryEnd \in Int /\ split.query \in Int
    BY SplitInts DEF QueryEnd
<1>2. CASE split.query = NULL
    BY <1>2 DEF ReqQueryCut
<1>3. CASE split.query # NULL
    <2>1. /\ split.query < QueryEnd /\ QueryEnd < p /\ QueryEnd' = QueryEnd
          /\ s.query = <<LastPiece(pieces, QueryEnd) + ((split.query + 1) - LastPiece(pieces, split.query + 1)),
                         QueryEnd>>
        BY <1>3 DEF ReqQueryCut
    <2>2. LastPiece(pieces', QueryEnd) = LastPiece(pieces, QueryEnd)
        BY <1>1, <2>1 DEF PastKept
    <2>3. LastPiece(pieces', split.query + 1) = LastPiece(pieces, split.query + 1)
        BY <1>1, <2>1 DEF PastKept
    <2>4. QueryEnd < p'
        BY <1>1, <2>1 DEF PastKept
    <2> QED
        BY <1>3, <2>1, <2>2, <2>3, <2>4 DEF ReqQueryCut
<1> QED
    BY <1>2, <1>3

LEMMA FragmentKept ==
    ASSUME PastKept, split \in ReqSplit, ReqFragmentCut(s), split.sp2 < p, split'.hash = split.hash,
           split'.sp2 = split.sp2, s'.fragment = s.fragment
    PROVE  ReqFragmentCut(s)'
<1>1. split.sp2 \in Int
    BY SplitInts
<1> QED
    BY <1>1 DEF ReqFragmentCut, PastKept

LEMMA TargetKept ==
    ASSUME SameTarget(split', split)
    PROVE  PathStart' = PathStart /\ PathEnd' = PathEnd /\ QueryEnd' = QueryEnd
BY DEF SameTarget, PathStart, PathEnd, QueryEnd

LEMMA LineKept ==
    ASSUME PastKept, split \in ReqSplit, SameTarget(split', split), LineCut(s),
           s'.method = s.method, s'.path = s.path, s'.query = s.query, s'.fragment = s.fragment
    PROVE  LineCut(s)'
<1>1. split.sp2 \in Int
    BY SplitInts
<1>2. MethodCut(s)' /\ ReqPathCut(s)' /\ ReqQueryCut(s)' /\ ReqFragmentCut(s)'
    BY TargetKept, MethodKept, PathKept, QueryKept, FragmentKept DEF LineCut, SameTarget
<1> QED
    BY <1>1, <1>2 DEF LineCut, SameTarget, PastKept

\* What the invariant says where a character is read, and what reading it keeps.
LEMMA ReqHereKept ==
    ASSUME ReqInv, NEW c, NEW to, NEW r, Q!Consumes(c, to, r)
    PROVE  PastKept /\ split' \in ReqSplit
<1>1. p \in Nat /\ split \in ReqSplit /\ p' = p + 1 /\ pieces' = pieces /\ split' = Q!SplitStep(split, c)
    BY ReqHere
<1> QED
    BY <1>1, ReqSplitTypes DEF PastKept

-----------------------------------------------------------------------------
(* The request line *)

\* Into the path, or along it.
LEMMA PathGoesOn ==
    ASSUME ReqInv, NEW c, NEW to \in PathRegion \cup {"noscheme", "scheme"}, NEW r, ReqGood(r), SameParts(r, s),
           Q!Consumes(c, to, r), UNCHANGED <<json, count>>, ReqLit(lit'), pct' \in 0..2,
           pct' > 0 => to \in ReqEscapes, json => to \in JsonRegion,
           ~json => /\ InPath /\ MarkAt(r, PathStart) /\ c \notin {Blank, "?", "#"}
                    /\ c = ":" => split.colon # NULL \/ split.pathseen
                    /\ to \in PathRegion => split.colon # NULL \/ split.pathseen \/ c = "/"
                    /\ to \in {"noscheme", "scheme"} => split.colon = NULL
                    /\ to = "scheme" => ~split.pathseen /\ c # "/"
    PROVE  ReqInv'
<1> USE DEF NULL
<1>1. /\ ReqAt(cs) /\ ReqGood(s) /\ split \in ReqSplit /\ PiecesOK /\ p \in Nat /\ base \in Nat /\ base <= p
      /\ ~s.threw /\ p' = p + 1 /\ s' = r /\ split' = Q!SplitStep(split, c)
      /\ base' = base /\ pieces' = pieces /\ json \in BOOLEAN /\ count \in 0..20
    BY ReqHere
<1>2. CASE json
    <2>1. s.method = <<>> /\ s'.method = <<>>
        BY <1>1, <1>2 DEF ReqAt, SameParts
    <2>2. ReqAt(to)'
        BY <1>2, <2>1 DEF ReqAt
    <2> QED
        BY <1>1, <2>2, ReqStep DEF SameParts
<1>3. CASE ~json
    <2>1. /\ MethodCut(s) /\ NoHeader /\ s.query = <<>> /\ s.fragment = <<>> /\ count = 0
          /\ split.query = NULL /\ split.hash = NULL /\ split.sp2 = NULL /\ split.colon < p
        BY <1>3 DEF InPath
    <2>2. split.sp1 # NULL /\ split.colon \in Int
        <3>1. split.sp1 \in Int /\ split.colon \in Int
            BY <1>1, SplitInts
        <3>2. split.sp1 >= 0
            BY <2>1 DEF MethodCut
        <3> QED
            BY <3>1, <3>2
    <2>3. c \notin {Blank, "?", "#"} /\ (c # ":" \/ split.colon # NULL \/ split.pathseen)
        BY <1>3
    <2>4. /\ SameHeader(split', split) /\ split'.sp1 = split.sp1 /\ split'.sp2 = NULL /\ split'.hash = NULL
          /\ split'.query = NULL /\ split'.colon = split.colon
        BY <1>1, <2>1, <2>2, <2>3, TargetSplit
    <2>5. /\ split.pathseen \/ c = "/" => split'.pathseen
          /\ c # "/" => split'.pathseen = split.pathseen
        BY <1>1, <2>1, <2>2, TargetSplit
    <2>6. MethodCut(s)'
        BY <1>1, <2>1, <2>4, MethodKept, ReqHereKept DEF SameParts
    <2>7. NoHeader' /\ s'.query = <<>> /\ s'.fragment = <<>>
        BY <1>1, <2>1, <2>4 DEF NoHeader, SameHeader, SameParts
    <2>14. split'.colon < p'
        BY <1>1, <2>1, <2>2, <2>4
    <2>8. InPath'
        BY <1>3, <2>1, <2>4, <2>6, <2>7, <2>14 DEF InPath
    <2>9. MarkAt(s, PathStart)'
        <3>1. PathStart' = PathStart
            BY <2>4 DEF PathStart
        <3> QED
            BY <1>1, <1>3, <3>1 DEF MarkAt, Later
    <2>10. to = "scheme" => ReqScheme'
        <3>1. to = "scheme" => split'.colon = NULL /\ ~split'.pathseen
            BY <1>3, <2>4, <2>5
        <3> QED
            BY <2>8, <2>9, <3>1 DEF ReqScheme, PathStart, MarkAt
    <2>11. to = "noscheme" => ReqNoscheme'
        <3>1. to = "noscheme" => split'.colon = NULL
            BY <1>3, <2>4
        <3> QED
            BY <2>8, <2>9, <3>1 DEF ReqNoscheme, PathStart, MarkAt
    <2>12. to \in PathRegion => ReqPath'
        BY <1>3, <2>4, <2>5, <2>8, <2>9 DEF ReqPath
    <2>13. ReqAt(to)'
        BY <1>3, <2>10, <2>11, <2>12 DEF ReqAt, LineAt, PathRegion, XmlRegion
    <2> QED
        BY <1>1, <2>13, ReqStep DEF SameParts
<1> QED
    BY <1>1, <1>2, <1>3

\* The end of the path.
LEMMA PathIsCut ==
    ASSUME ReqInv, NEW r, ReqGood(r), SameParts(r, s), Q!PathEnds(r), ~json => InPath /\ MarkAt(r, PathStart)
    PROVE  ReqInv'
<1> USE DEF NULL
<1> DEFINE u == Q!request_path(r)
<1>1. PICK c \in {Blank, "#", "?"}, to \in {"version", "frag0", "query0", "json0"} :
         /\ Q!Reads(c, to, u)
         /\ json => to = "json0"
         /\ ~json => <<c, to>> \in {<<Blank, "version">>, <<"#", "frag0">>, <<"?", "query0">>}
    BY DEF Q!PathEnds, Blank
<1>2. /\ ReqAt(cs) /\ ReqGood(s) /\ split \in ReqSplit /\ PiecesOK /\ p \in Nat /\ base \in Nat /\ base <= p
      /\ ~s.threw /\ p' = p + 1 /\ s' = u /\ split' = Q!SplitStep(split, c)
      /\ base' = base /\ pieces' = pieces /\ LastPiece(pieces, p) = base /\ json' = json /\ count' = count
      /\ json \in BOOLEAN
    BY <1>1, ReqHere DEF Q!Reads
<1>3. ReqGood(u) /\ SameParts(u, r) /\ u.path = <<base + r.mark, p>>
    BY <1>2, ReqPathField
<1>6. PastKept
    BY <1>1, ReqHereKept DEF Q!Reads
<1> HIDE DEF u
<1>4. CASE json
    <2>1. s'.method = <<>>
        BY <1>2, <1>3, <1>4 DEF ReqAt, SameParts
    <2>2. ReqAt(to)'
        BY <1>1, <1>2, <1>4, <2>1 DEF ReqAt, JsonRegion
    <2> QED
        BY <1>1, <1>2, <1>3, <2>2, ReqReads, BlankChar DEF SameParts
<1>5. CASE ~json
    <2>0. /\ MethodCut(s) /\ NoHeader /\ s.query = <<>> /\ s.fragment = <<>> /\ count = 0
          /\ split.query = NULL /\ split.hash = NULL /\ split.sp2 = NULL /\ split.colon < p
          /\ base + r.mark = Later(PathStart, base)
        BY <1>5 DEF InPath, MarkAt
    <2>1. split.sp1 # NULL
        <3>1. split.sp1 \in Int
            BY <1>2, SplitInts
        <3>2. split.sp1 >= 0
            BY <2>0 DEF MethodCut
        <3> QED
            BY <3>1, <3>2
    <2>2. /\ SameHeader(split', split) /\ split'.sp1 = split.sp1 /\ split'.colon = split.colon
          /\ split'.sp2 = IF c = Blank THEN p ELSE NULL
          /\ split'.hash = IF c = "#" THEN p ELSE NULL
          /\ split'.query = IF c = "?" THEN p ELSE NULL
        BY <1>1, <1>2, <2>0, <2>1, TargetSplit, BlankChar
    <2>3. MethodCut(s)'
        BY <1>2, <1>3, <1>6, <2>0, <2>2, MethodKept DEF SameParts
    <2>4. NoHeader' /\ s'.query = <<>> /\ s'.fragment = <<>>
        BY <1>2, <1>3, <2>0, <2>2 DEF NoHeader, SameHeader, SameParts
    <2>5. PathEnd' = p /\ PathStart' = PathStart
        BY <1>2, <2>2 DEF PathEnd, PathStart
    <2>6. ReqPathCut(s)'
        <3>1. s'.path = <<Later(PathStart, LastPiece(pieces, p)), p>>
            BY <1>2, <1>3, <2>0
        <3>2. p >= 0 /\ p < p'
            BY <1>2
        <3> QED
            BY <1>2, <2>5, <3>1, <3>2 DEF ReqPathCut
    <2>10. p >= 0 /\ p < p' /\ p' = p + 1 /\ p = p' - 1
        BY <1>2
    <2>7. CASE c = Blank /\ to = "version"
        <3>1. split'.sp2 = p /\ split'.query = NULL /\ split'.hash = NULL
            BY <1>2, <2>2, <2>7, BlankChar
        <3>2. ReqQueryCut(s)' /\ ReqFragmentCut(s)'
            BY <2>4, <3>1 DEF ReqQueryCut, ReqFragmentCut
        <3>3. LineCut(s)'
            BY <2>3, <2>6, <2>10, <3>1, <3>2 DEF LineCut
        <3>4. ReqVersion'
            BY <1>2, <2>0, <2>4, <3>3 DEF ReqVersion
        <3>5. ReqAt("version")'
            BY <1>2, <1>5, <3>4 DEF ReqAt, LineAt, PathRegion, XmlRegion
        <3> QED
            BY <1>1, <1>2, <1>3, <2>7, <3>5, ReqReads, BlankChar DEF SameParts
    <2>8. CASE c = "#" /\ to = "frag0"
        <3>1. split'.sp2 = NULL /\ split'.query = NULL /\ split'.hash = p
            BY <1>2, <2>2, <2>8, BlankChar
        <3>2. BehindPath' /\ ReqQueryCut(s)'
            BY <1>2, <2>0, <2>3, <2>4, <2>6, <3>1 DEF BehindPath, ReqQueryCut
        <3>3. ReqFrag0'
            BY <2>10, <3>1, <3>2 DEF ReqFrag0
        <3>4. ReqAt("frag0")'
            BY <1>2, <1>5, <3>3 DEF ReqAt, LineAt, PathRegion, XmlRegion
        <3> QED
            BY <1>1, <1>2, <1>3, <2>8, <3>4, ReqReads DEF SameParts
    <2>9. CASE c = "?" /\ to = "query0"
        <3>1. split'.sp2 = NULL /\ split'.query = p /\ split'.hash = NULL
            BY <1>2, <2>2, <2>9, BlankChar
        <3>2. BehindPath'
            BY <1>2, <2>0, <2>3, <2>4, <2>6, <3>1 DEF BehindPath
        <3>3. ReqQuery0'
            BY <2>4, <2>10, <3>1, <3>2 DEF ReqQuery0
        <3>4. ReqAt("query0")'
            BY <1>2, <1>5, <3>3 DEF ReqAt, LineAt, PathRegion, XmlRegion
        <3> QED
            BY <1>1, <1>2, <1>3, <2>9, <3>4, ReqReads DEF SameParts
    <2> QED
        BY <1>1, <1>5, <2>7, <2>8, <2>9
<1> QED
    BY <1>2, <1>4, <1>5

-----------------------------------------------------------------------------
(* Behind the first character of the path *)

LEMMA PathEndsRuns ==
    ASSUME NEW r, Q!PathEnds(r)
    PROVE  Q!Running
BY DEF Q!PathEnds, Q!Reads, Q!Consumes

\* What holds in the path while the automaton runs.
LEMMA InThePath ==
    ASSUME ReqInv, Q!Running, cs \in PathRegion
    PROVE  /\ ReqGood(s) /\ PiecesOK /\ ~s.threw /\ SameParts(s, s) /\ json \in BOOLEAN
           /\ ~json => InPath /\ MarkAt(s, PathStart) /\ (split.colon # NULL \/ split.pathseen)
<1>1. ReqAt(cs) /\ ReqGood(s) /\ PiecesOK /\ ~s.threw /\ json \in BOOLEAN
    BY DEF ReqInv, ReqTypes, Q!Running
<1>2. ~json => ReqPath
    BY <1>1 DEF ReqAt, LineAt
<1> QED
    BY <1>1, <1>2 DEF ReqPath, SameParts

LEMMA PathConsumes ==
    ASSUME ReqInv, cs \in PathRegion, NEW c, c \notin {Blank, "?", "#"}, NEW to \in PathRegion,
           Q!Consumes(c, to, s), UNCHANGED <<json, count>>, ReqLit(lit'), pct' \in 0..2,
           pct' > 0 => to \in ReqEscapes
    PROVE  ReqInv'
<1>1. Q!Running
    BY DEF Q!Consumes
<1>2. to \in PathRegion \cup {"noscheme", "scheme"} /\ to \in JsonRegion /\ to \notin {"noscheme", "scheme"}
    BY DEF JsonRegion, PathRegion
<1> QED
    BY <1>1, <1>2, InThePath, PathGoesOn

LEMMA PathReads ==
    ASSUME ReqInv, cs \in PathRegion, NEW c, c \notin {Blank, "?", "#"}, NEW to \in PathRegion,
           Q!Reads(c, to, s), c = "%" => to \in ReqEscapes
    PROVE  ReqInv'
<1>1. Q!Consumes(c, to, s) /\ UNCHANGED <<json, count, lit>> /\ pct' = (IF c = "%" THEN 2 ELSE 0)
    BY DEF Q!Reads
<1>2. ReqLit(lit')
    BY <1>1 DEF ReqInv, ReqTypes
<1>3. pct' \in 0..2 /\ (pct' > 0 => to \in ReqEscapes)
    BY <1>1
<1> QED
    BY <1>1, <1>2, <1>3, PathConsumes

LEMMA PathStops ==
    ASSUME ReqInv, cs \in PathRegion, Q!PathEnds(s)
    PROVE  ReqInv'
BY PathEndsRuns, InThePath, PathIsCut

\* "[" opens an IP literal.
LEMMA PathOpens ==
    ASSUME ReqInv, cs \in PathRegion, pct = 0, Q!Consumes("[", "literal", s), lit' = Q!Lit0,
           UNCHANGED <<pct, json, count>>
    PROVE  ReqInv'
<1>1. ReqLit(lit')
    BY DEF ReqLit, Q!Lit0
<1>2. "[" \notin {Blank, "?", "#"}
    BY DEF Blank
<1>3. "literal" \in PathRegion
    BY DEF PathRegion
<1> QED
    BY <1>1, <1>2, <1>3, PathConsumes

\* One step along the path.
PathMove ==
    \/ Q!PathEnds(s)
    \/ \E c \in Q!pchar \cup {"/", "%"}, to \in PathRegion :
          Q!Reads(c, to, s) /\ (c = "%" => to \in ReqEscapes)
    \/ pct = 0 /\ Q!Consumes("[", "literal", s) /\ lit' = Q!Lit0 /\ UNCHANGED <<pct, json, count>>

LEMMA PathMoves ==
    ASSUME ReqInv, cs \in PathRegion, PathMove
    PROVE  ReqInv'
<1>1. CASE Q!PathEnds(s)
    BY <1>1, PathStops
<1>2. ASSUME NEW c \in Q!pchar \cup {"/", "%"}, NEW to \in PathRegion, Q!Reads(c, to, s), c = "%" => to \in ReqEscapes
      PROVE  ReqInv'
    <2>1. c \notin {Blank, "?", "#"}
        BY ReqChars, BlankChar
    <2> QED
        BY <1>2, <2>1, PathReads
<1>3. CASE pct = 0 /\ Q!Consumes("[", "literal", s) /\ lit' = Q!Lit0 /\ UNCHANGED <<pct, json, count>>
    BY <1>3, PathOpens
<1> QED
    BY <1>1, <1>2, <1>3 DEF PathMove

LEMMA PathSteps ==
    ASSUME Q!Path \/ Q!Slash \/ Q!Closed \/ Q!Port
    PROVE  cs \in PathRegion /\ PathMove
<1>1. Q!digit \subseteq Q!pchar /\ "%" \notin Q!digit /\ ":" \in Q!pchar
    BY DEF Q!pchar, Q!regular, Q!digit
<1>2. CASE Q!Path
    BY <1>1, <1>2 DEF Q!Path, Q!In, PathRegion, PathMove, ReqEscapes
<1>3. CASE Q!Slash
    BY <1>1, <1>3 DEF Q!Slash, Q!In, PathRegion, PathMove, ReqEscapes
<1>4. CASE Q!Closed
    BY <1>1, <1>4 DEF Q!Closed, Q!In, PathRegion, PathMove, ReqEscapes
<1>5. CASE Q!Port
    BY <1>1, <1>5 DEF Q!Port, Q!In, PathRegion, PathMove, ReqEscapes
<1> QED
    BY <1>2, <1>3, <1>4, <1>5

LEMMA AuthoritySteps ==
    ASSUME Q!Authority \/ Q!UserHost \/ Q!UserPort \/ Q!Userinfo \/ Q!Host \/ Q!RegName
    PROVE  cs \in PathRegion /\ PathMove
<1>1. Q!digit \subseteq Q!pchar /\ "%" \notin Q!digit /\ ":" \in Q!pchar /\ "@" \in Q!pchar
      /\ Q!regchar \subseteq Q!pchar
    BY DEF Q!pchar, Q!regular, Q!regchar, Q!digit
<1>2. CASE Q!Authority
    BY <1>1, <1>2 DEF Q!Authority, Q!In, PathRegion, PathMove, ReqEscapes
<1>3. CASE Q!UserHost
    BY <1>1, <1>3 DEF Q!UserHost, Q!In, PathRegion, PathMove, ReqEscapes
<1>4. CASE Q!UserPort
    BY <1>1, <1>4 DEF Q!UserPort, Q!In, PathRegion, PathMove, ReqEscapes
<1>5. CASE Q!Userinfo
    BY <1>1, <1>5 DEF Q!Userinfo, Q!In, PathRegion, PathMove, ReqEscapes
<1>6. CASE Q!Host
    BY <1>1, <1>6 DEF Q!Host, Q!In, PathRegion, PathMove, ReqEscapes
<1>7. CASE Q!RegName
    BY <1>1, <1>7 DEF Q!RegName, Q!In, PathRegion, PathMove, ReqEscapes
<1> QED
    BY <1>2, <1>3, <1>4, <1>5, <1>6, <1>7

-----------------------------------------------------------------------------
(* An IP literal in the authority *)

\* Inside the brackets.
LEMMA ReqWithinStep ==
    ASSUME ReqInv, Q!In("literal"), NEW c \in Q!regchar \cup Q!xdigit \cup {":"}, NEW l, ReqLit(l), Q!Within(c, l)
    PROVE  ReqInv'
<1>1. c \notin {Blank, "?", "#"}
    BY ReqChars, BlankChar
<1>2. cs \in PathRegion /\ "literal" \in PathRegion /\ pct = 0 /\ 0 \in 0..2 /\ ~(0 > 0)
    BY DEF Q!In, PathRegion
<1> QED
    BY <1>1, <1>2, PathConsumes DEF Q!Within

LEMMA ReqBeginGroupStep ==
    ASSUME ReqInv, Q!In("literal"), NEW c \in Q!xdigit, Q!BeginGroup(c)
    PROVE  ReqInv'
<1> DEFINE l == [lit EXCEPT !.at = "group", !.digits = 1,
                            !.octet = IF lit.gap /\ lit.after + 2 \in Q!After(lit.groups)
                                      THEN Q!dec_octet("none", c) ELSE "no"]
<1>1. ReqLit(l)
    BY DEF ReqInv, ReqTypes, ReqLit
<1>2. Q!Within(c, l)
    BY DEF Q!BeginGroup
<1> HIDE DEF l
<1> QED
    BY <1>1, <1>2, ReqWithinStep

LEMMA ReqLiteralOpenStep ==
    ASSUME ReqInv, Q!LiteralOpen
    PROVE  ReqInv'
<1>1. Q!In("literal")
    BY DEF Q!LiteralOpen, Q!InLiteral
<1>2. ReqLit([lit EXCEPT !.at = "colon1"]) /\ ReqLit([lit EXCEPT !.at = "v"])
      /\ ReqLit([lit EXCEPT !.at = "gap", !.gap = TRUE])
    BY DEF ReqInv, ReqTypes, ReqLit
<1>3. "v" \in Q!regchar
    BY ReqChars
<1> QED
    BY <1>1, <1>2, <1>3, ReqBeginGroupStep, ReqWithinStep DEF Q!LiteralOpen

LEMMA ReqGroupStep ==
    ASSUME ReqInv, Q!Group
    PROVE  ReqInv'
<1>1. /\ Q!In("literal") /\ lit.groups \in 0..7 /\ lit.after \in 0..3 /\ lit.digits \in 0..4
      /\ DOMAIN lit = {"at", "gap", "groups", "after", "digits", "octet", "dots"}
    BY DEF Q!Group, Q!InLiteral, ReqInv, ReqTypes, ReqLit
<1>2. ASSUME NEW c \in Q!xdigit, lit.digits < 4,
             Q!Within(c, [lit EXCEPT !.digits = @ + 1,
                                     !.octet = IF @ = "no" THEN @ ELSE Q!dec_octet(@, c)])
      PROVE  ReqInv'
    <2>1. ReqLit([lit EXCEPT !.digits = @ + 1, !.octet = IF @ = "no" THEN @ ELSE Q!dec_octet(@, c)])
        BY <1>1, <1>2 DEF ReqLit
    <2> QED
        BY <1>1, <1>2, <2>1, ReqWithinStep
<1>3. ASSUME Q!Within(":", [lit EXCEPT !.at = "colon", !.digits = 0,
                                       !.groups = IF @ = 7 THEN @ ELSE @ + 1])
      PROVE  ReqInv'
    <2>1. ReqLit([lit EXCEPT !.at = "colon", !.digits = 0, !.groups = IF @ = 7 THEN @ ELSE @ + 1])
        BY <1>1, <1>3 DEF ReqLit
    <2> QED
        BY <1>1, <1>3, <2>1, ReqWithinStep
<1>4. ASSUME lit.after + 1 < 3,
             Q!Within(":", [lit EXCEPT !.at = "colon", !.digits = 0, !.octet = "no", !.after = @ + 1])
      PROVE  ReqInv'
    <2>1. ReqLit([lit EXCEPT !.at = "colon", !.digits = 0, !.octet = "no", !.after = @ + 1])
        BY <1>1, <1>4 DEF ReqLit
    <2> QED
        BY <1>1, <1>4, <2>1, ReqWithinStep
<1>5. ASSUME Q!Within(".", [lit EXCEPT !.at = "v4", !.digits = 0, !.octet = "none", !.dots = 1])
      PROVE  ReqInv'
    <2>1. ReqLit([lit EXCEPT !.at = "v4", !.digits = 0, !.octet = "none", !.dots = 1])
        BY <1>1 DEF ReqLit
    <2> QED
        BY <1>1, <1>5, <2>1, ReqChars, ReqWithinStep
<1> QED
    BY <1>2, <1>3, <1>4, <1>5 DEF Q!Group

LEMMA ReqGapStep ==
    ASSUME ReqInv, Q!AfterColon \/ Q!AfterGap
    PROVE  ReqInv'
<1>1. Q!In("literal")
    BY DEF Q!AfterColon, Q!AfterGap, Q!InLiteral
<1>2. ReqLit([lit EXCEPT !.at = "gap", !.gap = TRUE])
    BY DEF ReqInv, ReqTypes, ReqLit
<1> QED
    BY <1>1, <1>2, ReqBeginGroupStep, ReqWithinStep DEF Q!AfterColon, Q!AfterGap

LEMMA ReqIPv4TailStep ==
    ASSUME ReqInv, Q!IPv4Tail
    PROVE  ReqInv'
<1>1. /\ Q!In("literal") /\ lit.groups \in 0..7 /\ lit.after \in 0..3 /\ lit.digits \in 0..4
      /\ DOMAIN lit = {"at", "gap", "groups", "after", "digits", "octet", "dots"}
    BY DEF Q!IPv4Tail, Q!InLiteral, ReqInv, ReqTypes, ReqLit
<1>2. ASSUME NEW c \in Q!digit, Q!Within(c, [lit EXCEPT !.octet = Q!dec_octet(@, c)])
      PROVE  ReqInv'
    <2>1. ReqLit([lit EXCEPT !.octet = Q!dec_octet(@, c)])
        BY <1>1 DEF ReqLit
    <2> QED
        BY <1>1, <1>2, <2>1, ReqChars, ReqWithinStep
<1>3. ASSUME Q!Within(".", [lit EXCEPT !.octet = "none", !.dots = @ + 1])
      PROVE  ReqInv'
    <2>1. ReqLit([lit EXCEPT !.octet = "none", !.dots = @ + 1])
        BY <1>1 DEF ReqLit
    <2> QED
        BY <1>1, <1>3, <2>1, ReqChars, ReqWithinStep
<1> QED
    BY <1>2, <1>3 DEF Q!IPv4Tail

LEMMA ReqIPvFutureStep ==
    ASSUME ReqInv, Q!IPvFuture
    PROVE  ReqInv'
<1>1. Q!In("literal")
    BY DEF Q!IPvFuture, Q!InLiteral
<1>2. ReqLit(lit) /\ \A x \in {"vhex", "vdot", "vtail"} : ReqLit([lit EXCEPT !.at = x])
    BY DEF ReqInv, ReqTypes, ReqLit
<1>3. "." \in Q!regchar
    BY ReqChars
<1>4. PICK c \in Q!regchar \cup Q!xdigit \cup {":"},
           l \in {lit} \cup {[lit EXCEPT !.at = x] : x \in {"vhex", "vdot", "vtail"}} : Q!Within(c, l)
    BY <1>3 DEF Q!IPvFuture
<1> QED
    BY <1>1, <1>2, <1>4, ReqWithinStep

\* The bracket that closes it.
LEMMA ReqLiteralEndStep ==
    ASSUME ReqInv, Q!LiteralEnd
    PROVE  ReqInv'
<1>1. Q!In("literal") /\ Q!Consumes("]", "closed", s) /\ lit' = Q!Lit0 /\ UNCHANGED <<pct, json, count>>
    BY DEF Q!LiteralEnd, Q!InLiteral
<1>2. ReqLit(lit') /\ pct = 0 /\ cs \in PathRegion /\ "closed" \in PathRegion /\ ~(0 > 0) /\ 0 \in 0..2
    BY <1>1 DEF ReqLit, Q!Lit0, Q!In, PathRegion
<1>3. "]" \notin {Blank, "?", "#"}
    BY DEF Blank
<1> QED
    BY <1>1, <1>2, <1>3, PathConsumes

-----------------------------------------------------------------------------
(* From the first character to the path *)

LEMMA ReqPlain ==
    ASSUME ReqInv, pct = 0, NEW c, NEW to, NEW r, ReqGood(r), Q!Plain(c, to, r), ~r.threw, ReqAt(to)'
    PROVE  ReqInv'
<1>1. Q!Consumes(c, to, r) /\ UNCHANGED <<pct, json, count, lit>>
    BY DEF Q!Plain
<1>2. json' \in BOOLEAN /\ count' \in 0..20 /\ ReqLit(lit') /\ pct' \in 0..2 /\ ~(pct' > 0)
    BY <1>1 DEF ReqInv, ReqTypes
<1> QED
    BY <1>1, <1>2, ReqStep

\* Regions that a SocketJSON request does not reach.
LEMMA InTheLine ==
    ASSUME ReqInv, Q!Running, cs \notin JsonRegion
    PROVE  ~json /\ LineAt(cs)
BY DEF ReqInv, Q!Running, ReqAt

LEMMA ReqStartStep ==
    ASSUME ReqInv, Q!Start
    PROVE  ReqInv'
<1> USE DEF NULL
<1>1. cs = "start" /\ pct = 0 /\ Q!Running
    BY DEF Q!Start, Q!In, Q!Reads, Q!Consumes
<1>2. ~json /\ p = 0 /\ s = Q!Parser0 /\ split = Q!Split0
    BY <1>1, InTheLine DEF LineAt, JsonRegion, PathRegion
<1>3. ReqGood(s) /\ PiecesOK /\ base = 0 /\ ReqLit(lit) /\ count \in 0..20
    BY <1>2 DEF ReqInv, ReqTypes, PiecesOK
<1>4. /\ ReqGood(Q!mark(s)) /\ Q!mark(s).mark = 0 /\ Q!mark(s).method = <<>> /\ Q!mark(s).query = <<>>
      /\ Q!mark(s).fragment = <<>> /\ ~Q!mark(s).threw
    <2>1. ReqGood(Q!mark(s)) /\ SameParts(Q!mark(s), s) /\ base + Q!mark(s).mark = p
        BY <1>3, ReqMark
    <2>2. Q!mark(s).mark \in Nat
        BY <2>1 DEF ReqGood, ReqFields
    <2>3. s.method = <<>> /\ s.query = <<>> /\ s.fragment = <<>> /\ ~s.threw
        BY <1>2 DEF Q!Parser0, Q!Empty
    <2> QED
        BY <1>2, <1>3, <2>1, <2>2, <2>3 DEF SameParts
<1>5. ASSUME NEW c \in Q!upper \cup Q!digit, Q!Consumes(c, "method", Q!mark(s)), count' = 1,
             UNCHANGED <<pct, json, lit>>
      PROVE  ReqInv'
    <2>1. s' = Q!mark(s) /\ split' = Q!SplitStep(split, c)
        BY <1>5 DEF Q!Consumes
    <2>2. c # " "
        BY <1>5 DEF Q!upper, Q!upperhex, Q!digit
    <2>3. split' = Q!Split0
        BY <1>2, <2>1, <2>2 DEF Q!SplitStep, Q!Split0
    <2>4. ReqAt("method")'
        BY <1>2, <1>4, <1>5, <2>1, <2>3 DEF ReqAt, LineAt, PathRegion, XmlRegion
    <2>5. count' \in 0..20 /\ pct' \in 0..2 /\ ~(pct' > 0) /\ ReqLit(lit')
        BY <1>1, <1>3, <1>5
    <2>6. json' \in BOOLEAN
        BY <1>5 DEF ReqInv, ReqTypes
    <2> QED
        BY <1>4, <1>5, <2>4, <2>5, <2>6, ReqStep
<1>6. ASSUME Q!Reads("<", "xmlname0", Q!mark(s))
      PROVE  ReqInv'
    <2>1. s' = Q!mark(s) /\ json' = json
        BY <1>6 DEF Q!Reads, Q!Consumes
    <2>2. ReqAt("xmlname0")'
        BY <1>2, <1>4, <2>1 DEF ReqAt, LineAt, PathRegion, XmlRegion
    <2> QED
        BY <1>4, <1>6, <2>2, ReqReads
<1>7. ASSUME Q!Consumes("@", "json", Q!mark(s)), json' = TRUE, UNCHANGED <<pct, count, lit>>
      PROVE  ReqInv'
    <2>1. s' = Q!mark(s)
        BY <1>7 DEF Q!Consumes
    <2>2. ReqAt("json")'
        BY <1>4, <1>7, <2>1 DEF ReqAt, JsonRegion
    <2>3. count' \in 0..20 /\ pct' \in 0..2 /\ ~(pct' > 0) /\ json' \in BOOLEAN /\ ReqLit(lit')
        BY <1>1, <1>3, <1>7
    <2> QED
        BY <1>4, <1>7, <2>2, <2>3, ReqStep
<1> QED
    BY <1>5, <1>6, <1>7 DEF Q!Start

LEMMA ReqMethodStep ==
    ASSUME ReqInv, Q!Method
    PROVE  ReqInv'
<1> USE DEF NULL
<1>1. cs = "method" /\ pct = 0 /\ Q!Running /\ UNCHANGED <<pct, json, lit>>
    BY DEF Q!Method, Q!In, Q!Reads, Q!Consumes
<1>2. ~json /\ s.mark = 0 /\ s.method = <<>> /\ s.query = <<>> /\ s.fragment = <<>> /\ split = Q!Split0
    BY <1>1, InTheLine DEF LineAt, JsonRegion, PathRegion
<1>3. /\ ReqGood(s) /\ PiecesOK /\ ReqLit(lit) /\ ReqLit(lit') /\ count \in 0..20 /\ p \in Nat /\ base \in Nat
      /\ base <= p
      /\ LastPiece(pieces, p) = base /\ ~s.threw
    BY <1>1, LastPieceIs DEF ReqInv, ReqTypes, PiecesOK, Q!Running
<1>4. pct' \in 0..2 /\ ~(pct' > 0) /\ json' \in BOOLEAN /\ ~json'
    BY <1>1, <1>2 DEF ReqInv, ReqTypes
<1>5. ASSUME NEW c \in Q!upper \cup Q!digit, Q!Consumes(c, "method", s), count' = count + 1, count < 20
      PROVE  ReqInv'
    <2>1. s' = s /\ split' = Q!SplitStep(split, c)
        BY <1>5 DEF Q!Consumes
    <2>2. c # " "
        BY <1>5 DEF Q!upper, Q!upperhex, Q!digit
    <2>3. split' = Q!Split0
        BY <1>2, <2>1, <2>2 DEF Q!SplitStep, Q!Split0
    <2>4. ReqAt("method")'
        BY <1>2, <1>4, <2>1, <2>3 DEF ReqAt, LineAt, PathRegion, XmlRegion
    <2>5. count' \in 0..20
        BY <1>3, <1>5
    <2> QED
        BY <1>3, <1>4, <1>5, <2>4, <2>5, ReqStep
<1>6. ASSUME NEW known \in BOOLEAN, Q!Consumes(Blank, "target", Q!request_method(s, known)), count' = 0
      PROVE  ReqInv'
    <2> DEFINE u == Q!request_method(s, known)
    <2>1. /\ ReqGood(u) /\ u.method = <<base + s.mark, p>> /\ u.query = <<>> /\ u.fragment = <<>> /\ ~u.threw
        BY <1>2, <1>3, ReqMethod
    <2>2. s' = u /\ split' = Q!SplitStep(split, Blank) /\ p' = p + 1 /\ pieces' = pieces /\ base' = base
        BY <1>6 DEF Q!Consumes
    <2> HIDE DEF u
    <2>3. split' = [Q!Split0 EXCEPT !.sp1 = p]
        BY <1>2, <2>2 DEF Q!SplitStep, Q!Split0, Blank
    <2>4. /\ split'.sp1 = p /\ split'.colon = NULL /\ split'.query = NULL /\ split'.hash = NULL
          /\ split'.sp2 = NULL /\ split'.pathseen = FALSE /\ split'.line = NULL /\ split'.hcolon = NULL
          /\ split'.value = NULL /\ split'.eol = NULL
        BY <2>3 DEF Q!Split0, Q!NULL
    <2>5. u.method = <<base, p>>
        BY <1>2, <1>3, <2>1
    <2>6. p >= 0 /\ p < p' /\ NULL < p'
        BY <1>3, <2>2
    <2>7. MethodCut(s)'
        BY <1>3, <2>2, <2>4, <2>5, <2>6 DEF MethodCut
    <2>8. InPath'
        BY <1>6, <2>1, <2>2, <2>4, <2>6, <2>7 DEF InPath, NoHeader
    <2>9. ReqTarget'
        BY <2>2, <2>4, <2>8 DEF ReqTarget
    <2>10. ReqAt("target")'
        BY <1>4, <2>9 DEF ReqAt, LineAt, PathRegion, XmlRegion
    <2>11. count' \in 0..20
        BY <1>6
    <2> QED
        BY <1>3, <1>4, <1>6, <2>1, <2>10, <2>11, ReqStep DEF u
<1> QED
    BY <1>5, <1>6 DEF Q!Method, Blank

\* Reads into the path or along it.
LEMMA TargetReads ==
    ASSUME ReqInv, NEW c, NEW to \in PathRegion \cup {"noscheme", "scheme"}, NEW r, ReqGood(r), SameParts(r, s),
           Q!Reads(c, to, r), c = "%" => to \in ReqEscapes, json => to \in JsonRegion,
           ~json => /\ InPath /\ MarkAt(r, PathStart) /\ c \notin {Blank, "?", "#"}
                    /\ c = ":" => split.colon # NULL \/ split.pathseen
                    /\ to \in PathRegion => split.colon # NULL \/ split.pathseen \/ c = "/"
                    /\ to \in {"noscheme", "scheme"} => split.colon = NULL
                    /\ to = "scheme" => ~split.pathseen /\ c # "/"
    PROVE  ReqInv'
<1>1. Q!Consumes(c, to, r) /\ UNCHANGED <<json, count, lit>> /\ pct' = (IF c = "%" THEN 2 ELSE 0)
    BY DEF Q!Reads
<1>2. ReqLit(lit') /\ pct' \in 0..2 /\ (pct' > 0 => to \in ReqEscapes)
    BY <1>1 DEF ReqInv, ReqTypes
<1> QED
    BY <1>1, <1>2, PathGoesOn

LEMMA PathStartIs ==
    /\ split.colon = NULL => PathStart = split.sp1 + 1
    /\ split.colon # NULL => PathStart = split.colon + 1
BY DEF PathStart

LEMMA ReqTargetStep ==
    ASSUME ReqInv, Q!Target
    PROVE  ReqInv'
<1>1. Q!Running
    BY PathEndsRuns DEF Q!Target, Q!Reads, Q!Consumes
<1>2. cs = "target"
    BY DEF Q!Target, Q!In
<1>3. ~json /\ ReqTarget
    BY <1>1, <1>2, InTheLine DEF LineAt, JsonRegion, PathRegion
<1>4. ReqGood(s) /\ PiecesOK /\ p \in Nat /\ base \in Nat /\ base <= p
    BY DEF ReqInv, ReqTypes, PiecesOK
<1> DEFINE r == Q!mark(s)
<1>5. ReqGood(r) /\ SameParts(r, s) /\ base + r.mark = p
    BY <1>4, ReqMark
<1>6. InPath /\ split.colon = NULL /\ ~split.pathseen /\ MarkAt(r, PathStart)
    BY <1>3, <1>4, <1>5, PathStartIs DEF ReqTarget, MarkAt, Later
<1>7. \/ Q!PathEnds(r)
      \/ \E c \in Q!alpha : Q!Reads(c, "scheme", r)
      \/ \E c \in Q!regchar \cup {"@", "%"} : Q!Reads(c, "noscheme", r)
      \/ Q!Reads("/", "slash", r)
    BY DEF Q!Target
<1> HIDE DEF r
<1>8. CASE Q!PathEnds(r)
    BY <1>5, <1>6, <1>8, PathIsCut
<1>9. ASSUME NEW c \in Q!alpha, Q!Reads(c, "scheme", r)
      PROVE  ReqInv'
    <2>1. c \notin {Blank, "?", "#", "/", ":", "%"}
        BY <1>9, ReqChars DEF Q!alpha, Q!upper, Q!upperhex, Q!lowerhex
    <2> QED
        BY <1>3, <1>5, <1>6, <1>9, <2>1, TargetReads DEF PathRegion
<1>10. ASSUME NEW c \in Q!regchar \cup {"@", "%"}, Q!Reads(c, "noscheme", r)
       PROVE  ReqInv'
    <2>1. c \notin {Blank, "?", "#", "/", ":"}
        BY <1>10, ReqChars
    <2> QED
        BY <1>3, <1>5, <1>6, <1>10, <2>1, TargetReads DEF PathRegion, ReqEscapes
<1>11. ASSUME Q!Reads("/", "slash", r)
       PROVE  ReqInv'
    <2>1. "/" \notin {Blank, "?", "#", ":", "%"}
        BY BlankChar
    <2> QED
        BY <1>3, <1>5, <1>6, <1>11, <2>1, TargetReads DEF PathRegion
<1> QED
    BY <1>7, <1>8, <1>9, <1>10, <1>11

LEMMA ReqJsonTargetStep ==
    ASSUME ReqInv, Q!JsonTarget
    PROVE  ReqInv'
<1>1. Q!Running
    BY PathEndsRuns DEF Q!JsonTarget, Q!Reads, Q!Consumes
<1>2. cs = "json"
    BY DEF Q!JsonTarget, Q!In
<1>3. json /\ ReqGood(s) /\ SameParts(s, s)
    BY <1>1, <1>2 DEF ReqInv, ReqTypes, ReqAt, LineAt, Q!Running, SameParts
<1>4. CASE Q!PathEnds(s)
    BY <1>3, <1>4, PathIsCut
<1>5. ASSUME NEW c \in Q!regchar \cup {"@", "%"}, Q!Reads(c, "noscheme", s)
      PROVE  ReqInv'
    BY <1>3, <1>5, TargetReads DEF JsonRegion, ReqEscapes
<1>6. ASSUME Q!Reads("/", "slash", s)
      PROVE  ReqInv'
    BY <1>3, <1>6, TargetReads DEF JsonRegion, PathRegion
<1> QED
    BY <1>4, <1>5, <1>6 DEF Q!JsonTarget

LEMMA ReqNoschemeStep ==
    ASSUME ReqInv, Q!Noscheme
    PROVE  ReqInv'
<1>1. Q!Running
    BY PathEndsRuns DEF Q!Noscheme, Q!Reads, Q!Consumes
<1>2. cs = "noscheme"
    BY DEF Q!Noscheme, Q!In
<1>3. ReqGood(s) /\ SameParts(s, s) /\ (~json => ReqNoscheme)
    BY <1>1, <1>2 DEF ReqInv, ReqTypes, ReqAt, LineAt, Q!Running, SameParts
<1>4. ~json => InPath /\ split.colon = NULL /\ MarkAt(s, PathStart)
    BY <1>3, PathStartIs DEF ReqNoscheme, MarkAt
<1>5. CASE Q!PathEnds(s)
    BY <1>3, <1>4, <1>5, PathIsCut
<1>6. ASSUME NEW c \in Q!regchar \cup {"@", "%"}, Q!Reads(c, "noscheme", s)
      PROVE  ReqInv'
    <2>1. c \notin {Blank, "?", "#", "/", ":"}
        BY <1>6, ReqChars
    <2> QED
        BY <1>3, <1>4, <1>6, <2>1, TargetReads DEF JsonRegion, PathRegion, ReqEscapes
<1>7. ASSUME Q!Reads("/", "path", s)
      PROVE  ReqInv'
    <2>1. "/" \notin {Blank, "?", "#", ":", "%"}
        BY BlankChar
    <2> QED
        BY <1>3, <1>4, <1>7, <2>1, TargetReads DEF JsonRegion, PathRegion
<1> QED
    BY <1>5, <1>6, <1>7 DEF Q!Noscheme

\* "scheme:" ends.
LEMMA ReqColonStep ==
    ASSUME ReqInv, ~json, ReqScheme, Q!Reads(":", "hier", s)
    PROVE  ReqInv'
<1> USE DEF NULL
<1>1. /\ ReqGood(s) /\ split \in ReqSplit /\ p \in Nat /\ ~s.threw /\ p' = p + 1 /\ s' = s
      /\ split' = Q!SplitStep(split, ":") /\ json' = json /\ count' = count
    BY ReqHere DEF Q!Reads
<1>2. PastKept
    BY ReqHereKept DEF Q!Reads
<1>3. /\ MethodCut(s) /\ NoHeader /\ s.query = <<>> /\ s.fragment = <<>> /\ count = 0
      /\ split.query = NULL /\ split.hash = NULL /\ split.sp2 = NULL /\ split.colon = NULL /\ ~split.pathseen
    BY DEF ReqScheme, InPath
<1>4. split.sp1 # NULL
    <2>1. split.sp1 \in Int
        BY <1>1, SplitInts
    <2>2. split.sp1 >= 0
        BY <1>3 DEF MethodCut
    <2> QED
        BY <2>1, <2>2
<1>5. /\ SameHeader(split', split) /\ split'.sp1 = split.sp1 /\ split'.sp2 = NULL /\ split'.hash = NULL
      /\ split'.query = NULL /\ split'.colon = p
    BY <1>1, <1>3, <1>4, TargetSplit, BlankChar
<1>6. MethodCut(s)'
    BY <1>1, <1>2, <1>3, <1>5, MethodKept
<1>7. NoHeader' /\ p >= 0 /\ p < p' /\ p = p' - 1
    BY <1>1, <1>3, <1>5 DEF NoHeader, SameHeader
<1>8. InPath'
    BY <1>1, <1>3, <1>5, <1>6, <1>7 DEF InPath
<1>9. ReqHier'
    BY <1>5, <1>7, <1>8 DEF ReqHier
<1>10. ReqAt("hier")'
    BY <1>1, <1>9 DEF ReqAt, LineAt, PathRegion, XmlRegion
<1> QED
    BY <1>1, <1>10, ReqReads

LEMMA ReqSchemeStep ==
    ASSUME ReqInv, Q!Scheme
    PROVE  ReqInv'
<1>1. Q!Running
    BY PathEndsRuns DEF Q!Scheme, Q!Reads, Q!Consumes
<1>2. cs = "scheme"
    BY DEF Q!Scheme, Q!In
<1>3. ~json /\ ReqScheme
    BY <1>1, <1>2, InTheLine DEF LineAt, JsonRegion, PathRegion
<1>4. ReqGood(s) /\ SameParts(s, s)
    BY DEF ReqInv, ReqTypes, SameParts
<1>5. InPath /\ split.colon = NULL /\ ~split.pathseen /\ MarkAt(s, PathStart)
    BY <1>3, PathStartIs DEF ReqScheme, MarkAt
<1>6. CASE Q!PathEnds(s)
    BY <1>4, <1>5, <1>6, PathIsCut
<1>7. ASSUME NEW c \in Q!alpha \cup Q!digit \cup {"+", "-", "."}, Q!Reads(c, "scheme", s)
      PROVE  ReqInv'
    <2>1. c \notin {Blank, "?", "#", "/", ":"} /\ c # "%"
        BY <1>7, ReqChars DEF Q!alpha, Q!upper, Q!upperhex, Q!lowerhex, Q!digit
    <2> QED
        BY <1>3, <1>4, <1>5, <1>7, <2>1, TargetReads DEF PathRegion
<1>8. ASSUME NEW c \in Q!regchar \cup {"@", "%"}, Q!Reads(c, "noscheme", s)
      PROVE  ReqInv'
    <2>1. c \notin {Blank, "?", "#", "/", ":"}
        BY <1>8, ReqChars
    <2> QED
        BY <1>3, <1>4, <1>5, <1>8, <2>1, TargetReads DEF PathRegion, ReqEscapes
<1>9. ASSUME Q!Reads("/", "path", s)
      PROVE  ReqInv'
    <2>1. "/" \notin {Blank, "?", "#", ":", "%"}
        BY BlankChar
    <2> QED
        BY <1>3, <1>4, <1>5, <1>9, <2>1, TargetReads DEF PathRegion
<1> QED
    BY <1>3, <1>6, <1>7, <1>8, <1>9, ReqColonStep DEF Q!Scheme

LEMMA ReqHierStep ==
    ASSUME ReqInv, Q!Hier
    PROVE  ReqInv'
<1>1. Q!Running
    BY PathEndsRuns DEF Q!Hier, Q!Reads, Q!Consumes
<1>2. cs = "hier"
    BY DEF Q!Hier, Q!In
<1>3. ~json /\ ReqHier
    BY <1>1, <1>2, InTheLine DEF LineAt, JsonRegion, PathRegion
<1>4. ReqGood(s) /\ PiecesOK /\ p \in Nat /\ base \in Nat /\ base <= p /\ split \in ReqSplit
    BY DEF ReqInv, ReqTypes, PiecesOK
<1> DEFINE r == Q!mark(s)
<1>5. ReqGood(r) /\ SameParts(r, s) /\ base + r.mark = p
    BY <1>4, ReqMark
<1>6. InPath /\ split.colon # NULL /\ split.colon + 1 = p
    BY <1>3, <1>4, SplitInts DEF ReqHier, NULL
<1>7. MarkAt(r, PathStart)
    BY <1>4, <1>5, <1>6, PathStartIs DEF MarkAt, Later
<1>8. \/ Q!PathEnds(r)
      \/ \E c \in Q!pchar \cup {"%"} : Q!Reads(c, "path", r)
      \/ Q!Reads("/", "slash", r)
    BY DEF Q!Hier
<1> HIDE DEF r
<1>9. CASE Q!PathEnds(r)
    BY <1>5, <1>6, <1>7, <1>9, PathIsCut
<1>10. ASSUME NEW c \in Q!pchar \cup {"%"}, Q!Reads(c, "path", r)
       PROVE  ReqInv'
    <2>1. c \notin {Blank, "?", "#", "/"}
        BY <1>10, ReqChars
    <2> QED
        BY <1>3, <1>5, <1>6, <1>7, <1>10, <2>1, TargetReads DEF PathRegion, ReqEscapes
<1>11. ASSUME Q!Reads("/", "slash", r)
       PROVE  ReqInv'
    <2>1. "/" \notin {Blank, "?", "#", ":", "%"}
        BY BlankChar
    <2> QED
        BY <1>3, <1>5, <1>6, <1>7, <1>11, <2>1, TargetReads DEF PathRegion
<1> QED
    BY <1>8, <1>9, <1>10, <1>11

-----------------------------------------------------------------------------
(* The query and the fragment *)

\* The query has begun: its offset is in r, or is where p is.
InQuery(r) ==
    /\ BehindPath /\ split.query >= 0 /\ split.query < p /\ split.hash = NULL /\ s.query = <<>>
    /\ r.query_start = (split.query + 1) - LastPiece(pieces, split.query + 1)

LEMMA BehindPathKept ==
    ASSUME PastKept, split \in ReqSplit, BehindPath, SameHeader(split', split), split'.sp1 = split.sp1,
           PathStart' = PathStart, PathEnd' = PathEnd, split'.sp2 = NULL, s'.method = s.method,
           s'.path = s.path, s'.fragment = s.fragment, count' = count
    PROVE  BehindPath'
<1>1. MethodCut(s)'
    BY MethodKept DEF BehindPath
<1>2. ReqPathCut(s)'
    BY PathKept DEF BehindPath
<1> QED
    BY <1>1, <1>2 DEF BehindPath, NoHeader, SameHeader

LEMMA BehindMethod ==
    ASSUME split \in ReqSplit, MethodCut(s)
    PROVE  split.sp1 # NULL
<1>1. split.sp1 \in Int
    BY SplitInts
<1>2. split.sp1 >= 0
    BY DEF MethodCut
<1> QED
    BY <1>1, <1>2 DEF NULL

LEMMA QueryGoesOn ==
    ASSUME ReqInv, ~json, NEW c, c \notin {Blank, "#"}, NEW r, ReqGood(r), SameParts(r, s), r.path = s.path,
           InQuery(r), Q!Consumes(c, "query", r), UNCHANGED <<json, count>>, ReqLit(lit'), pct' \in 0..2
    PROVE  ReqInv'
<1> USE DEF NULL
<1>1. /\ ReqGood(s) /\ split \in ReqSplit /\ PiecesOK /\ p \in Nat /\ base \in Nat /\ base <= p
      /\ ~s.threw /\ p' = p + 1 /\ s' = r /\ split' = Q!SplitStep(split, c)
      /\ base' = base /\ pieces' = pieces /\ json' = json /\ count \in 0..20 /\ json \in BOOLEAN
    BY ReqHere
<1>2. PastKept /\ split' \in ReqSplit
    BY ReqHereKept
<1>3. /\ BehindPath /\ split.query >= 0 /\ split.query < p /\ split.hash = NULL /\ s.query = <<>>
      /\ r.query_start = (split.query + 1) - LastPiece(pieces, split.query + 1)
      /\ split.sp2 = NULL /\ split.query \in Int
    BY <1>1, SplitInts DEF InQuery, BehindPath
<1>4. split.sp1 # NULL /\ split.query # NULL
    BY <1>1, <1>3, BehindMethod DEF BehindPath
<1>5. /\ SameHeader(split', split) /\ split'.sp1 = split.sp1 /\ split'.sp2 = NULL /\ split'.hash = NULL
      /\ split'.query = split.query /\ split'.colon = split.colon
    BY <1>1, <1>3, <1>4, TargetSplit
<1>6. PathStart' = PathStart /\ PathEnd' = PathEnd
    BY <1>4, <1>5 DEF PathStart, PathEnd
<1>7. BehindPath'
    BY <1>1, <1>2, <1>3, <1>5, <1>6, BehindPathKept DEF SameParts
<1>8. split'.query >= 0 /\ split'.query + 1 < p' /\ s'.query = <<>>
    BY <1>1, <1>3, <1>5 DEF SameParts
<1>9. s'.query_start = (split'.query + 1) - LastPiece(pieces', split'.query + 1)
    BY <1>1, <1>3, <1>5
<1>10. ReqQuery'
    BY <1>5, <1>7, <1>8, <1>9 DEF ReqQuery
<1>11. ReqAt("query")'
    BY <1>1, <1>10 DEF ReqAt, LineAt, PathRegion, XmlRegion
<1>12. "query" \in ReqEscapes
    BY DEF ReqEscapes
<1> QED
    BY <1>1, <1>11, <1>12, ReqStep DEF SameParts

\* The end of the query, where query_string may throw.
LEMMA QueryIsCut ==
    ASSUME ReqInv, ~json, NEW r, ReqGood(r), SameParts(r, s), r.path = s.path, InQuery(r),
           NEW c, NEW to, <<c, to>> \in {<<Blank, "version">>, <<"#", "frag0">>}, Q!Reads(c, to, Q!query_string(r))
    PROVE  ReqInv'
<1> USE DEF NULL
<1> DEFINE u == Q!query_string(r)
<1>1. /\ ReqGood(s) /\ split \in ReqSplit /\ PiecesOK /\ p \in Nat /\ base \in Nat /\ base <= p
      /\ ~s.threw /\ p' = p + 1 /\ s' = u /\ split' = Q!SplitStep(split, c) /\ LastPiece(pieces, p) = base
      /\ base' = base /\ pieces' = pieces /\ json' = json /\ json \in BOOLEAN /\ count' = count
    BY ReqHere DEF Q!Reads
<1>2. PastKept /\ split' \in ReqSplit
    BY ReqHereKept DEF Q!Reads
<1>3. /\ ReqGood(u) /\ u.method = r.method /\ u.path = r.path /\ u.fragment = r.fragment
      /\ u.threw \/ u.query = <<base + r.query_start, p>>
    BY <1>1, ReqQueryString
<1>4. c # "%" /\ to \in {"version", "frag0"}
    BY BlankChar
<1> HIDE DEF u
<1>5. CASE u.threw
    BY <1>3, <1>4, <1>5, ReqThrows DEF u
<1>6. CASE ~u.threw
    <2>1. /\ BehindPath /\ split.query >= 0 /\ split.query < p /\ split.hash = NULL /\ s.query = <<>>
          /\ r.query_start = (split.query + 1) - LastPiece(pieces, split.query + 1)
          /\ split.sp2 = NULL /\ split.query \in Int /\ s.fragment = <<>> /\ count = 0
        BY <1>1, SplitInts DEF InQuery, BehindPath
    <2>2. split.sp1 # NULL /\ split.query # NULL
        BY <1>1, <2>1, BehindMethod DEF BehindPath
    <2>3. /\ SameHeader(split', split) /\ split'.sp1 = split.sp1 /\ split'.colon = split.colon
          /\ split'.query = split.query
          /\ split'.sp2 = IF c = Blank THEN p ELSE NULL
          /\ split'.hash = IF c = "#" THEN p ELSE NULL
        BY <1>1, <2>1, <2>2, TargetSplit, BlankChar
    <2>4. PathStart' = PathStart /\ PathEnd' = PathEnd
        BY <2>2, <2>3 DEF PathStart, PathEnd
    <2>5. s'.method = s.method /\ s'.path = s.path /\ s'.fragment = s.fragment
        BY <1>1, <1>3 DEF SameParts
    <2>6. QueryEnd' = p
        BY <2>3, BlankChar DEF QueryEnd
    <2>7. s'.query = <<LastPiece(pieces', p) + ((split'.query + 1) - LastPiece(pieces', split'.query + 1)), p>>
        BY <1>1, <1>3, <1>6, <2>1, <2>3
    <2>8. p < p'
        BY <1>1
    <2>9. ReqQueryCut(s)'
        BY <2>1, <2>2, <2>3, <2>6, <2>7, <2>8 DEF ReqQueryCut
    <2>10. CASE c = Blank /\ to = "version"
        <3>1. split'.sp2 = p /\ split'.hash = NULL /\ p >= 0
            BY <1>1, <2>3, <2>10, BlankChar
        <3>2. MethodCut(s)' /\ ReqPathCut(s)'
            BY <1>1, <1>2, <2>1, <2>3, <2>4, <2>5, MethodKept, PathKept DEF BehindPath
        <3>3. ReqFragmentCut(s)'
            BY <2>1, <2>5, <3>1 DEF ReqFragmentCut
        <3>4. LineCut(s)'
            BY <2>8, <2>9, <3>1, <3>2, <3>3 DEF LineCut
        <3>5. NoHeader'
            BY <2>1, <2>3 DEF BehindPath, NoHeader, SameHeader
        <3>6. ReqVersion'
            BY <1>1, <2>1, <3>4, <3>5 DEF ReqVersion
        <3>7. ReqAt("version")'
            BY <1>1, <3>6 DEF ReqAt, LineAt, PathRegion, XmlRegion
        <3> QED
            BY <1>3, <1>4, <1>6, <2>10, <3>7, ReqReads DEF u
    <2>11. CASE c = "#" /\ to = "frag0"
        <3>1. split'.sp2 = NULL /\ split'.hash = p /\ p >= 0 /\ p = p' - 1
            BY <1>1, <2>3, <2>11, BlankChar
        <3>2. BehindPath'
            BY <1>1, <1>2, <2>1, <2>3, <2>4, <2>5, <3>1, BehindPathKept
        <3>3. ReqFrag0'
            BY <2>9, <3>1, <3>2 DEF ReqFrag0
        <3>4. ReqAt("frag0")'
            BY <1>1, <3>3 DEF ReqAt, LineAt, PathRegion, XmlRegion
        <3> QED
            BY <1>3, <1>4, <1>6, <2>11, <3>4, ReqReads DEF u
    <2> QED
        BY <2>10, <2>11
<1> QED
    BY <1>5, <1>6

LEMMA ReqQueryStep ==
    ASSUME ReqInv, Q!Query
    PROVE  ReqInv'
<1> USE DEF NULL
<1> DEFINE r == IF cs = "query0" THEN Q!start_query(s) ELSE s
<1>1. Q!Running /\ cs \in {"query0", "query"} /\ pct = 0
    BY DEF Q!Query, Q!In, Q!Reads, Q!Consumes
<1>2. ~json /\ LineAt(cs)
    BY <1>1, InTheLine DEF JsonRegion, PathRegion
<1>3. /\ ReqGood(s) /\ PiecesOK /\ split \in ReqSplit /\ p \in Nat /\ base \in Nat /\ base <= p
      /\ LastPiece(pieces, p) = base
    BY LastPieceIs DEF ReqInv, ReqTypes, PiecesOK
<1>4. ReqGood(r) /\ SameParts(r, s) /\ r.path = s.path
    BY <1>3, ReqStartQuery DEF SameParts
<1>5. InQuery(r)
    <2>1. CASE cs = "query0"
        <3>1. ReqQuery0
            BY <1>2, <2>1 DEF LineAt
        <3>2. split.query + 1 = p /\ split.query < p
            BY <1>3, <3>1, SplitInts DEF ReqQuery0
        <3>3. r.query_start = p - base
            BY <1>3, <2>1, ReqStartQuery
        <3> QED
            BY <1>3, <3>1, <3>2, <3>3 DEF ReqQuery0, InQuery
    <2>2. CASE cs = "query"
        <3>1. ReqQuery /\ r = s
            BY <1>2, <2>2 DEF LineAt
        <3>2. split.query < p
            BY <1>3, <3>1, SplitInts DEF ReqQuery
        <3> QED
            BY <3>1, <3>2 DEF ReqQuery, InQuery
    <2> QED
        BY <1>1, <2>1, <2>2
<1>6. \/ \E c \in Q!pchar \cup {"/", "?", "%"} : Q!Reads(c, "query", r)
      \/ Q!Reads(Blank, "version", Q!query_string(r))
      \/ Q!Reads("#", "frag0", Q!query_string(r))
    BY DEF Q!Query, Blank
<1> HIDE DEF r
<1>7. ASSUME NEW c \in Q!pchar \cup {"/", "?", "%"}, Q!Reads(c, "query", r)
      PROVE  ReqInv'
    <2>1. c \notin {Blank, "#"}
        BY <1>7, ReqChars, BlankChar
    <2>2. Q!Consumes(c, "query", r) /\ UNCHANGED <<json, count, lit>> /\ pct' = (IF c = "%" THEN 2 ELSE 0)
        BY <1>7 DEF Q!Reads
    <2>3. ReqLit(lit') /\ pct' \in 0..2
        BY <2>2 DEF ReqInv, ReqTypes
    <2> QED
        BY <1>2, <1>4, <1>5, <2>1, <2>2, <2>3, QueryGoesOn
<1> QED
    BY <1>2, <1>4, <1>5, <1>6, <1>7, QueryIsCut

\* The fragment has begun and is marked in r.
InFragment(r) == BehindPath /\ ReqQueryCut(s) /\ split.hash >= 0 /\ split.hash < p /\ MarkAt(r, split.hash + 1)

LEMMA FragmentGoesOn ==
    ASSUME ReqInv, ~json, NEW c, c # Blank, NEW r, ReqGood(r), SameParts(r, s), r.path = s.path,
           InFragment(r), Q!Consumes(c, "frag", r), UNCHANGED <<json, count>>, ReqLit(lit'), pct' \in 0..2
    PROVE  ReqInv'
<1> USE DEF NULL
<1>1. /\ ReqGood(s) /\ split \in ReqSplit /\ PiecesOK /\ p \in Nat /\ base \in Nat /\ base <= p
      /\ ~s.threw /\ p' = p + 1 /\ s' = r /\ split' = Q!SplitStep(split, c)
      /\ base' = base /\ pieces' = pieces /\ json' = json /\ count \in 0..20 /\ json \in BOOLEAN
    BY ReqHere
<1>2. PastKept /\ split' \in ReqSplit
    BY ReqHereKept
<1>3. /\ BehindPath /\ ReqQueryCut(s) /\ split.hash >= 0 /\ split.hash < p /\ MarkAt(r, split.hash + 1)
      /\ split.sp2 = NULL /\ split.hash \in Int
    BY <1>1, SplitInts DEF InFragment, BehindPath
<1>4. split.sp1 # NULL /\ split.hash # NULL
    BY <1>1, <1>3, BehindMethod DEF BehindPath
<1>5. /\ SameHeader(split', split) /\ split'.sp1 = split.sp1 /\ split'.sp2 = NULL /\ split'.hash = split.hash
      /\ split'.query = split.query /\ split'.colon = split.colon
    BY <1>1, <1>3, <1>4, TargetSplit
<1>6. PathStart' = PathStart /\ PathEnd' = PathEnd /\ QueryEnd' = QueryEnd
    BY <1>3, <1>4, <1>5 DEF PathStart, PathEnd, QueryEnd
<1>7. BehindPath'
    BY <1>1, <1>2, <1>3, <1>5, <1>6, BehindPathKept DEF SameParts
<1>8. ReqQueryCut(s)'
    BY <1>1, <1>2, <1>3, <1>5, <1>6, QueryKept DEF SameParts
<1>9. split'.hash >= 0 /\ split'.hash < p' /\ MarkAt(s, split.hash + 1)'
    BY <1>1, <1>3, <1>5 DEF MarkAt, Later
<1>10. ReqFrag'
    BY <1>5, <1>7, <1>8, <1>9 DEF ReqFrag
<1>11. ReqAt("frag")'
    BY <1>1, <1>10 DEF ReqAt, LineAt, PathRegion, XmlRegion
<1>12. "frag" \in ReqEscapes
    BY DEF ReqEscapes
<1> QED
    BY <1>1, <1>11, <1>12, ReqStep DEF SameParts

LEMMA FragmentIsCut ==
    ASSUME ReqInv, ~json, NEW r, ReqGood(r), SameParts(r, s), r.path = s.path, InFragment(r),
           Q!Reads(Blank, "version", Q!fragment(r))
    PROVE  ReqInv'
<1> USE DEF NULL
<1> DEFINE u == Q!fragment(r)
<1>1. /\ ReqGood(s) /\ split \in ReqSplit /\ PiecesOK /\ p \in Nat /\ base \in Nat /\ base <= p
      /\ ~s.threw /\ p' = p + 1 /\ s' = u /\ split' = Q!SplitStep(split, Blank) /\ LastPiece(pieces, p) = base
      /\ base' = base /\ pieces' = pieces /\ json' = json /\ json \in BOOLEAN /\ count' = count
    BY ReqHere DEF Q!Reads
<1>2. PastKept /\ split' \in ReqSplit
    BY ReqHereKept DEF Q!Reads
<1>3. /\ ReqGood(u) /\ u.method = r.method /\ u.path = r.path /\ u.query = r.query /\ u.threw = r.threw
      /\ u.fragment = <<base + r.mark, p>>
    BY <1>1, ReqFragment
<1> HIDE DEF u
<1>4. /\ BehindPath /\ ReqQueryCut(s) /\ split.hash >= 0 /\ split.hash < p
      /\ base + r.mark = Later(split.hash + 1, base) /\ split.sp2 = NULL /\ split.hash \in Int /\ count = 0
    BY <1>1, SplitInts DEF InFragment, BehindPath, MarkAt
<1>5. split.sp1 # NULL /\ split.hash # NULL
    BY <1>1, <1>4, BehindMethod DEF BehindPath
<1>6. /\ SameHeader(split', split) /\ split'.sp1 = split.sp1 /\ split'.sp2 = p /\ split'.hash = split.hash
      /\ split'.query = split.query /\ split'.colon = split.colon
    BY <1>1, <1>4, <1>5, TargetSplit, BlankChar
<1>7. PathStart' = PathStart /\ PathEnd' = PathEnd /\ QueryEnd' = QueryEnd
    BY <1>4, <1>5, <1>6 DEF PathStart, PathEnd, QueryEnd
<1>8. s'.method = s.method /\ s'.path = s.path /\ s'.query = s.query /\ ~s'.threw
    BY <1>1, <1>3 DEF SameParts
<1>9. MethodCut(s)' /\ ReqPathCut(s)'
    BY <1>1, <1>2, <1>4, <1>6, <1>7, <1>8, MethodKept, PathKept DEF BehindPath
<1>10. ReqQueryCut(s)'
    BY <1>1, <1>2, <1>4, <1>6, <1>7, <1>8, QueryKept
<1>11. ReqFragmentCut(s)'
    <2>1. s'.fragment = <<Later(split'.hash + 1, LastPiece(pieces', split'.sp2)), split'.sp2>>
        BY <1>1, <1>3, <1>4, <1>6
    <2> QED
        BY <1>5, <1>6, <2>1 DEF ReqFragmentCut
<1>12. p >= 0 /\ p < p'
    BY <1>1
<1>13. LineCut(s)'
    BY <1>6, <1>9, <1>10, <1>11, <1>12 DEF LineCut
<1>14. NoHeader'
    BY <1>4, <1>6 DEF BehindPath, NoHeader, SameHeader
<1>15. ReqVersion'
    BY <1>1, <1>4, <1>13, <1>14 DEF ReqVersion
<1>16. ReqAt("version")'
    BY <1>1, <1>15 DEF ReqAt, LineAt, PathRegion, XmlRegion
<1> QED
    BY <1>1, <1>3, <1>8, <1>16, ReqReads, BlankChar DEF u

LEMMA ReqFragmentStep ==
    ASSUME ReqInv, Q!Fragment
    PROVE  ReqInv'
<1> USE DEF NULL
<1> DEFINE r == IF cs = "frag0" THEN Q!mark(s) ELSE s
<1>1. Q!Running /\ cs \in {"frag0", "frag"} /\ pct = 0
    BY DEF Q!Fragment, Q!In, Q!Reads, Q!Consumes
<1>2. ~json /\ LineAt(cs)
    BY <1>1, InTheLine DEF JsonRegion, PathRegion
<1>3. ReqGood(s) /\ PiecesOK /\ split \in ReqSplit /\ p \in Nat /\ base \in Nat /\ base <= p
    BY DEF ReqInv, ReqTypes, PiecesOK
<1>4. ReqGood(r) /\ SameParts(r, s) /\ r.path = s.path
    BY <1>3, ReqMark DEF SameParts
<1>5. InFragment(r)
    <2>1. CASE cs = "frag0"
        <3>1. ReqFrag0
            BY <1>2, <2>1 DEF LineAt
        <3>2. split.hash + 1 = p /\ split.hash < p
            BY <1>3, <3>1, SplitInts DEF ReqFrag0
        <3>3. base + r.mark = p
            BY <1>3, <2>1, ReqMark
        <3>4. MarkAt(r, split.hash + 1)
            BY <1>3, <3>2, <3>3 DEF MarkAt, Later
        <3> QED
            BY <3>1, <3>2, <3>4 DEF ReqFrag0, InFragment
    <2>2. CASE cs = "frag"
        BY <1>2, <2>2 DEF LineAt, ReqFrag, InFragment
    <2> QED
        BY <1>1, <2>1, <2>2
<1>6. \/ \E c \in Q!pchar \cup {"/", "?", "%"} : Q!Reads(c, "frag", r)
      \/ Q!Reads(Blank, "version", Q!fragment(r))
    BY DEF Q!Fragment, Blank
<1> HIDE DEF r
<1>7. ASSUME NEW c \in Q!pchar \cup {"/", "?", "%"}, Q!Reads(c, "frag", r)
      PROVE  ReqInv'
    <2>1. c # Blank
        BY <1>7, ReqChars, BlankChar
    <2>2. Q!Consumes(c, "frag", r) /\ UNCHANGED <<json, count, lit>> /\ pct' = (IF c = "%" THEN 2 ELSE 0)
        BY <1>7 DEF Q!Reads
    <2>3. ReqLit(lit') /\ pct' \in 0..2
        BY <2>2 DEF ReqInv, ReqTypes
    <2> QED
        BY <1>2, <1>4, <1>5, <2>1, <2>2, <2>3, FragmentGoesOn
<1> QED
    BY <1>2, <1>4, <1>5, <1>6, <1>7, FragmentIsCut

\* The two digits after a "%".
LEMMA ReqPctStep ==
    ASSUME ReqInv, Q!PctDigit
    PROVE  ReqInv'
<1>1. PICK c \in Q!xdigit : Q!Consumes(c, cs, s)
    BY DEF Q!PctDigit
<1>2. Q!Running /\ pct > 0 /\ pct' = pct - 1 /\ UNCHANGED <<json, count, lit>>
    BY <1>1 DEF Q!PctDigit, Q!Consumes
<1>3. cs \in ReqEscapes /\ ReqLit(lit') /\ pct' \in 0..2 /\ ReqGood(s) /\ SameParts(s, s)
    BY <1>2 DEF ReqInv, ReqTypes, SameParts
<1>4. c \notin {Blank, "?", "#", "/", ":"}
    BY ReqChars
<1>5. json => cs \in JsonRegion
    BY <1>2 DEF ReqInv, ReqAt, Q!Running
<1>6. CASE cs \in PathRegion
    BY <1>1, <1>2, <1>3, <1>4, <1>6, PathConsumes
<1>7. CASE cs = "noscheme"
    <2>1. ~json => InPath /\ split.colon = NULL /\ MarkAt(s, PathStart)
        BY <1>2, <1>7, PathStartIs DEF ReqInv, ReqAt, LineAt, Q!Running, ReqNoscheme, MarkAt
    <2>2. cs \notin PathRegion /\ cs # "scheme" /\ cs \in PathRegion \cup {"noscheme", "scheme"}
        BY <1>7 DEF PathRegion
    <2> QED
        BY <1>1, <1>2, <1>3, <1>4, <1>5, <1>7, <2>1, <2>2, PathGoesOn
<1>8. CASE cs = "query"
    <2>1. ~json /\ ReqQuery
        BY <1>2, <1>8, InTheLine DEF LineAt, JsonRegion, PathRegion
    <2>2. split.query < p
        <3>1. split.query \in Int /\ p \in Int
            BY SplitInts DEF ReqInv, ReqTypes, PiecesOK
        <3> QED
            BY <2>1, <3>1 DEF ReqQuery
    <2>3. InQuery(s)
        BY <2>1, <2>2 DEF ReqQuery, InQuery
    <2> QED
        BY <1>1, <1>2, <1>3, <1>4, <1>8, <2>1, <2>3, QueryGoesOn
<1>9. CASE cs = "frag"
    <2>1. ~json /\ ReqFrag
        BY <1>2, <1>9, InTheLine DEF LineAt, JsonRegion, PathRegion
    <2>2. InFragment(s)
        BY <2>1 DEF ReqFrag, InFragment
    <2> QED
        BY <1>1, <1>2, <1>3, <1>4, <1>9, <2>1, <2>2, FragmentGoesOn
<1> QED
    BY <1>3, <1>6, <1>7, <1>8, <1>9 DEF ReqEscapes, PathRegion

LEMMA ReqUriStep ==
    ASSUME ReqInv, Q!URI
    PROVE  ReqInv'
<1>1. CASE Q!Path \/ Q!Slash \/ Q!Closed \/ Q!Port
    BY <1>1, PathSteps, PathMoves
<1>2. CASE Q!Authority \/ Q!UserHost \/ Q!UserPort \/ Q!Userinfo \/ Q!Host \/ Q!RegName
    BY <1>2, AuthoritySteps, PathMoves
<1>3. CASE Q!LiteralOpen \/ Q!Group \/ Q!AfterColon \/ Q!AfterGap \/ Q!IPv4Tail \/ Q!IPvFuture \/ Q!LiteralEnd
    BY <1>3, ReqLiteralOpenStep, ReqGroupStep, ReqGapStep, ReqIPv4TailStep, ReqIPvFutureStep, ReqLiteralEndStep
<1>4. CASE Q!PctDigit \/ Q!Target \/ Q!JsonTarget \/ Q!Scheme \/ Q!Hier \/ Q!Noscheme \/ Q!Query \/ Q!Fragment
    BY <1>4, ReqPctStep, ReqTargetStep, ReqJsonTargetStep, ReqSchemeStep, ReqHierStep, ReqNoschemeStep,
       ReqQueryStep, ReqFragmentStep
<1> QED
    BY <1>1, <1>2, <1>3, <1>4
    DEF Q!URI, Q!LineNoscheme, Q!LinePath, Q!LineSlash, Q!LineAuthority, Q!LineUserHost, Q!LineUserPort,
        Q!LineUserinfo, Q!LineHost, Q!LineRegName, Q!LineAfterAuthority, Q!LineLiteralOpen, Q!LineGroups,
        Q!LineGroupsBehindGap, Q!LineIPv4Tail, Q!LineIPvFuture, Q!JsonNoscheme, Q!JsonPath, Q!JsonSlash,
        Q!JsonAuthority, Q!JsonUserHost, Q!JsonUserPort, Q!JsonUserinfo, Q!JsonHost, Q!JsonRegName,
        Q!JsonAfterAuthority, Q!JsonLiteralOpen, Q!JsonGroups, Q!JsonGroupsBehindGap, Q!JsonIPv4Tail,
        Q!JsonIPvFuture, Q!AfterAuthority, Q!Groups

-----------------------------------------------------------------------------
(* The version *)

LEMMA BehindTarget ==
    ASSUME split \in ReqSplit, LineCut(s)
    PROVE  split.sp1 # NULL /\ split.sp2 # NULL
<1>1. split.sp1 \in Int /\ split.sp2 \in Int
    BY SplitInts
<1>2. split.sp1 >= 0 /\ split.sp2 >= 0
    BY DEF LineCut, MethodCut
<1> QED
    BY <1>1, <1>2 DEF NULL

LEMMA ReqVersionStep ==
    ASSUME ReqInv, Q!Version
    PROVE  ReqInv'
<1> USE DEF NULL
<1>1. Q!Running /\ cs = "version" /\ pct = 0 /\ UNCHANGED <<pct, json, lit>>
    BY DEF Q!Version, Q!In, Q!Consumes
<1>2. ~json /\ ReqVersion
    BY <1>1, InTheLine DEF LineAt, JsonRegion, PathRegion
<1>3. /\ ReqGood(s) /\ PiecesOK /\ split \in ReqSplit /\ p \in Nat /\ base \in Nat /\ base <= p
      /\ count \in 0..20 /\ ReqLit(lit') /\ ~s.threw /\ s.mark \in Nat
    BY <1>1 DEF ReqInv, ReqTypes, PiecesOK, ReqGood, ReqFields, Q!Running
<1>4. ~json' /\ json' \in BOOLEAN
    BY <1>1, <1>2 DEF ReqInv, ReqTypes
<1>5. pct' \in 0..2 /\ ~(pct' > 0)
    BY <1>1
<1>6. LineCut(s) /\ NoHeader /\ split.sp1 # NULL /\ split.sp2 # NULL /\ split.line = NULL /\ cs # "line"
    BY <1>1, <1>2, <1>3, BehindTarget DEF ReqVersion, NoHeader
<1>7. pieces = {0} => base = 0
    BY <1>3 DEF PiecesOK
<1>8. pieces = {0} /\ count > 0 => s.mark + count = p
    BY <1>2 DEF ReqVersion
<1>9. ASSUME NEW c, NEW to, NEW r, Q!Consumes(c, to, r), SameParts(r, s), r.path = s.path
      PROVE  /\ LineCut(s)' /\ NoHeader' /\ split'.minor = (IF c \in Q!digit THEN c ELSE split.minor)
             /\ p' = p + 1 /\ s' = r /\ pieces' = pieces
    <2>1. split' = Q!SplitStep(split, c) /\ s' = r /\ p' = p + 1 /\ pieces' = pieces
        BY <1>9 DEF Q!Consumes
    <2>2. SameTarget(split', split) /\ SameHeader(split', split)
          /\ split'.minor = (IF c \in Q!digit THEN c ELSE split.minor)
        BY <1>3, <1>6, <2>1, VersionSplit
    <2>3. PastKept
        BY <1>9, ReqHereKept
    <2>4. LineCut(s)'
        BY <1>3, <1>6, <1>9, <2>1, <2>2, <2>3, LineKept DEF SameParts
    <2> QED
        BY <1>6, <2>1, <2>2, <2>4 DEF NoHeader, SameHeader
<1>10. ASSUME count < 7, NEW c, Q!Consumes(c, "version", IF count = 0 THEN Q!mark(s) ELSE s), count' = count + 1
       PROVE  ReqInv'
    <2> DEFINE r == IF count = 0 THEN Q!mark(s) ELSE s
    <2>1. ReqGood(r) /\ SameParts(r, s) /\ r.path = s.path /\ r.mark \in Nat
          /\ (count = 0 => base + r.mark = p) /\ (count # 0 => r.mark = s.mark)
        <3>1. ReqGood(r) /\ SameParts(r, s) /\ r.path = s.path
              /\ (count = 0 => base + r.mark = p) /\ (count # 0 => r.mark = s.mark)
            BY <1>3, ReqMark DEF SameParts
        <3> QED
            BY <3>1 DEF ReqGood, ReqFields
    <2> HIDE DEF r
    <2>2. /\ LineCut(s)' /\ NoHeader' /\ p' = p + 1 /\ s' = r /\ pieces' = pieces
        BY <1>9, <1>10, <2>1 DEF r
    <2>3. pieces' = {0} => s'.mark + count' = p'
        BY <1>3, <1>7, <1>8, <1>10, <2>1, <2>2
    <2>4. ReqVersion'
        BY <2>2, <2>3 DEF ReqVersion
    <2>5. ReqAt("version")'
        BY <1>4, <2>4 DEF ReqAt, LineAt, PathRegion, XmlRegion
    <2>6. count' \in 0..20 /\ ~r.threw
        BY <1>3, <1>10, <2>1 DEF SameParts
    <2> QED
        BY <1>3, <1>4, <1>5, <1>10, <2>1, <2>5, <2>6, ReqStep DEF r
<1>11. ASSUME count = 7, NEW c \in {"0", "1"}, Q!Consumes(c, "eol", s), count' = 0
       PROVE  ReqInv'
    <2>1. SameParts(s, s) /\ c \in Q!digit
        BY DEF SameParts, Q!digit
    <2>2. LineCut(s)' /\ NoHeader' /\ split'.minor = c /\ p' = p + 1 /\ s' = s /\ pieces' = pieces
        BY <1>9, <1>11, <2>1
    <2>3. pieces' = {0} => s'.mark + 8 = p'
        BY <1>3, <1>8, <1>11, <2>2
    <2>4. ReqEol'
        BY <2>2, <2>3 DEF ReqEol
    <2>5. ReqAt("eol")'
        BY <1>4, <2>4 DEF ReqAt, LineAt, PathRegion, XmlRegion
    <2>6. count' \in 0..20
        BY <1>11
    <2> QED
        BY <1>3, <1>4, <1>5, <1>11, <2>5, <2>6, ReqStep
<1> QED
    BY <1>10, <1>11 DEF Q!Version

LEMMA ReqEndOfLineStep ==
    ASSUME ReqInv, Q!EndOfLine
    PROVE  ReqInv'
<1> USE DEF NULL
<1> DEFINE r == Q!http_version(s, split.minor)
<1>1. Q!Running /\ cs = "eol" /\ pct = 0
    BY DEF Q!EndOfLine, Q!In, Q!Plain, Q!Consumes
<1>2. ~json /\ ReqEol
    BY <1>1, InTheLine DEF LineAt, JsonRegion, PathRegion
<1>3. /\ ReqGood(s) /\ PiecesOK /\ split \in ReqSplit /\ p \in Nat /\ base \in Nat /\ base <= p
      /\ ~s.threw /\ s.mark \in Nat
    BY <1>1 DEF ReqInv, ReqTypes, PiecesOK, ReqGood, ReqFields, Q!Running
<1>4. LineCut(s) /\ NoHeader /\ split.minor \in {"0", "1"} /\ (pieces = {0} => s.mark + 8 = p)
    BY <1>2 DEF ReqEol
<1>5. split.sp1 # NULL /\ split.sp2 # NULL /\ split.line = NULL /\ cs # "line"
    BY <1>1, <1>3, <1>4, BehindTarget DEF NoHeader
<1>6. /\ ReqGood(r)
      /\ r.error \/ r.version \in {split.minor, "1"}
      /\ base + s.mark + 8 = p => r.version = split.minor
      /\ r.method = s.method /\ r.path = s.path /\ r.query = s.query /\ r.fragment = s.fragment
      /\ r.threw = s.threw
    BY <1>3, <1>4, ReqHttpVersion
<1>7. pieces = {0} => base = 0
    BY <1>3 DEF PiecesOK
<1>8. pieces = {0} => r.version = split.minor
    BY <1>3, <1>4, <1>6, <1>7
<1>9. PICK c \in {"LF", "CR"}, to \in {"line", "cr"} : Q!Plain(c, to, r)
    BY DEF Q!EndOfLine
<1> HIDE DEF r
<1>10. /\ split' = Q!SplitStep(split, c) /\ s' = r /\ p' = p + 1 /\ pieces' = pieces /\ json' = json /\ PastKept
    BY <1>9, ReqHereKept DEF Q!Plain, Q!Consumes
<1>11. SameTarget(split', split) /\ SameHeader(split', split) /\ split'.minor = split.minor
    BY <1>3, <1>5, <1>10, VersionSplit DEF Q!digit
<1>12. LineCut(s)'
    BY <1>3, <1>4, <1>6, <1>10, <1>11, LineKept
<1>13. Head(s)'
    BY <1>6, <1>8, <1>10, <1>11, <1>12 DEF Head, VersionCut
<1>14. ReqLine'
    BY <1>4, <1>11, <1>13 DEF ReqLine, NoHeader, SameHeader
<1>15. ReqAt(to)'
    BY <1>2, <1>9, <1>10, <1>14 DEF ReqAt, LineAt, PathRegion, XmlRegion
<1> QED
    BY <1>1, <1>3, <1>6, <1>9, <1>15, ReqPlain

-----------------------------------------------------------------------------
(* The headers *)

LEMMA HeadKept ==
    ASSUME PastKept, split \in ReqSplit, SameTarget(split', split), split'.minor = split.minor, Head(s),
           s'.method = s.method, s'.path = s.path, s'.query = s.query, s'.fragment = s.fragment,
           s'.version = s.version, s'.error = s.error, pieces' = pieces \/ pieces' # {0}
    PROVE  Head(s)'
<1>1. LineCut(s)'
    BY LineKept DEF Head
<1>2. VersionCut(s)'
    BY DEF Head, VersionCut
<1> QED
    BY <1>1, <1>2 DEF Head

LEMMA HeaderKept ==
    ASSUME PastKept, split \in ReqSplit, SameHeader(split', split), HeaderCut,
           s'.dropped = s.dropped, s'.field = s.field, s'.value = s.value
    PROVE  HeaderCut'
<1>1. split.line \in Int /\ split.hcolon \in Int /\ split.value \in Int /\ split.eol \in Int
    BY SplitInts
<1>2. split.line >= 0 /\ split.hcolon >= 0 /\ split.value >= 0 /\ split.hcolon < split.eol /\ split.eol < p
    BY DEF HeaderCut
<1>3. /\ LastPiece(pieces', split.eol) = LastPiece(pieces, split.eol)
      /\ LastPiece(pieces', split.hcolon) = LastPiece(pieces, split.hcolon)
      /\ split.eol < p'
    BY <1>1, <1>2 DEF PastKept
<1> QED
    BY <1>2, <1>3 DEF HeaderCut, SameHeader

\* What every header step starts from.
LEMMA ReqHeadHere ==
    ASSUME ReqInv, NEW c, NEW to, NEW r, Q!Plain(c, to, r), cs \notin JsonRegion, Head(s), SameParts(r, s),
           r.path = s.path, SameTarget(Q!SplitStep(split, c), split), Q!SplitStep(split, c).minor = split.minor
    PROVE  /\ Head(s)' /\ ~json' /\ PastKept /\ p' = p + 1 /\ s' = r /\ split' = Q!SplitStep(split, c)
           /\ base' = base /\ pieces' = pieces
<1>1. /\ p' = p + 1 /\ s' = r /\ split' = Q!SplitStep(split, c) /\ base' = base /\ pieces' = pieces
      /\ json' = json /\ split \in ReqSplit /\ Q!Running
    BY DEF Q!Plain, Q!Consumes, ReqInv, ReqTypes
<1>2. PastKept
    BY ReqHereKept DEF Q!Plain
<1>3. Head(s)'
    BY <1>1, <1>2, HeadKept DEF SameParts
<1> QED
    BY <1>1, <1>2, <1>3, InTheLine

LEMMA HeadSplit ==
    ASSUME split \in ReqSplit, Head(s)
    PROVE  split.sp1 # NULL /\ split.sp2 # NULL
BY BehindTarget DEF Head

LEMMA ReqCarriageReturnStep ==
    ASSUME ReqInv, Q!CarriageReturn
    PROVE  ReqInv'
<1> USE DEF NULL
<1>1. Q!Running /\ cs = "cr" /\ pct = 0 /\ Q!Plain("LF", "line", s)
    BY DEF Q!CarriageReturn, Q!In, Q!Plain, Q!Consumes
<1>2. Head(s) /\ (NoHeader \/ HeaderCut) /\ cs \notin JsonRegion
    <2>1. cs \notin JsonRegion
        BY <1>1 DEF JsonRegion, PathRegion
    <2> QED
        BY <1>1, <2>1, InTheLine DEF LineAt, ReqLine
<1>3. ReqGood(s) /\ split \in ReqSplit /\ ~s.threw /\ SameParts(s, s)
    BY <1>1 DEF ReqInv, ReqTypes, Q!Running, SameParts
<1>4. split.sp1 # NULL /\ split.sp2 # NULL /\ cs # "line" /\ "LF" \notin Q!digit /\ "LF" \in {"CR", "LF"}
    BY <1>1, <1>2, <1>3, HeadSplit DEF Q!digit
<1> DEFINE d == Q!SplitStep(split, "LF")
<1>5. SameTarget(d, split) /\ SameHeader(d, split) /\ d.minor = split.minor
    <2>1. CASE NoHeader
        BY <1>3, <1>4, <2>1, VersionSplit DEF NoHeader
    <2>2. CASE HeaderCut
        <3>1. split.line # NULL /\ split.hcolon # NULL /\ split.value # NULL /\ split.eol # NULL
            <4>1. split.line \in Int /\ split.hcolon \in Int /\ split.value \in Int /\ split.eol \in Int
                BY <1>3, SplitInts
            <4> QED
                BY <2>2, <4>1 DEF HeaderCut
        <3> QED
            BY <1>3, <1>4, <3>1, HeaderSplit DEF SameHeader
    <2> QED
        BY <1>2, <2>1, <2>2
<1> HIDE DEF d
<1>6. Head(s)' /\ ~json' /\ PastKept /\ s' = s /\ split' = d
    BY <1>1, <1>2, <1>3, <1>5, ReqHeadHere DEF d
<1>7. HeaderCut => HeaderCut'
    BY <1>3, <1>5, <1>6, HeaderKept
<1>8. NoHeader => NoHeader'
    BY <1>5, <1>6 DEF NoHeader, SameHeader
<1>9. ReqLine'
    BY <1>2, <1>6, <1>7, <1>8 DEF ReqLine
<1>10. ReqAt("line")'
    BY <1>6, <1>9 DEF ReqAt, LineAt, PathRegion, XmlRegion
<1> QED
    BY <1>1, <1>3, <1>10, ReqPlain

\* A header's name begins, or the head ends.
LEMMA ReqNewLineStep ==
    ASSUME ReqInv, cs = "line", pct = 0, NEW c, c # ":", NEW to \in {"name", "endcr", "done"},
           Q!Plain(c, to, Q!start_field(s))
    PROVE  ReqInv'
<1> USE DEF NULL
<1> DEFINE r == Q!start_field(s)
           d == Q!SplitStep(split, c)
<1>1. Q!Running /\ cs \notin JsonRegion
    BY DEF Q!Plain, Q!Consumes, JsonRegion, PathRegion
<1>2. Head(s) /\ (NoHeader \/ HeaderCut)
    BY <1>1, InTheLine DEF LineAt, ReqLine
<1>3. ReqGood(s) /\ PiecesOK /\ split \in ReqSplit /\ ~s.threw /\ p \in Nat /\ base \in Nat /\ base <= p
    BY <1>1 DEF ReqInv, ReqTypes, Q!Running, PiecesOK
<1>4. ReqGood(r) /\ SameParts(r, s) /\ base + r.field_start = p /\ r.path = s.path
    BY <1>3, ReqStartField
<1>5. split.line = NULL \/ split.hcolon # NULL
    <2>1. split.hcolon \in Int
        BY <1>3, SplitInts
    <2> QED
        BY <1>2, <2>1 DEF NoHeader, HeaderCut
<1>6. /\ SameTarget(d, split) /\ d.minor = split.minor
      /\ d.line = p /\ d.hcolon = NULL /\ d.value = NULL /\ d.eol = NULL
    BY <1>2, <1>3, <1>5, LineSplit, HeadSplit
<1> HIDE DEF r, d
<1>7. Head(s)' /\ ~json' /\ p' = p + 1 /\ s' = r /\ split' = d /\ base' = base
    BY <1>1, <1>2, <1>4, <1>6, ReqHeadHere DEF r, d
<1>8. split'.line >= 0 /\ split'.line < p' /\ base' + s'.field_start = Later(split'.line, base')
    BY <1>3, <1>4, <1>6, <1>7 DEF Later
<1>9. ReqName'
    BY <1>6, <1>7, <1>8 DEF ReqName
<1>10. ReqAt(to)'
    BY <1>7, <1>9 DEF ReqAt, LineAt, PathRegion, XmlRegion
<1> QED
    BY <1>3, <1>4, <1>10, ReqPlain DEF r, SameParts

\* One more character of a name, or of what is read as one.
LEMMA ReqNameGoesOn ==
    ASSUME ReqInv, cs \in {"name", "endcr"}, pct = 0, NEW c, c # ":", NEW to \in {"name", "done"}, Q!Plain(c, to, s)
    PROVE  ReqInv'
<1> USE DEF NULL
<1>1. Q!Running /\ cs \notin JsonRegion /\ cs # "line"
    BY DEF Q!Plain, Q!Consumes, JsonRegion, PathRegion
<1>2. ReqName
    BY <1>1, InTheLine DEF LineAt
<1>3. ReqGood(s) /\ split \in ReqSplit /\ ~s.threw /\ p \in Nat /\ SameParts(s, s)
    BY <1>1 DEF ReqInv, ReqTypes, Q!Running, PiecesOK, SameParts
<1>4. Head(s) /\ split.hcolon = NULL /\ split.line # NULL /\ split.line \in Int
    BY <1>2, <1>3, SplitInts DEF ReqName
<1>5. Q!SplitStep(split, c) = split
    BY <1>1, <1>3, <1>4, HeaderSplit, HeadSplit
<1>6. Head(s)' /\ ~json' /\ p' = p + 1 /\ s' = s /\ split' = split /\ base' = base
    BY <1>1, <1>3, <1>4, <1>5, ReqHeadHere DEF SameTarget
<1>7. split'.line < p'
    BY <1>2, <1>3, <1>4, <1>6 DEF ReqName
<1>8. ReqName'
    BY <1>2, <1>6, <1>7 DEF ReqName
<1>9. ReqAt(to)'
    BY <1>6, <1>8 DEF ReqAt, LineAt, PathRegion, XmlRegion
<1> QED
    BY <1>3, <1>9, ReqPlain

\* The colon behind a name.
LEMMA ReqNameEnds ==
    ASSUME ReqInv, cs \in {"name", "endcr"}, pct = 0, Q!Plain(":", "colon", Q!write_field(s))
    PROVE  ReqInv'
<1> USE DEF NULL
<1> DEFINE r == Q!write_field(s)
           d == Q!SplitStep(split, ":")
<1>1. Q!Running /\ cs \notin JsonRegion /\ cs # "line"
    BY DEF Q!Plain, Q!Consumes, JsonRegion, PathRegion
<1>2. ReqName
    BY <1>1, InTheLine DEF LineAt
<1>3. ReqGood(s) /\ PiecesOK /\ split \in ReqSplit /\ ~s.threw /\ p \in Nat /\ base \in Nat /\ base <= p
      /\ LastPiece(pieces, p) = base
    BY <1>1, LastPieceIs DEF ReqInv, ReqTypes, Q!Running, PiecesOK
<1>4. ReqGood(r) /\ SameParts(r, s) /\ r.field_start = s.field_start /\ r.path = s.path
      /\ base + s.field_start + r.field_len = p
    BY <1>3, ReqWriteField
<1>5. /\ Head(s) /\ split.hcolon = NULL /\ split.value = NULL /\ split.line # NULL /\ split.line \in Int
      /\ split.line >= 0 /\ split.line < p /\ base + s.field_start = Later(split.line, base)
    BY <1>2, <1>3, SplitInts DEF ReqName
<1>6. /\ SameTarget(d, split) /\ d.minor = split.minor /\ d.line = split.line
      /\ d.hcolon = p /\ d.value = NULL /\ d.eol = NULL
    BY <1>1, <1>3, <1>5, HeaderSplit, HeadSplit
<1> HIDE DEF r, d
<1>7. Head(s)' /\ ~json' /\ p' = p + 1 /\ s' = r /\ split' = d /\ base' = base
    BY <1>1, <1>4, <1>5, <1>6, ReqHeadHere DEF r, d
<1>8. NameCut'
    <2>1. p < p' /\ base' <= split'.hcolon
        BY <1>3, <1>6, <1>7
    <2>2. base' + s'.field_start = Later(split'.line, base') /\ base' + s'.field_start + s'.field_len = split'.hcolon
        BY <1>4, <1>5, <1>6, <1>7
    <2> QED
        BY <1>5, <1>6, <1>7, <2>1, <2>2 DEF NameCut
<1>9. ReqColon'
    BY <1>6, <1>7, <1>8 DEF ReqColon
<1>10. ReqAt("colon")'
    BY <1>7, <1>9 DEF ReqAt, LineAt, PathRegion, XmlRegion
<1> QED
    BY <1>3, <1>4, <1>10, ReqPlain DEF r, SameParts

LEMMA ReqHeaderStep ==
    ASSUME ReqInv, Q!HeaderLine \/ Q!FieldName
    PROVE  ReqInv'
<1>1. ":" \notin Q!token \cup {"ctl", "vt", "CR", "LF"}
    BY DEF Q!token, Q!alpha, Q!upper, Q!upperhex, Q!lowerhex, Q!digit
<1> QED
    BY <1>1, ReqNewLineStep, ReqNameGoesOn, ReqNameEnds DEF Q!HeaderLine, Q!FieldName, Q!In

\* What a header's value is read from: r marks its start, if that is behind.
InValue(r) == Head(s) /\ NameCut /\ (split.value # NULL /\ base <= split.hcolon => base + r.mark = split.value)

LEMMA ReqValueHere ==
    ASSUME ReqInv, Q!Running, cs \in {"colon", "value"}
    PROVE  /\ cs \notin JsonRegion /\ cs # "line" /\ ReqGood(s) /\ PiecesOK /\ split \in ReqSplit /\ ~s.threw
           /\ p \in Nat /\ base \in Nat /\ base <= p /\ LastPiece(pieces, p) = base /\ InValue(s)
           /\ cs = "colon" => split.value = NULL
           /\ cs = "value" => split.value # NULL /\ split.value >= 0
<1>1. cs \notin JsonRegion /\ cs # "line"
    BY DEF JsonRegion, PathRegion
<1>2. ReqGood(s) /\ PiecesOK /\ split \in ReqSplit /\ ~s.threw /\ p \in Nat /\ base \in Nat /\ base <= p
      /\ LastPiece(pieces, p) = base
    BY LastPieceIs DEF ReqInv, ReqTypes, PiecesOK, Q!Running
<1>3. cs = "colon" => ReqColon
    BY <1>1, InTheLine DEF LineAt
<1>4. cs = "value" => ReqValue
    BY <1>1, InTheLine DEF LineAt
<1>5. cs = "value" => split.value # NULL /\ split.value >= 0
    <2>1. split.value \in Int
        BY <1>2, SplitInts
    <2> QED
        BY <1>4, <2>1 DEF ReqValue, NULL
<1> QED
    BY <1>1, <1>2, <1>3, <1>4, <1>5 DEF ReqColon, ReqValue, InValue

LEMMA NameCutInts ==
    ASSUME split \in ReqSplit, NameCut
    PROVE  /\ split.line \in Int /\ split.hcolon \in Int /\ split.line >= 0 /\ split.line < split.hcolon
           /\ split.hcolon < p /\ split.line # NULL /\ split.hcolon # NULL /\ split.eol = NULL
<1>1. split.line \in Int /\ split.hcolon \in Int
    BY SplitInts
<1> QED
    BY <1>1 DEF NameCut, NULL

LEMMA NameKept ==
    ASSUME p \in Nat, p' = p + 1, split \in ReqSplit, NameCut, split'.line = split.line,
           split'.hcolon = split.hcolon, split'.eol = NULL, base' = base,
           s'.field_start = s.field_start, s'.field_len = s.field_len
    PROVE  NameCut'
<1>1. split.hcolon < p'
    BY NameCutInts
<1> QED
    BY <1>1 DEF NameCut

\* One more character of a value, or blanks before it.
LEMMA ReqValueGoesOn ==
    ASSUME ReqInv, Q!Running, cs \in {"colon", "value"}, pct = 0, NEW r, ReqGood(r), SameParts(r, s), SameField(r, s),
           r.path = s.path, cs = "value" => r = s, cs = "colon" => base + r.mark = p,
           NEW c, c \notin {"CR", "LF"}, NEW to, Q!Plain(c, to, r),
           \/ c \notin Blanks /\ to = "value"
           \/ c \in Blanks /\ to = cs
    PROVE  ReqInv'
<1> USE DEF NULL
<1> DEFINE d == Q!SplitStep(split, c)
<1>1. /\ cs \notin JsonRegion /\ cs # "line" /\ ReqGood(s) /\ split \in ReqSplit /\ ~s.threw
      /\ p \in Nat /\ base \in Nat /\ base <= p /\ InValue(s)
      /\ cs = "colon" => split.value = NULL
      /\ cs = "value" => split.value # NULL /\ split.value >= 0
    BY ReqValueHere
<1>2. /\ Head(s) /\ NameCut /\ split.line # NULL /\ split.hcolon # NULL /\ split.eol = NULL
      /\ split.value # NULL /\ base <= split.hcolon => base + s.mark = split.value
    BY <1>1, NameCutInts DEF InValue
<1>3. /\ SameTarget(d, split) /\ d.minor = split.minor /\ d.line = split.line /\ d.hcolon = split.hcolon
      /\ d.eol = NULL
      /\ d.value = IF split.value # NULL THEN split.value ELSE IF c \in Blanks THEN NULL ELSE p
    BY <1>1, <1>2, HeaderSplit, HeadSplit
<1> HIDE DEF d
<1>4. Head(s)' /\ ~json' /\ p' = p + 1 /\ s' = r /\ split' = d /\ base' = base
    BY <1>1, <1>2, <1>3, ReqHeadHere DEF d
<1>5. NameCut'
    BY <1>1, <1>2, <1>3, <1>4, NameKept DEF SameField
<1>6. CASE to = "colon"
    <2>1. split'.value = NULL
        BY <1>1, <1>3, <1>4, <1>6
    <2>2. ReqColon'
        BY <1>4, <1>5, <2>1 DEF ReqColon
    <2>3. ReqAt("colon")'
        BY <1>4, <2>2 DEF ReqAt, LineAt, PathRegion, XmlRegion
    <2> QED
        BY <1>1, <1>6, <2>3, ReqPlain DEF SameParts
<1>7. CASE to = "value"
    <2>1. split'.value = (IF cs = "value" THEN split.value ELSE p)
        BY <1>1, <1>3, <1>4, <1>7
    <2>2. split'.value >= 0
        BY <1>1, <2>1
    <2>3. base' <= split'.hcolon => base' + s'.mark = split'.value
        BY <1>1, <1>2, <1>3, <1>4, <2>1
    <2>4. ReqValue'
        BY <1>4, <1>5, <2>2, <2>3 DEF ReqValue
    <2>5. ReqAt("value")'
        BY <1>4, <2>4 DEF ReqAt, LineAt, PathRegion, XmlRegion
    <2> QED
        BY <1>1, <1>7, <2>5, ReqPlain DEF SameParts
<1> QED
    BY <1>6, <1>7

\* The end of a value.
LEMMA ReqValueEnds ==
    ASSUME ReqInv, Q!Running, cs \in {"colon", "value"}, pct = 0, NEW r, ReqGood(r), SameParts(r, s), SameField(r, s),
           r.path = s.path, cs = "value" => r = s, cs = "colon" => base + r.mark = p,
           NEW c \in {"CR", "LF"}, NEW to \in {"line", "cr"}, Q!Plain(c, to, Q!write_value(r))
    PROVE  ReqInv'
<1> USE DEF NULL
<1> DEFINE d == Q!SplitStep(split, c)
           u == Q!write_value(r)
<1>1. /\ cs \notin JsonRegion /\ cs # "line" /\ ReqGood(s) /\ PiecesOK /\ split \in ReqSplit /\ ~s.threw
      /\ p \in Nat /\ base \in Nat /\ base <= p /\ LastPiece(pieces, p) = base /\ InValue(s)
      /\ cs = "colon" => split.value = NULL
      /\ cs = "value" => split.value # NULL /\ split.value >= 0
    BY ReqValueHere
<1>2. /\ Head(s) /\ NameCut /\ split.line # NULL /\ split.hcolon # NULL /\ split.eol = NULL
      /\ split.value # NULL /\ base <= split.hcolon => base + s.mark = split.value
      /\ split.line \in Int /\ split.hcolon \in Int /\ split.line >= 0 /\ split.line < split.hcolon
      /\ split.hcolon < p
    BY <1>1, NameCutInts DEF InValue
<1>3. /\ SameTarget(d, split) /\ d.minor = split.minor /\ d.line = split.line /\ d.hcolon = split.hcolon
      /\ d.eol = p
      /\ d.value = IF split.value # NULL THEN split.value ELSE p
    BY <1>1, <1>2, HeaderSplit, HeadSplit, BlankChar
<1>4. /\ ReqGood(u) /\ SameParts(u, r) /\ u.path = r.path
      /\ r.field_len = 0 => u.dropped = TRUE
      /\ r.field_len # 0 =>
            /\ u.dropped = FALSE
            /\ u.field = <<base + r.field_start, base + r.field_start + r.field_len>>
            /\ u.value = <<base + r.mark, p>>
    BY <1>1, ReqWriteValue
<1>5. SameParts(u, s) /\ u.path = s.path
    BY <1>4 DEF SameParts
<1> HIDE DEF d, u
<1>6. Head(s)' /\ ~json' /\ p' = p + 1 /\ s' = u /\ split' = d /\ base' = base /\ pieces' = pieces
    BY <1>1, <1>2, <1>3, <1>5, ReqHeadHere DEF d, u
<1>7. r.field_start = s.field_start /\ r.field_len = s.field_len /\ r.field_start \in Nat /\ r.field_len \in Nat
    BY DEF SameField, ReqGood, ReqFields
<1>8. split'.value >= 0 /\ split'.hcolon < split'.eol /\ split'.eol < p' /\ split'.eol = p
    BY <1>1, <1>2, <1>3, <1>6
<1>9. ASSUME base < split.hcolon
      PROVE  HeaderCut'
    <2>1. base + s.field_start = Later(split.line, base) /\ base + s.field_start + s.field_len = split.hcolon
        BY <1>1, <1>2, <1>9 DEF NameCut
    <2>2. r.field_len # 0
        BY <1>1, <1>2, <1>7, <1>9, <2>1 DEF Later
    <2>3. LastPiece(pieces, split.hcolon) = base
        BY <1>1, <1>2, <1>9, LastPieceIs
    <2>4. base + r.mark = split'.value
        BY <1>1, <1>2, <1>3, <1>6, <1>9
    <2>5. /\ s'.dropped = FALSE
          /\ s'.field = <<Later(split'.line, LastPiece(pieces', split'.hcolon)), split'.hcolon>>
          /\ s'.value = <<split'.value, split'.eol>>
        BY <1>3, <1>4, <1>6, <1>7, <2>1, <2>2, <2>3, <2>4
    <2>6. LastPiece(pieces', split'.eol) < split'.hcolon
        BY <1>1, <1>3, <1>6, <1>9
    <2> QED
        BY <1>2, <1>3, <1>6, <1>8, <2>5, <2>6 DEF HeaderCut
<1>10. ASSUME ~(base < split.hcolon)
       PROVE  HeaderCut'
    <2>1. s.field_len = 0
        <3>1. CASE base = split.hcolon
            <4>1. base + s.field_start = Later(split.line, base) /\ base + s.field_start + s.field_len = split.hcolon
                BY <1>1, <1>2, <3>1 DEF NameCut
            <4> QED
                BY <1>1, <1>2, <1>7, <3>1, <4>1 DEF Later
        <3>2. CASE base > split.hcolon
            <4>1. ~(base <= split.hcolon)
                BY <1>1, <1>2, <3>2
            <4> QED
                BY <1>2, <4>1 DEF NameCut
        <3> QED
            BY <1>1, <1>2, <1>10, <3>1, <3>2
    <2>2. s'.dropped = TRUE
        BY <1>4, <1>6, <1>7, <2>1
    <2>3. ~(LastPiece(pieces', split'.eol) < split'.hcolon)
        BY <1>1, <1>3, <1>6, <1>10
    <2> QED
        BY <1>2, <1>3, <1>6, <1>8, <2>2, <2>3 DEF HeaderCut
<1>11. ReqLine' => ReqAt(to)'
    BY <1>6 DEF ReqAt, LineAt, PathRegion, XmlRegion
<1>12. ReqLine'
    <2>1. HeaderCut'
        BY <1>9, <1>10
    <2> QED
        BY <1>6, <2>1 DEF ReqLine
<1> QED
    BY <1>1, <1>4, <1>5, <1>11, <1>12, ReqPlain DEF u, SameParts

LEMMA ReqFieldValueStep ==
    ASSUME ReqInv, Q!FieldValue
    PROVE  ReqInv'
<1> DEFINE r == IF cs = "colon" THEN Q!start_value(s) ELSE s
<1>1. Q!Running /\ cs \in {"colon", "value"} /\ pct = 0
    BY DEF Q!FieldValue, Q!In, Q!Plain, Q!Consumes
<1>2. ReqGood(s) /\ PiecesOK
    BY DEF ReqInv, ReqTypes
<1>3. ReqGood(r) /\ SameParts(r, s) /\ SameField(r, s) /\ r.path = s.path /\ (cs = "value" => r = s)
      /\ (cs = "colon" => base + r.mark = p)
    BY <1>2, ReqMark DEF SameParts, SameField
<1>4. \/ \E c \in Q!Class : c \notin Blanks /\ c \notin {"CR", "LF"} /\ Q!Plain(c, "value", r)
      \/ \E c \in Blanks : Q!Plain(c, cs, r)
      \/ Q!Plain("LF", "line", Q!write_value(r))
      \/ Q!Plain("CR", "cr", Q!write_value(r))
    BY DEF Q!FieldValue, Blanks
<1>5. \A c \in Blanks : c \notin {"CR", "LF"}
    BY DEF Blanks
<1> HIDE DEF r
<1> QED
    BY <1>1, <1>3, <1>4, <1>5, ReqValueGoesOn, ReqValueEnds

-----------------------------------------------------------------------------
(* SocketXML and SocketJSON *)

LEMMA NoMethodStep ==
    ASSUME ReqInv, pct = 0, NEW c, NEW to, NEW r, ReqGood(r), ~r.threw, r.method = <<>>, Q!Plain(c, to, r),
           IF json THEN to \in JsonRegion ELSE to \in XmlRegion \cup {"done"}
    PROVE  ReqInv'
<1>1. s' = r /\ json' = json
    BY DEF Q!Plain, Q!Consumes
<1>2. ReqAt(to)'
    BY <1>1 DEF ReqAt, LineAt, PathRegion, XmlRegion
<1> QED
    BY <1>2, ReqPlain

LEMMA ReqXmlStep ==
    ASSUME ReqInv, Q!SocketXML
    PROVE  ReqInv'
<1>1. Q!Running /\ cs \in XmlRegion /\ pct = 0
    BY DEF Q!SocketXML, Q!In, Q!Plain, Q!Consumes, XmlRegion
<1>2. ~json /\ LineAt(cs)
    BY <1>1, InTheLine DEF JsonRegion, PathRegion, XmlRegion
<1>3. ReqGood(s) /\ PiecesOK /\ ~s.threw /\ s.method = <<>>
    BY <1>1, <1>2 DEF ReqInv, ReqTypes, Q!Running, LineAt
<1>4. ReqGood(Q!request_path(s)) /\ ~Q!request_path(s).threw /\ Q!request_path(s).method = <<>>
    BY <1>3, ReqPathField DEF SameParts
<1>5. PICK c \in Q!Class \cup Q!alpha \cup Q!digit \cup {"-", ".", "/", ">", Blank, "tab", "vt", "CR", "LF", "NUL"},
           to \in XmlRegion \cup {"done"}, r \in {s, Q!request_path(s)} : Q!Plain(c, to, r)
    BY DEF Q!SocketXML, XmlRegion, Blank
<1> QED
    BY <1>1, <1>2, <1>3, <1>4, <1>5, NoMethodStep

LEMMA ReqJsonStep ==
    ASSUME ReqInv, Q!SocketJSON
    PROVE  ReqInv'
<1>1. Q!Running /\ cs \in {"json0", "jsondata", "jsonend"} /\ pct = 0
    BY DEF Q!SocketJSON, Q!In, Q!Plain, Q!Consumes
<1>2. json /\ s.method = <<>>
    BY <1>1 DEF ReqInv, Q!Running, ReqAt, LineAt
<1>3. ReqGood(s) /\ PiecesOK /\ ~s.threw
    BY <1>1 DEF ReqInv, ReqTypes, Q!Running
<1>4. ReqGood(Q!mark(s)) /\ ~Q!mark(s).threw /\ Q!mark(s).method = <<>>
    BY <1>2, <1>3, ReqMark DEF SameParts
<1>5. \E c, to, r : to \in JsonRegion /\ r \in {s, Q!mark(s)} /\ Q!Plain(c, to, r)
    BY DEF Q!SocketJSON, JsonRegion
<1> QED
    BY <1>1, <1>2, <1>3, <1>4, <1>5, NoMethodStep

-----------------------------------------------------------------------------
(* The next piece *)

LEMMA NextPieceKept ==
    ASSUME p \in Nat, p' = p, pieces' = pieces \cup {p}
    PROVE  PastKept
BY LastPieceKept DEF PastKept

\* What http_parser_execute restarts for the next piece, and what it keeps.
LEMMA ReqRestart ==
    ASSUME ReqInv, Q!NextRead
    PROVE  /\ PiecesOK' /\ pieces' # {0} /\ PastKept /\ ReqGood(s)' /\ base' = p
           /\ s'.mark = 0 /\ s'.field_start = 0 /\ s'.field_len = 0 /\ s'.query_start = s.query_start
           /\ SameParts(s', s) /\ s'.path = s.path /\ s'.field = s.field /\ s'.value = s.value
           /\ s'.dropped = s.dropped
<1>1. PiecesOK /\ p > base /\ base' = p /\ pieces' = pieces \cup {p} /\ p' = p /\ Cardinality(pieces) < MaxReads
    BY SameCardinality DEF ReqInv, ReqTypes, Q!NextRead
<1>2. PiecesOK' /\ pieces' # {0}
    BY <1>1, PiecesRead
<1>3. p \in Nat /\ s \in ReqFields /\ s' = [s EXCEPT !.mark = 0, !.field_start = 0, !.field_len = 0]
    BY <1>1 DEF PiecesOK, ReqInv, ReqTypes, ReqGood, Q!NextRead
<1>4. PastKept
    BY <1>1, <1>3, NextPieceKept
<1>5. s' \in ReqFields
    BY <1>3 DEF ReqFields
<1>6. /\ s'.mark = 0 /\ s'.field_start = 0 /\ s'.field_len = 0 /\ s'.query_start = s.query_start
      /\ SameParts(s', s) /\ s'.path = s.path /\ s'.field = s.field /\ s'.value = s.value
      /\ s'.dropped = s.dropped
    BY <1>3 DEF ReqFields, SameParts
<1>7. ReqGood(s)'
    BY <1>1, <1>3, <1>5, <1>6 DEF ReqGood
<1> QED
    BY <1>1, <1>2, <1>4, <1>6, <1>7

\* In the target.
LEMMA TargetRestarts ==
    ASSUME ReqInv, Q!NextRead, ~json, LineAt(cs)
    PROVE  /\ cs = "target" => ReqTarget'
           /\ cs = "scheme" => ReqScheme'
           /\ cs = "noscheme" => ReqNoscheme'
           /\ cs = "hier" => ReqHier'
           /\ cs \in PathRegion => ReqPath'
<1> USE DEF NULL
<1>1. /\ PastKept /\ base' = p /\ s'.mark = 0 /\ s'.method = s.method /\ s'.query = s.query
      /\ s'.fragment = s.fragment
    BY ReqRestart DEF SameParts
<1>2. split' = split /\ count' = count /\ p' = p /\ split \in ReqSplit /\ p \in Nat
    BY DEF Q!NextRead, ReqInv, ReqTypes, PiecesOK
<1>3. InPath => InPath'
    <2>1. InPath => MethodCut(s)'
        BY <1>1, <1>2, MethodKept DEF InPath
    <2> QED
        BY <1>1, <1>2, <2>1 DEF InPath, NoHeader
<1>4. PathStart' = PathStart
    BY <1>2 DEF PathStart
<1>5. InPath => split.sp1 + 1 <= p /\ PathStart <= p /\ split.sp1 + 1 \in Int /\ PathStart \in Int
    <2>1. split.sp1 \in Int /\ split.colon \in Int
        BY <1>2, SplitInts
    <2> QED
        BY <1>2, <2>1 DEF InPath, MethodCut, PathStart
<1>6. \A q \in Int : q <= p => base' + s'.mark = Later(q, base')
    BY <1>1, <1>2 DEF Later
<1>7. CASE cs = "target"
    BY <1>2, <1>3, <1>7 DEF LineAt, ReqTarget, PathRegion
<1>8. CASE cs = "scheme"
    <2>1. ReqScheme
        BY <1>8 DEF LineAt
    <2>2. base' + s'.mark = Later(split.sp1 + 1, base')
        BY <1>5, <1>6, <2>1 DEF ReqScheme
    <2> QED
        BY <1>2, <1>3, <1>8, <2>1, <2>2 DEF ReqScheme, MarkAt, PathRegion
<1>9. CASE cs = "noscheme"
    <2>1. ReqNoscheme
        BY <1>9 DEF LineAt
    <2>2. base' + s'.mark = Later(split.sp1 + 1, base')
        BY <1>5, <1>6, <2>1 DEF ReqNoscheme
    <2> QED
        BY <1>2, <1>3, <1>9, <2>1, <2>2 DEF ReqNoscheme, MarkAt, PathRegion
<1>10. CASE cs = "hier"
    BY <1>2, <1>3, <1>10 DEF LineAt, ReqHier, PathRegion
<1>11. CASE cs \in PathRegion
    <2>1. ReqPath
        BY <1>11 DEF LineAt
    <2>2. base' + s'.mark = Later(PathStart, base')
        BY <1>5, <1>6, <2>1 DEF ReqPath
    <2>3. ReqPath'
        BY <1>2, <1>3, <1>4, <2>1, <2>2 DEF ReqPath, MarkAt
    <2> QED
        BY <1>11, <2>3 DEF PathRegion
<1> QED
    BY <1>7, <1>8, <1>9, <1>10, <1>11

\* Behind the path.
LEMMA QueryRestarts ==
    ASSUME ReqInv, Q!NextRead, ~json, LineAt(cs)
    PROVE  /\ cs = "query0" => ReqQuery0'
           /\ cs = "query" => ReqQuery'
           /\ cs = "frag0" => ReqFrag0'
           /\ cs = "frag" => ReqFrag'
<1> USE DEF NULL
<1>1. /\ PastKept /\ base' = p /\ s'.mark = 0 /\ s'.method = s.method /\ s'.query = s.query /\ s'.path = s.path
      /\ s'.fragment = s.fragment /\ s'.query_start = s.query_start
    BY ReqRestart DEF SameParts
<1>2. split' = split /\ count' = count /\ p' = p /\ split \in ReqSplit /\ p \in Nat
    BY DEF Q!NextRead, ReqInv, ReqTypes, PiecesOK
<1>3. PathStart' = PathStart /\ PathEnd' = PathEnd /\ QueryEnd' = QueryEnd
    BY <1>2 DEF PathStart, PathEnd, QueryEnd
<1>4. BehindPath => BehindPath'
    <2>1. SameHeader(split', split)
        BY <1>2 DEF SameHeader
    <2>2. BehindPath => split'.sp2 = NULL
        BY <1>2 DEF BehindPath
    <2> QED
        BY <1>1, <1>2, <1>3, <2>1, <2>2, BehindPathKept
<1>5. ReqQueryCut(s) => ReqQueryCut(s)'
    BY <1>1, <1>2, <1>3, QueryKept
<1>6. CASE cs = "query0"
    BY <1>1, <1>2, <1>4, <1>6 DEF LineAt, ReqQuery0
<1>7. CASE cs = "query"
    <2>1. ReqQuery
        BY <1>7 DEF LineAt
    <2>2. split.query + 1 \in Int /\ split.query + 1 < p
        BY <1>2, <2>1, SplitInts DEF ReqQuery
    <2>3. LastPiece(pieces', split.query + 1) = LastPiece(pieces, split.query + 1)
        BY <1>1, <2>2 DEF PastKept
    <2> QED
        BY <1>1, <1>2, <1>4, <1>7, <2>1, <2>3 DEF ReqQuery
<1>8. CASE cs = "frag0"
    BY <1>1, <1>2, <1>4, <1>5, <1>8 DEF LineAt, ReqFrag0
<1>9. CASE cs = "frag"
    <2>1. ReqFrag
        BY <1>9 DEF LineAt
    <2>2. split.hash \in Int /\ split.hash + 1 <= p
        BY <1>2, <2>1, SplitInts DEF ReqFrag
    <2>3. base' + s'.mark = Later(split.hash + 1, base')
        BY <1>1, <1>2, <2>2 DEF Later
    <2> QED
        BY <1>1, <1>2, <1>4, <1>5, <1>9, <2>1, <2>3 DEF ReqFrag, MarkAt
<1> QED
    BY <1>6, <1>7, <1>8, <1>9

\* Behind the target.
LEMMA HeadRestarts ==
    ASSUME ReqInv, Q!NextRead, ~json, LineAt(cs)
    PROVE  /\ cs = "version" => ReqVersion'
           /\ cs = "eol" => ReqEol'
           /\ cs \in {"line", "cr"} => ReqLine'
           /\ cs \in {"name", "endcr"} => ReqName'
           /\ cs = "colon" => ReqColon'
           /\ cs = "value" => ReqValue'
<1> USE DEF NULL
<1>1. /\ PastKept /\ base' = p /\ s'.mark = 0 /\ s'.field_start = 0 /\ s'.field_len = 0 /\ pieces' # {0}
      /\ SameParts(s', s) /\ s'.path = s.path /\ s'.field = s.field /\ s'.value = s.value
      /\ s'.dropped = s.dropped
    BY ReqRestart
<1>2. split' = split /\ p' = p /\ split \in ReqSplit /\ p \in Nat /\ pieces' # {0}
    BY <1>1 DEF Q!NextRead, ReqInv, ReqTypes, PiecesOK
<1>3. SameTarget(split', split) /\ SameHeader(split', split)
    BY <1>2 DEF SameTarget, SameHeader
<1>4. LineCut(s) => LineCut(s)'
    BY <1>1, <1>2, <1>3, LineKept DEF SameParts
<1>5. Head(s) => Head(s)'
    BY <1>1, <1>2, <1>3, HeadKept DEF SameParts
<1>6. HeaderCut => HeaderCut'
    BY <1>1, <1>2, <1>3, HeaderKept
<1>7. NoHeader => NoHeader'
    BY <1>2 DEF NoHeader
<1>8. NameCut => NameCut' /\ ~(base' <= split'.hcolon)
    <2>1. SUFFICES ASSUME NameCut PROVE NameCut' /\ ~(base' <= split'.hcolon)
        OBVIOUS
    <2>2. split.hcolon \in Int /\ split.hcolon < p
        BY <1>2, <2>1, NameCutInts
    <2>3. ~(base' <= split'.hcolon)
        BY <1>1, <1>2, <2>2
    <2> QED
        BY <1>1, <1>2, <2>1, <2>3 DEF NameCut
<1>9. cs = "version" => ReqVersion'
    BY <1>2, <1>4, <1>7 DEF LineAt, ReqVersion
<1>10. cs = "eol" => ReqEol'
    BY <1>2, <1>4, <1>7 DEF LineAt, ReqEol
<1>11. cs \in {"line", "cr"} => ReqLine'
    BY <1>5, <1>6, <1>7 DEF LineAt, ReqLine
<1>12. cs \in {"name", "endcr"} => ReqName'
    <2>1. SUFFICES ASSUME ReqName PROVE ReqName'
        BY DEF LineAt
    <2>2. split.line \in Int /\ split.line < p
        BY <1>2, <2>1, SplitInts DEF ReqName
    <2>3. base' + s'.field_start = Later(split'.line, base')
        BY <1>1, <1>2, <2>2 DEF Later
    <2> QED
        BY <1>2, <1>5, <2>1, <2>3 DEF ReqName
<1>13. cs = "colon" => ReqColon'
    BY <1>2, <1>5, <1>8 DEF LineAt, ReqColon
<1>14. cs = "value" => ReqValue'
    BY <1>2, <1>5, <1>8 DEF LineAt, ReqValue
<1> QED
    BY <1>9, <1>10, <1>11, <1>12, <1>13, <1>14

LEMMA ReqNextReadStep ==
    ASSUME ReqInv, Q!NextRead
    PROVE  ReqInv'
<1>1. /\ UNCHANGED <<bound, relaxed, cs, json, pct, count, lit, p, split, result>>
      /\ result = "none" /\ ~s.threw /\ cs # "done" /\ p > base
    BY DEF Q!NextRead, Q!Running
<1>2. /\ PiecesOK' /\ ReqGood(s)' /\ s'.mark = 0 /\ s'.method = s.method /\ s'.query = s.query
      /\ s'.fragment = s.fragment /\ s'.threw = s.threw
    BY ReqRestart DEF SameParts
<1>3. ReqTypes'
    BY <1>1, <1>2 DEF ReqInv, ReqTypes
<1>4. ReqAt(cs)
    BY <1>1 DEF ReqInv
<1>5. ReqAt(cs)'
    <2>1. CASE json
        BY <1>1, <1>2, <1>4, <2>1 DEF ReqAt
    <2>2. CASE ~json
        <3>1. LineAt(cs)
            BY <1>4, <2>2 DEF ReqAt
        <3>2. /\ cs = "target" => ReqTarget'
              /\ cs = "scheme" => ReqScheme'
              /\ cs = "noscheme" => ReqNoscheme'
              /\ cs = "hier" => ReqHier'
              /\ cs \in PathRegion => ReqPath'
            BY <2>2, <3>1, TargetRestarts
        <3>3. /\ cs = "query0" => ReqQuery0'
              /\ cs = "query" => ReqQuery'
              /\ cs = "frag0" => ReqFrag0'
              /\ cs = "frag" => ReqFrag'
            BY <2>2, <3>1, QueryRestarts
        <3>4. /\ cs = "version" => ReqVersion'
              /\ cs = "eol" => ReqEol'
              /\ cs \in {"line", "cr"} => ReqLine'
              /\ cs \in {"name", "endcr"} => ReqName'
              /\ cs = "colon" => ReqColon'
              /\ cs = "value" => ReqValue'
            BY <2>2, <3>1, HeadRestarts
        <3>5. cs # "start"
            <4>1. p > 0
                BY <1>1 DEF ReqInv, ReqTypes, PiecesOK
            <4> QED
                BY <3>1, <4>1 DEF LineAt
        <3>6. /\ cs = "method" => /\ s'.mark = 0 /\ s'.method = <<>> /\ s'.query = <<>> /\ s'.fragment = <<>>
                                  /\ split' = Q!Split0'
              /\ cs \in XmlRegion => s'.method = <<>>
              /\ cs \notin {"json", "json0", "jsondata", "jsonend"}
            BY <1>1, <1>2, <3>1 DEF LineAt, Q!Split0, Q!NULL
        <3>7. LineAt(cs)'
            BY <1>1, <3>2, <3>3, <3>4, <3>5, <3>6 DEF LineAt
        <3> QED
            BY <1>1, <2>2, <3>7 DEF ReqAt
    <2> QED
        BY <2>1, <2>2
<1> QED
    BY <1>1, <1>2, <1>3, <1>5 DEF ReqInv

-----------------------------------------------------------------------------
(* The end of recvRequest, and the invariant *)

\* The parser's state stays as it is.
LEMMA ReqRests ==
    ASSUME ReqInv, UNCHANGED <<bound, relaxed, cs, json, pct, count, lit, p, base, pieces, s, split>>,
           result' \in {"none", "request", "closed", "throws"},
           result' = "request" => cs = "done" /\ ~s.threw /\ ~s.error
    PROVE  ReqInv'
<1>1. ReqTypes'
    BY DEF ReqInv, ReqTypes, PiecesOK, ReqGood
<1>2. ReqAt(cs) => ReqAt(cs)'
    <2>1. InPath => InPath'
        BY DEF InPath, MethodCut, NoHeader
    <2>2. BehindPath => BehindPath'
        BY DEF BehindPath, MethodCut, ReqPathCut, PathStart, PathEnd, NoHeader
    <2>3. ReqQueryCut(s) => ReqQueryCut(s)'
        BY DEF ReqQueryCut, QueryEnd
    <2>4. LineCut(s) => LineCut(s)'
        BY <2>3 DEF LineCut, MethodCut, ReqPathCut, PathStart, PathEnd, ReqFragmentCut
    <2>5. Head(s) => Head(s)'
        BY <2>4 DEF Head, VersionCut
    <2>6. HeaderCut => HeaderCut'
        BY DEF HeaderCut
    <2>7. NameCut => NameCut'
        BY DEF NameCut
    <2>8. /\ ReqTarget => ReqTarget'
          /\ ReqScheme => ReqScheme'
          /\ ReqNoscheme => ReqNoscheme'
          /\ ReqHier => ReqHier'
          /\ ReqPath => ReqPath'
        BY <2>1 DEF ReqTarget, ReqScheme, ReqNoscheme, ReqHier, ReqPath, MarkAt, PathStart
    <2>9. /\ ReqQuery0 => ReqQuery0'
          /\ ReqQuery => ReqQuery'
          /\ ReqFrag0 => ReqFrag0'
          /\ ReqFrag => ReqFrag'
        BY <2>2, <2>3 DEF ReqQuery0, ReqQuery, ReqFrag0, ReqFrag, MarkAt
    <2>10. /\ ReqVersion => ReqVersion'
           /\ ReqEol => ReqEol'
           /\ ReqLine => ReqLine'
           /\ ReqName => ReqName'
           /\ ReqColon => ReqColon'
           /\ ReqValue => ReqValue'
        BY <2>4, <2>5, <2>6, <2>7 DEF ReqVersion, ReqEol, ReqLine, ReqName, ReqColon, ReqValue, NoHeader
    <2>11. LineAt(cs) => LineAt(cs)'
        BY <2>5, <2>8, <2>9, <2>10 DEF LineAt
    <2> QED
        BY <2>11 DEF ReqAt
<1> QED
    BY <1>1, <1>2 DEF ReqInv

LEMMA ReqEndStep ==
    ASSUME ReqInv, Q!Closes \/ Q!Throws \/ Q!Finishes \/ Q!Done
    PROVE  ReqInv'
<1>1. /\ UNCHANGED <<bound, relaxed, cs, json, pct, count, lit, p, base, pieces, s, split>>
      /\ result' \in {"none", "request", "closed", "throws"}
      /\ result' = "request" => cs = "done" /\ ~s.threw /\ ~s.error
    BY DEF Q!Closes, Q!Throws, Q!Finishes, Q!Done, Q!vars, ReqInv, ReqTypes
<1> QED
    BY <1>1, ReqRests

LEMMA ReqStart ==
    ASSUME Q!Init
    PROVE  ReqInv
<1> USE DEF NULL, Q!NULL
<1>1. s = Q!Parser0 /\ split = Q!Split0 /\ p = 0 /\ base = 0 /\ pieces = {0} /\ count = 0 /\ pct = 0
      /\ json = FALSE /\ cs = "start" /\ bound \in Requests /\ result = "none" /\ relaxed \in BOOLEAN
      /\ lit = Q!Lit0
    BY DEF Q!Init
<1>2. s \in ReqFields
    BY <1>1 DEF Q!Parser0, Q!Empty, ReqFields, Cut
<1>3. ReqGood(s)
    BY <1>1, <1>2 DEF ReqGood, Q!Parser0
<1>4. split \in ReqSplit
    BY <1>1 DEF Q!Split0, ReqSplit, Pos
<1>5. PiecesOK
    <2>1. IsFiniteSet(pieces) /\ Cardinality(pieces) = 1
        BY <1>1, FS_Singleton
    <2> QED
        BY <1>1, <2>1, BoundsAssumption DEF PiecesOK
<1>6. ReqLit(lit)
    BY <1>1 DEF ReqLit, Q!Lit0
<1>7. json \in BOOLEAN
    BY <1>1, Zenon
<1>8. p \in 0..bound.length /\ pct \in 0..2 /\ count \in 0..20
    BY <1>1, BoundsAssumption
<1>9. ReqTypes
    BY <1>1, <1>3, <1>4, <1>5, <1>6, <1>7, <1>8 DEF ReqTypes
<1>10. LineAt("start")
    BY <1>1 DEF LineAt, PathRegion, XmlRegion
<1>11. ReqAt(cs) /\ ~s.threw /\ ~(pct > 0) /\ result # "request"
    BY <1>1, <1>10 DEF ReqAt, Q!Parser0
<1> QED
    BY <1>9, <1>11 DEF ReqInv

LEMMA ReqNext ==
    ASSUME ReqInv, Q!Next
    PROVE  ReqInv'
BY ReqStartStep, ReqMethodStep, ReqUriStep, ReqVersionStep, ReqEndOfLineStep, ReqCarriageReturnStep,
   ReqHeaderStep, ReqFieldValueStep, ReqXmlStep, ReqJsonStep, ReqNextReadStep, ReqEndStep
DEF Q!Next

LEMMA RequestInvariant == Spec => []QInv
<1>1. Init => QInv
    BY ReqStart DEF Init, QInv
<1>2. QInv /\ [Next]_vars => QInv'
    <2> SUFFICES ASSUME QInv, [Next]_vars, parser' = "request"
                 PROVE  ReqInv'
        BY DEF QInv
    <2>1. \/ ReqInv /\ Q!Next
          \/ ReqInv /\ UNCHANGED <<bound, relaxed, cs, json, pct, count, lit, p, base, pieces, s, split, result>>
        BY DEF QInv, Next, vars, targetVars, pieceVars, requestVars
    <2>2. CASE ReqInv /\ Q!Next
        BY <2>2, ReqNext
    <2>3. CASE ReqInv /\ UNCHANGED <<bound, relaxed, cs, json, pct, count, lit, p, base, pieces, s, split, result>>
        <3>1. /\ result' \in {"none", "request", "closed", "throws"}
              /\ result' = "request" => cs = "done" /\ ~s.threw /\ ~s.error
            BY <2>3 DEF ReqInv, ReqTypes
        <3> QED
            BY <2>3, <3>1, ReqRests
    <2> QED
        BY <2>1, <2>2, <2>3
<1> QED
    BY <1>1, <1>2, PTL DEF Spec

-----------------------------------------------------------------------------
(* The results *)

\* Every position is in some piece.
LEMMA LastPieceNat ==
    ASSUME PiecesOK, NEW q \in Nat
    PROVE  LastPiece(pieces, q) \in Nat
<1> DEFINE Less == OpToRel(<, Nat)
           T == {n \in Nat : q - n \in pieces}
<1>1. IsWellFoundedOn(Less, Nat)
    BY NatLessThanWellFounded
<1>2. T \in SUBSET Nat /\ T # {}
    <2>1. q \in Nat /\ q - q = 0 /\ 0 \in pieces
        BY DEF PiecesOK
    <2>2. q \in T
        BY <2>1
    <2> QED
        BY <2>2
<1>3. \A x, y \in Nat : <<y, x>> \in Less <=> y < x
    BY DEF OpToRel
<1> HIDE DEF Less, T
<1>4. PICK x \in T : \A y \in T : ~(<<y, x>> \in Less)
    BY <1>1, <1>2, WFMin
<1>5. x \in Nat /\ \A y \in T : x <= y
    <2>1. x \in Nat /\ \A y \in T : y \in Nat /\ ~(y < x)
        BY <1>2, <1>3, <1>4
    <2> QED
        BY <2>1
<1> DEFINE S == {b \in pieces : b <= q}
<1>6. S \in SUBSET Nat /\ S \in SUBSET Int
    <2>1. \A b \in pieces : b \in Nat /\ b \in Int
        BY DEF PiecesOK
    <2> QED
        BY <2>1
<1>7. \A b \in S : q - b \in T
    BY DEF PiecesOK, T
<1>8. q - x \in S
    BY <1>4, <1>5 DEF T, PiecesOK
<1>9. \A b \in S : b <= q - x
    BY <1>5, <1>6, <1>7
<1> QED
    BY <1>6, <1>8, <1>9, MaxIs DEF LastPiece

\* The part of a range that is in the piece where it ends.
LEMMA KeptIs ==
    ASSUME PiecesOK, NEW a \in Int, NEW q \in Nat
    PROVE  Q!Kept(<<a, q>>) = <<Later(a, LastPiece(pieces, q)), q>>
BY LastPieceNat, MaxOfTwo DEF Q!Kept, Q!Piece, LastPiece

\* HttpSession::recvRequest over http_parser_execute: when a request with a
\* method is returned, on_request_method, on_request_path and
\* on_request_fragment were given the part of the method, path and fragment that
\* came in the piece in which it ends, the query starts at the offset that it
\* had in the piece where it began, and the version is the one written or, after
\* a read that ended behind it, HTTP/1.1.
THEOREM RequestLine == Spec => []RequestLineAgrees
<1>1. QInv => RequestLineAgrees
    <2> SUFFICES ASSUME QInv, parser = "request", result = "request", s.method # <<>>
                 PROVE  Q!RequestLineAgrees
        BY DEF RequestLineAgrees, Q!RequestLineAgrees, Q!Empty
    <2>1. ReqInv /\ ReqTypes /\ PiecesOK /\ ~s.error
        BY DEF QInv, ReqInv, ReqTypes
    <2>2. Head(s)
        BY <2>1 DEF ReqInv, ReqAt, LineAt
    <2>3. MethodCut(s) /\ ReqPathCut(s) /\ ReqQueryCut(s) /\ ReqFragmentCut(s) /\ VersionCut(s)
        BY <2>2 DEF Head, LineCut
    <2>4. /\ split.sp1 \in Pos /\ split.colon \in Pos /\ split.query \in Pos /\ split.hash \in Pos
          /\ split.sp2 \in Nat /\ p \in Nat
        <3>1. /\ split.sp1 \in Pos /\ split.colon \in Pos /\ split.query \in Pos /\ split.hash \in Pos
              /\ split.sp2 \in Pos /\ p \in Nat
            BY <2>1 DEF ReqTypes, ReqSplit, PiecesOK
        <3>2. split.sp2 >= 0
            BY <2>2 DEF Head, LineCut
        <3> QED
            BY <3>1, <3>2 DEF Pos, NULL
    <2>5. s.method = Q!Kept(Q!TrueMethod)
        <3>1. split.sp1 \in Nat /\ LastPiece(pieces, split.sp1) \in Nat
            BY <2>1, <2>3, <2>4, LastPieceNat DEF MethodCut, Pos, NULL
        <3>2. Later(0, LastPiece(pieces, split.sp1)) = LastPiece(pieces, split.sp1)
            BY <3>1 DEF Later
        <3> QED
            BY <2>1, <2>3, <3>1, <3>2, KeptIs DEF MethodCut, Q!TrueMethod
    <2>6. s.path = Q!Kept(Q!TruePath)
        <3>1. Q!TruePath = <<PathStart, PathEnd>>
            BY DEF Q!TruePath, Q!FirstOf, PathStart, PathEnd, Q!NULL, NULL
        <3>2. PathStart \in Int /\ PathEnd \in Nat
            <4>1. PathStart \in Int /\ PathEnd \in Int
                BY <2>4 DEF PathStart, PathEnd, Pos, NULL
            <4>2. PathEnd >= 0
                BY <2>3 DEF ReqPathCut
            <4> QED
                BY <4>1, <4>2
        <3> QED
            BY <2>1, <2>3, <3>1, <3>2, KeptIs DEF ReqPathCut
    <2>7. s.fragment = IF split.hash = Q!NULL THEN Q!Empty ELSE Q!Kept(Q!TrueFragment)
        <3>1. Q!Kept(Q!TrueFragment) = <<Later(split.hash + 1, LastPiece(pieces, split.sp2)), split.sp2>>
            <4>1. split.hash + 1 \in Int
                BY <2>4 DEF Pos, NULL
            <4> QED
                BY <2>1, <2>4, <4>1, KeptIs DEF Q!TrueFragment
        <3> QED
            BY <2>3, <3>1 DEF ReqFragmentCut, Q!NULL, NULL, Q!Empty
    <2>8. s.query = IF split.query = Q!NULL THEN Q!Empty
                    ELSE <<Q!Piece(Q!TrueQuery[2]) + (Q!TrueQuery[1] - Q!Piece(Q!TrueQuery[1])), Q!TrueQuery[2]>>
        <3>1. Q!TrueQuery = <<split.query + 1, QueryEnd>>
            BY DEF Q!TrueQuery, Q!FirstOf, QueryEnd, Q!NULL, NULL
        <3>2. Q!TrueQuery[1] = split.query + 1 /\ Q!TrueQuery[2] = QueryEnd
            BY <3>1
        <3>3. \A q : Q!Piece(q) = LastPiece(pieces, q)
            BY DEF Q!Piece, LastPiece
        <3> QED
            BY <2>3, <3>2, <3>3 DEF ReqQueryCut, Q!NULL, NULL, Q!Empty
    <2>9. s.version \in {split.minor, "1"} /\ (pieces = {0} => s.version = split.minor)
        BY <2>1, <2>3 DEF VersionCut
    <2> QED
        BY <2>5, <2>6, <2>7, <2>8, <2>9 DEF Q!RequestLineAgrees
<1> QED
    BY <1>1, RequestInvariant, PTL

\* on_request_http_field: behind a header line the header was stored, with its
\* value and with what its name had in the piece of the colon, exactly when no
\* read ended between the last byte of the name and the end of the line;
\* otherwise it is lost, write_field's length having restarted at 0.
THEOREM RequestHeader == Spec => []RequestHeaderAgrees
<1>1. QInv => RequestHeaderAgrees
    <2> SUFFICES ASSUME QInv, parser = "request", cs \in {"line", "cr"}, split.hcolon # NULL, split.eol # NULL
                 PROVE  Q!HeaderAgrees
        BY DEF RequestHeaderAgrees, Q!HeaderAgrees, Q!NULL, NULL
    <2>1. ReqInv /\ ReqTypes /\ PiecesOK
        BY DEF QInv, ReqInv, ReqTypes
    <2>2. ~s.threw /\ ~json
        BY <2>1 DEF ReqInv, ReqAt, JsonRegion, PathRegion
    <2>3. ReqLine
        BY <2>1, <2>2 DEF ReqInv, ReqAt, LineAt
    <2>4. HeaderCut
        BY <2>3 DEF ReqLine, NoHeader
    <2>5. split.line \in Int /\ split.hcolon \in Nat
        <3>1. split.line \in Pos /\ split.hcolon \in Pos
            BY <2>1 DEF ReqTypes, ReqSplit
        <3>2. split.hcolon >= 0
            BY <2>4 DEF HeaderCut
        <3> QED
            BY <3>1, <3>2 DEF Pos, NULL
    <2>6. Q!Kept(<<split.line, split.hcolon>>)
             = <<Later(split.line, LastPiece(pieces, split.hcolon)), split.hcolon>>
        BY <2>1, <2>5, KeptIs
    <2>7. Q!Piece(split.eol) = LastPiece(pieces, split.eol)
        BY DEF Q!Piece, LastPiece
    <2> QED
        BY <2>4, <2>6, <2>7 DEF HeaderCut, Q!HeaderAgrees
<1> QED
    BY <1>1, RequestInvariant, PTL
=============================================================================
