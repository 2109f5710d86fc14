-------------------------- MODULE RequestMachine ---------------------------
(* The state machine of http_parser_execute (http/http11_parser.rl.cc,      *)
(* generated from http11_parser.rl): a request line with a URI, header      *)
(* lines, and the two socket formats "@path {json}" and "<xml>". The state  *)
(* numbers are those of the generated code: 1 is the start, 0 the error     *)
(* state, 348 and 349 are final.                                            *)
EXTENDS Ragel

Final == {348, 349}

(* The classes of bytes. CTL stands for 1, 7, 8 and 14 to 31; B2 to B6 are  *)
(* the bytes 2 to 6, which the grammar uses where it means repetition       *)
(* ("6( h16 ":" )" is the byte 6 followed by one group); DC is " and \, BQ  *)
(* is ` and |; "!" stands for ! $ & ' * _ ~, "(" for ( ) , ; =, "3" for     *)
(* 3 4 6 7 8 9, "A" for A to F, "G" for the other capitals but H P T, "a"   *)
(* for a to f, "g" for the other small letters but v. MORE is { } ^ seen    *)
(* with uri_relaxed set, where the grammar has more_delims.                 *)
Digit == {"0", "1", "2", "3", "5"}
AF == {"A", "a"}
Hex == Digit \cup AF
Upper == {"A", "G", "H", "P", "T"}
Alpha == Upper \cup {"a", "g", "v"}
Braces == {"{", "}", "^"}
Low == {"CTL", "B2", "B3", "B4", "B5", "B6"}
Bytes == Alpha \cup Digit \cup Braces \cup Low
         \cup {"HI", "NUL", "TAB", "LF", "VT", "CR", "SP", "!", "DC", "#", "%", "(", "+", "-", ".",
               "/", ":", "<", ">", "?", "@", "[", "]", "BQ", "DEL"}

(* unreserved and sub_delims of the grammar, the characters of a name in    *)
(* an authority; with ":" those of userinfo, with "@" those of a segment    *)
(* without a colon; pchar also has the bytes above 127.                     *)
NameChar == Alpha \cup Digit \cup {"!", "(", "+", "-", ".", "MORE"}
SegNc == NameChar \cup {"@"}
PChar == SegNc \cup {":", "HI"}
SchemeChar == Alpha \cup Digit \cup {"+", "-", "."}

(* token of the header names: HTTP_CTL is written (0 - 31), which is the    *)
(* byte 0 alone, so that control characters belong to a token.              *)
Token == Alpha \cup Digit \cup Low \cup {"VT", "!", "#", "%", "+", "-", ".", "^", "BQ"}

-----------------------------------------------------------------------------
(* The request line and the header lines.                                   *)

(* Method: up to 20 capitals and digits.                                    *)
RequestStart ==
  Do(1, Upper \cup Digit, <<"mark">>, 2) \cup Do(1, {"<"}, <<"mark">>, 194) \cup Do(1, {"@"}, <<"mark">>, 198)
  \cup Do(2, {"SP"}, <<"request_method">>, 3) \cup Go(2, Upper \cup Digit, 175)

MethodRest ==
  UNION {Do(s, {"SP"}, <<"request_method">>, 3) : s \in 175..193}
  \cup UNION {Go(s, Upper \cup Digit, s + 1) : s \in 175..192}

(* Mutant: no request_uri when a fragment follows.                          *)
PathEndsNoUri(s, A) ==
  Do(s, {"SP"}, A \o <<"request_path", "request_uri">>, 4)
  \cup Do(s, {"#"}, A \o <<"request_path">>, 20)
  \cup Do(s, {"?"}, A \o <<"request_path">>, 29)

(* The path ends in state s: the request line goes on with the version, the *)
(* query or the fragment. A is what happens before.                         *)
PathEnds(s, A) ==
  Do(s, {"SP"}, A \o <<"request_path", "request_uri">>, 4)
  \cup Do(s, {"#"}, A \o <<"request_path", "request_uri">>, 20)
  \cup Do(s, {"?"}, A \o <<"request_path">>, 29)

RequestUri ==
  PathEnds(3, <<"mark">>) \cup Do(3, (SegNc \ Alpha), <<"mark">>, 19) \cup Do(3, {"%"}, <<"mark">>, 24)
  \cup Do(3, {"/"}, <<"mark">>, 33) \cup Do(3, Alpha, <<"mark">>, 173)

(* "HTTP/1." and 0 or 1.                                                    *)
HttpVersion ==
  Do(4, {"H"}, <<"mark">>, 5) \cup Spell(5, <<"T", "T", "P", "/", "1", ".">>) \cup Go(11, {"0", "1"}, 12)
  \cup Do(12, {"LF"}, <<"http_version">>, 13) \cup Do(12, {"CR"}, <<"http_version">>, 17)

(* The start of a header line, or the empty line that ends the headers.     *)
HeaderName ==
  Do(13, Token, <<"start_field">>, 14) \cup Do(13, {"CR"}, <<"start_field">>, 18)
  \cup Do(13, {"LF"}, <<"start_field", "done">>, 348)
  \cup Go(14, Token \cup {"LF", "CR"}, 14) \cup Do(14, {":"}, <<"write_field">>, 15)

HeaderValue ==
  Do(15, Bytes \ {"NUL", "TAB", "LF", "CR", "SP", "DEL"}, <<"start_value">>, 16)
  \cup Do(15, {"TAB", "SP"}, <<"start_value">>, 15)
  \cup Do(15, {"LF"}, <<"start_value", "write_value">>, 13) \cup Do(15, {"CR"}, <<"start_value", "write_value">>, 17)
  \cup Go(16, Bytes \ {"NUL", "LF", "CR", "DEL"}, 16)
  \cup Do(16, {"LF"}, <<"write_value">>, 13) \cup Do(16, {"CR"}, <<"write_value">>, 17)
  \cup Go(17, {"LF"}, 13)

Finished == Go(348, Token \cup {"LF", "CR"}, 14) \cup Do(348, {":"}, <<"write_field">>, 15)

(* Mutant: an empty line is skipped.                                        *)
BlankLineSkipped ==
  Go(18, Token \cup {"CR"}, 14) \cup Do(18, {":"}, <<"write_field">>, 15) \cup Go(18, {"LF"}, 13)

BlankLine ==
  Go(18, Token \cup {"CR"}, 14) \cup Do(18, {":"}, <<"write_field">>, 15) \cup Do(18, {"LF"}, <<"done">>, 348)

-----------------------------------------------------------------------------
(* The URI.                                                                 *)

(* path_noscheme: a first segment without a colon.                          *)
FirstSegment == PathEnds(19, <<>>) \cup Go(19, SegNc, 19) \cup Go(19, {"%"}, 24) \cup Go(19, {"/"}, 26)
FirstSegmentPct == Pct(24, Hex, 19)

Fragment ==
  Do(20, PChar \cup {"/", "?"}, <<"mark">>, 21) \cup Do(20, {"SP"}, <<"mark", "fragment">>, 4) \cup Do(20, {"%"}, <<"mark">>, 22)
FragmentRest ==
  Go(21, PChar \cup {"/", "?"}, 21) \cup Do(21, {"SP"}, <<"fragment">>, 4) \cup Go(21, {"%"}, 22) \cup Pct(22, Hex, 21)

Path == PathEnds(26, <<>>) \cup Go(26, PChar \cup {"/"}, 26) \cup Go(26, {"%"}, 27) \cup Pct(27, Hex, 26)

Query ==
  Do(29, PChar \cup {"/", "?"}, <<"start_query">>, 30) \cup Do(29, {"%"}, <<"start_query">>, 31)
  \cup Do(29, {"SP"}, <<"start_query", "query_string", "request_uri">>, 4)
  \cup Do(29, {"#"}, <<"start_query", "query_string", "request_uri">>, 20)
  \cup Go(30, PChar \cup {"/", "?"}, 30) \cup Go(30, {"%"}, 31) \cup Pct(31, Hex, 30)
  \cup Do(30, {"SP"}, <<"query_string", "request_uri">>, 4) \cup Do(30, {"#"}, <<"query_string", "request_uri">>, 20)

(* A name that may be a scheme, and what follows the colon of a scheme,     *)
(* where the path begins anew.                                              *)
SchemeOrSegment ==
  PathEnds(173, <<>>) \cup Go(173, SchemeChar, 173) \cup Go(173, SegNc \ SchemeChar, 19) \cup Go(173, {"%"}, 24)
  \cup Go(173, {"/"}, 26) \cup Go(173, {":"}, 174)
AfterScheme ==
  PathEnds(174, <<"mark">>) \cup Do(174, PChar, <<"mark">>, 26) \cup Do(174, {"%"}, <<"mark">>, 27)
  \cup Do(174, {"/"}, <<"mark">>, 33)

-----------------------------------------------------------------------------
(* What may follow "/": the authority of "//authority/path". The generated  *)
(* code has it twice, for the request line (o = 0) and, 175 states further  *)
(* on, for the path of a socket request (o = 175), which has no query and   *)
(* no fragment.                                                             *)
Sock == 175
Slash(o) == IF o = Sock THEN 205 ELSE 26
PathExit(s, o) == IF o = Sock THEN Do(s, {"SP"}, <<"request_path">>, 199) ELSE PathEnds(s, <<>>)
PathOver(s, o) == PathExit(s, o) \cup Go(s, {"/"}, Slash(o))

OneSlash(o) ==
  PathExit(33 + o, o) \cup Go(33 + o, PChar, Slash(o)) \cup Go(33 + o, {"%"}, Slash(o) + 1) \cup Go(33 + o, {"/"}, 34 + o)

(* A host name, or the user before "@".                                     *)
Authority(o) ==
  UNION {PathOver(s, o) \cup Go(s, NameChar, 35 + o) \cup Go(s, {"%"}, 36 + o) \cup Go(s, {":"}, 38 + o)
         \cup Go(s, {"@"}, 42 + o) : s \in {34 + o, 35 + o}}
  \cup Go(34 + o, {"["}, 47 + o) \cup Pct(36 + o, Hex, 35 + o)

(* After a colon: a port, or still the user.                                *)
PortOrUser(o) ==
  PathOver(38 + o, o) \cup Go(38 + o, Digit, 38 + o) \cup Go(38 + o, (NameChar \ Digit) \cup {":"}, 39 + o)
  \cup Go(39 + o, NameChar \cup {":"}, 39 + o)
  \cup UNION {Go(s, {"%"}, 40 + o) \cup Go(s, {"@"}, 42 + o) : s \in {38 + o, 39 + o}} \cup Pct(40 + o, Hex, 39 + o)

HostAfterUser(o) ==
  UNION {PathOver(s, o) \cup Go(s, NameChar, 43 + o) \cup Go(s, {"%"}, 44 + o) \cup Go(s, {":"}, 46 + o) : s \in {42 + o, 43 + o}}
  \cup Go(42 + o, {"["}, 47 + o) \cup Pct(44 + o, Hex, 43 + o)

Port(o) == PathOver(46 + o, o) \cup Go(46 + o, Digit, 46 + o)

-----------------------------------------------------------------------------
(* An address in brackets.                                                  *)

(* The edges of state s on "." (to the second octet), ":" and "]".          *)
Dot(s, o) == Go(s, {"."}, 55 + o)
Ends(s, colon, close, o) == Go(s, {":"}, colon) \cup (IF close THEN Go(s, {"]"}, 61 + o) ELSE {})

(* Up to four hexadecimal digits in the states of D, a sequence.            *)
H16(D, colon, close, o) ==
  UNION {Go(D[i], Hex, D[i + 1]) : i \in 1..3} \cup UNION {Ends(D[i], colon, close, o) : i \in 1..4}

(* The same, where the digits may also be the first octet of an IPv4        *)
(* address: after 1 (states a to a + 2), after 2 (a + 3 to a + 5) and after *)
(* a letter (a + 6). ("1"-"9") and ("0"-"4") of the grammar are differences *)
(* of sets, {1} and {0}.                                                    *)
H16OrOctet(a, D, colon, close, o) ==
  UNION {Ends(s, colon, close, o) : s \in a..a + 6} \cup UNION {Dot(s, o) : s \in a..a + 3}
  \cup Go(a, Digit, a + 1) \cup Go(a, AF, D[2]) \cup Go(a + 1, Digit, a + 2) \cup Go(a + 1, AF, D[3])
  \cup Go(a + 2, Hex, D[4])
  \cup Go(a + 3, {"0"}, a + 4) \cup Go(a + 3, {"5"}, a + 5) \cup Go(a + 3, Hex \ {"0", "5"}, D[2])
  \cup Go(a + 4, Digit, a + 2) \cup Go(a + 4, AF, D[3])
  \cup Go(a + 5, {"0"}, a + 2) \cup Go(a + 5, Hex \ {"0"}, D[3]) \cup Go(a + 6, Hex, D[2])

(* The first digit of such a number.                                        *)
FirstDigit(s, d, a) == Go(s, {"0", "3", "5"}, d) \cup Go(s, {"1"}, a) \cup Go(s, {"2"}, a + 3) \cup Go(s, AF, a + 6)

(* An octet after a dot: digit states from x on, then C to y.               *)
Octet(s, x, a, b) == Go(s, {"0", "3", "5"}, x) \cup Go(s, {"1"}, a) \cup Go(s, {"2"}, b)
OctetRest(a, x, C, y) ==
  UNION {Go(s, C, y) : s \in {x, a, a + 1, a + 2}} \cup Go(a, Digit, a + 1) \cup Go(a + 1, Digit, x)
  \cup Go(a + 2, {"0"}, a + 3) \cup Go(a + 2, {"5"}, a + 4) \cup Go(a + 3, Digit, x) \cup Go(a + 4, {"0"}, x)

Bracket(o) ==
  Go(47 + o, {"B6"}, 48 + o) \cup Go(47 + o, Hex, 91 + o) \cup Go(47 + o, {":"}, 167 + o) \cup Go(47 + o, {"v"}, 169 + o)
  \cup Go(48 + o, Hex, 49 + o) \cup H16(<<49 + o, 50 + o, 51 + o, 52 + o>>, 53 + o, FALSE, o)

(* ls32: two groups or an IPv4 address.                                     *)
Ls32D(o) == <<54 + o, 77 + o, 78 + o, 79 + o>>
Ls32(o) == FirstDigit(53 + o, 54 + o, 84 + o) \cup Dot(54 + o, o) \cup H16(Ls32D(o), 80 + o, FALSE, o)
Ls32Second(o) ==
  Go(80 + o, Hex, 81 + o) \cup UNION {Go(s, {"]"}, 61 + o) : s \in 81 + o..83 + o} \cup Go(81 + o, Hex, 82 + o)
  \cup Go(82 + o, Hex, 83 + o) \cup Go(83 + o, Hex, 60 + o)
Ls32Octet(o) == H16OrOctet(84 + o, Ls32D(o), 80 + o, FALSE, o)

IPv4(o) ==
  Octet(55 + o, 56 + o, 72 + o, 74 + o) \cup Octet(57 + o, 58 + o, 67 + o, 69 + o) \cup Octet(59 + o, 60 + o, 62 + o, 64 + o)
  \cup PathOver(61 + o, o) \cup Go(61 + o, {":"}, 46 + o)
IPv4Octets(o) ==
  OctetRest(62 + o, 60 + o, {"]"}, 61 + o) \cup OctetRest(67 + o, 58 + o, {"."}, 59 + o)
  \cup OctetRest(72 + o, 56 + o, {"."}, 57 + o)

(* Groups of digits, five states each; g is the first state of a group. A   *)
(* second colon leads to the state the number of groups allows.             *)
Group(g, next, colons, o) ==
  H16(<<g + o, g + o + 1, g + o + 2, g + o + 3>>, g + o + 4, FALSE, o)
  \cup Go(g + o + 4, Hex, next + o) \cup Go(g + o + 4, {":"}, colons + o)
Groups12(o) == Group(91, 96, 166, o) \cup Group(96, 101, 165, o)
Groups34(o) == Group(101, 106, 164, o) \cup Group(106, 111, 163, o)
Groups56(o) == Group(111, 116, 151, o) \cup Group(116, 121, 150, o)
GroupsMore(o) == Group(121, 121, 126, o)

(* After "::", with what the groups before it allow: one group and more,    *)
(* two or one of ls32, nothing.                                             *)
LastD(o) == <<127 + o, 128 + o, 129 + o, 130 + o>>
ColonsEnd(o) ==
  Go(126 + o, {"B2", "B3"}, 48 + o) \cup FirstDigit(126 + o, 127 + o, 143 + o) \cup Go(126 + o, {"]"}, 61 + o)
  \cup Dot(127 + o, o) \cup H16(LastD(o), 131 + o, TRUE, o)
TwoD(o) == <<132 + o, 133 + o, 134 + o, 135 + o>>
ColonsTwo(o) == FirstDigit(131 + o, 132 + o, 136 + o) \cup Dot(132 + o, o) \cup H16(TwoD(o), 80 + o, TRUE, o)
ColonsTwoOctet(o) == H16OrOctet(136 + o, TwoD(o), 80 + o, TRUE, o)
ColonsEndOctet(o) == H16OrOctet(143 + o, LastD(o), 131 + o, TRUE, o)
ThreeD(o) == <<152 + o, 153 + o, 154 + o, 155 + o>>
ColonsThree(o) ==
  UNION {Go(s, {"B2", "B3"}, 48 + o) : s \in {150 + o, 151 + o}}
  \cup FirstDigit(150 + o, 127 + o, 143 + o) \cup FirstDigit(151 + o, 152 + o, 156 + o)
  \cup Dot(152 + o, o) \cup H16(ThreeD(o), 131 + o, FALSE, o)
ColonsThreeOctet(o) == H16OrOctet(156 + o, ThreeD(o), 131 + o, FALSE, o)
ColonsFew(o) ==
  Go(163 + o, {"B2", "B3"}, 48 + o) \cup Go(163 + o, Hex, 49 + o) \cup Go(164 + o, {"B2", "B3"}, 48 + o)
  \cup Go(165 + o, {"B3"}, 48 + o) \cup Go(166 + o, {"B4"}, 48 + o)
ColonsFirst(o) ==
  Go(167 + o, {":"}, 168 + o) \cup Go(168 + o, {"B2", "B3", "B4", "B5"}, 48 + o)
  \cup FirstDigit(168 + o, 127 + o, 143 + o) \cup Go(168 + o, {"]"}, 61 + o)
IPvFuture(o) ==
  Go(169 + o, Hex, 170 + o) \cup Go(170 + o, Hex, 170 + o) \cup Go(170 + o, {"."}, 171 + o)
  \cup Go(171 + o, NameChar \cup {":"}, 172 + o) \cup Go(172 + o, NameChar \cup {":"}, 172 + o)
  \cup Go(172 + o, {"]"}, 61 + o)

-----------------------------------------------------------------------------
(* The socket formats. "<name" ... ">" NUL is a request with an XML body,   *)
(* "@path {" ... "}" NUL one with a JSON body.                              *)
XmlName == SchemeChar \ {"+"}
SocketXml ==
  Go(194, XmlName, 195) \cup Go(195, XmlName, 195)
  \cup Do(195, {"TAB", "LF", "VT", "CR", "SP", "/", ">"}, <<"request_path">>, 196)
  \cup Go(196, Bytes \ {">"}, 196) \cup UNION {Go(s, {">"}, 197) : s \in {196, 197}}
  \cup Go(197, Bytes \ {">", "NUL"}, 196) \cup Do(197, {"NUL"}, <<"xml", "done">>, 349)

SocketStart ==
  Do(198, {"SP"}, <<"request_path">>, 199) \cup Go(198, SegNc, 202) \cup Go(198, {"%"}, 203) \cup Go(198, {"/"}, 208)
SocketJson ==
  Do(199, {"{"}, <<"mark">>, 200) \cup Go(200, Bytes \ {"}"}, 200) \cup UNION {Go(s, {"}"}, 201) : s \in {200, 201}}
  \cup Go(201, Bytes \ {"}", "NUL"}, 200) \cup Do(201, {"NUL"}, <<"json", "done">>, 349)
SocketSegment ==
  Do(202, {"SP"}, <<"request_path">>, 199) \cup Go(202, SegNc, 202) \cup Go(202, {"%"}, 203) \cup Go(202, {"/"}, 205)
  \cup Pct(203, Hex, 202)
SocketPath ==
  Do(205, {"SP"}, <<"request_path">>, 199) \cup Go(205, PChar \cup {"/"}, 205) \cup Go(205, {"%"}, 206) \cup Pct(206, Hex, 205)

SocketOneSlash == OneSlash(Sock)
SocketAuthority == Authority(Sock)
SocketPortOrUser == PortOrUser(Sock)
SocketHost == HostAfterUser(Sock) \cup Port(Sock)
SocketBracket == Bracket(Sock)
SocketLs32 == Ls32(Sock)
SocketIPv4 == IPv4(Sock)
SocketIPv4Octets == IPv4Octets(Sock)
SocketLs32Second == Ls32Second(Sock)
SocketLs32Octet == Ls32Octet(Sock)
SocketGroups12 == Groups12(Sock)
SocketGroups34 == Groups34(Sock)
SocketGroups56 == Groups56(Sock)
SocketGroupsMore == GroupsMore(Sock)
SocketColonsEnd == ColonsEnd(Sock)
SocketColonsTwo == ColonsTwo(Sock)
SocketColonsTwoOctet == ColonsTwoOctet(Sock)
SocketColonsEndOctet == ColonsEndOctet(Sock)
SocketColonsThree == ColonsThree(Sock)
SocketColonsThreeOctet == ColonsThreeOctet(Sock)
SocketColonsFew == ColonsFew(Sock) \cup ColonsFirst(Sock)
SocketIPvFuture == IPvFuture(Sock)

SocketRequest == UNION {
  SocketXml, SocketStart, SocketJson, SocketSegment, SocketPath, SocketOneSlash, SocketAuthority, SocketPortOrUser,
  SocketHost, SocketBracket, SocketLs32, SocketIPv4, SocketIPv4Octets, SocketLs32Second, SocketLs32Octet,
  SocketGroups12, SocketGroups34, SocketGroups56, SocketGroupsMore, SocketColonsEnd, SocketColonsTwo,
  SocketColonsTwoOctet, SocketColonsEndOctet, SocketColonsThree, SocketColonsThreeOctet, SocketColonsFew,
  SocketIPvFuture}

Request == UNION {
  RequestStart, MethodRest, RequestUri, HttpVersion, HeaderName, HeaderValue, Finished, BlankLine, FirstSegment,
  FirstSegmentPct, Fragment, FragmentRest, Path, Query, SchemeOrSegment, AfterScheme, OneSlash(0), Authority(0),
  PortOrUser(0), HostAfterUser(0), Port(0), Bracket(0), Ls32(0), Ls32Second(0), Ls32Octet(0), IPv4(0), IPv4Octets(0),
  Groups12(0), Groups34(0), Groups56(0), GroupsMore(0), ColonsEnd(0), ColonsTwo(0), ColonsTwoOctet(0),
  ColonsEndOctet(0), ColonsThree(0), ColonsThreeOctet(0), ColonsFew(0), ColonsFirst(0), IPvFuture(0)}

RequestTable == Table(Request \cup SocketRequest, 349)

(* Mutant: more_delims takes the braces in every state.                     *)
RequestMoveGreedy(s, c, relaxed) ==
  IF relaxed /\ c \in Braces THEN Move(RequestTable, s, "MORE") ELSE Move(RequestTable, s, c)

(* With uri_relaxed a brace or ^ that a state has no edge for is taken as   *)
(* one of more_delims (_widec in the generated code).                       *)
RequestMove(s, c, relaxed) ==
  IF relaxed /\ c \in Braces /\ ~ \E e \in RequestTable[s] : c \in e[2]
  THEN Move(RequestTable, s, "MORE") ELSE Move(RequestTable, s, c)
=============================================================================
