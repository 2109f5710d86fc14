---------------------------- MODULE UriMachine -----------------------------
(* The state machine of Uri::Create (uri.rl.cc, generated from uri.rl). The *)
(* state numbers are those of the generated code: 451 is the start, every   *)
(* state from 451 on is final, 0 is the error state. The end of the input   *)
(* is the class EOF: the generated code runs actions there too.             *)
EXTENDS Ragel, SequencesExt

uri_first_final == 451

(* The classes of bytes: HI is 128 to 255, B2 the byte 2 (the grammar has   *)
(* 2 [0-4] digit without quotes), "!" stands for the delimiters, _ and ~,   *)
(* "+" for + and -, "3" for 3 and 4, "6" for 6 to 9, "A" for A to F and a   *)
(* to f, "G" for the other letters but v, OTH for what a URI cannot contain.*)
UDigit == {"0", "1", "2", "3", "5", "6"}
UHex == UDigit \cup {"A"}
UAlpha == {"A", "G", "v"}
UName == UDigit \cup UAlpha \cup {"!", "+", "."}
UserChar == UName \cup {":"}
SegChar == UName \cup {"@", "HI"}
UPChar == SegChar \cup {":"}
UriBytes == UPChar \cup {"OTH", "B2", "#", "%", "/", "?", "[", "]"}

(* The authority appears twice in the machine, after "//" and after         *)
(* "scheme://", where the path that follows it is saved. At(n, k) is the    *)
(* state of the copy k that corresponds to state n of the first one.        *)
Rel == FALSE
Abs == TRUE
At(n, k) ==
  IF ~k THEN n ELSE IF n < 23 THEN n + 220 ELSE IF n < 459 THEN n + 222 ELSE IF n < 461 THEN n + 52 ELSE n + 53

(* Mutant: the path begins where the last piece began.                      *)
PathMarkNever(A, k) == A

(* The authority ends with the actions A. With a scheme the path begins     *)
(* here (markh) and is saved; an action runs once in a transition, so that  *)
(* markh is not repeated when A begins with it.                             *)
PathMark(A, k) == IF k /\ ~Contains(A, "markh") THEN Append(A, "markh") ELSE A
PathSave(A, k) == IF k THEN Append(PathMark(A, k), "save_path") ELSE A
Leave(n, k, A) ==
  Do(At(n, k), {"/"}, PathMark(A, k), IF k THEN 513 ELSE 455)
  \cup Do(At(n, k), {"#"}, PathSave(A, k), 453) \cup Do(At(n, k), {"?"}, PathSave(A, k), 456)

(* Edges between states of the copy k.                                      *)
G(n, k, C, t) == Go(At(n, k), C, At(t, k))
D(n, k, C, A, t) == Do(At(n, k), C, A, At(t, k))

-----------------------------------------------------------------------------
(* Paths, query and fragment.                                               *)
UriStart ==
  Go(451, (SegChar \ UAlpha), 452) \cup Go(451, {"#"}, 453) \cup Go(451, {"%"}, 3) \cup Go(451, {"/"}, 458)
  \cup Go(451, {"?"}, 456) \cup Do(451, UAlpha, <<"marku">>, 508)
TailOf(s) == Go(s, {"#"}, 453) \cup Go(s, {"?"}, 456)
NoScheme == TailOf(452) \cup Go(452, SegChar, 452) \cup Go(452, {"%"}, 3) \cup Go(452, {"/"}, 455)
NoSchemePct == Pct(3, UHex, 452)
UriFragment == Do(453, UPChar \cup {"/", "?"}, <<"marku">>, 454) \cup Do(453, {"%"}, <<"marku">>, 1)
UriFragmentRest == Go(454, UPChar \cup {"/", "?"}, 454) \cup Go(454, {"%"}, 1) \cup Pct(1, UHex, 454)
UriPath == TailOf(455) \cup Go(455, UPChar \cup {"/"}, 455) \cup Go(455, {"%"}, 5) \cup Pct(5, UHex, 455)
UriQuery ==
  Do(456, UPChar \cup {"/", "?"}, <<"marku">>, 457) \cup Do(456, {"%"}, <<"marku">>, 7)
  \cup Do(456, {"#"}, <<"marku", "save_query">>, 453)
(* Mutant: a query before a fragment is not saved.                          *)
UriQueryRestDropped ==
  Go(457, UPChar \cup {"/", "?"}, 457) \cup Go(457, {"%"}, 7) \cup Go(457, {"#"}, 453) \cup Pct(7, UHex, 457)

UriQueryRest ==
  Go(457, UPChar \cup {"/", "?"}, 457) \cup Go(457, {"%"}, 7) \cup Do(457, {"#"}, <<"save_query">>, 453) \cup Pct(7, UHex, 457)
UriSlash == TailOf(458) \cup Go(458, UPChar, 455) \cup Go(458, {"%"}, 5) \cup Go(458, {"/"}, 459)

UriScheme ==
  TailOf(508) \cup Go(508, UAlpha \cup UDigit \cup {"+", "."}, 508) \cup Go(508, {"!", "@", "HI"}, 452) \cup Go(508, {"%"}, 3)
  \cup Go(508, {"/"}, 455) \cup Do(508, {":"}, <<"save_scheme">>, 509)
  \cup UNION {TailOf(s) \cup Go(s, UPChar, 455) \cup Go(s, {"%"}, 5) \cup Go(s, {"/"}, s + 1) : s \in {509, 510}}

SavedPath ==
  Go(513, UPChar \cup {"/"}, 513) \cup Go(513, {"%"}, 243) \cup Do(513, {"#"}, <<"save_path">>, 453)
  \cup Do(513, {"?"}, <<"save_path">>, 456) \cup Pct(243, UHex, 513)

-----------------------------------------------------------------------------
(* The authority. A decimal octet: z is the state in which it is complete,  *)
(* a to a + 3 those after 1, after a digit that may be followed by one      *)
(* more, after 2 and after 25.                                              *)
OctetStart(s, k, A, z, a) ==
  D(s, k, {"0"}, A, z) \cup D(s, k, {"1"}, A, a) \cup D(s, k, {"3", "5", "6"}, A, a + 1) \cup D(s, k, {"2"}, A, a + 2)
OctetDigits(k, z, a) ==
  G(a, k, UDigit, a + 1) \cup G(a + 1, k, UDigit, z) \cup G(a + 2, k, UDigit \ {"5"}, z) \cup G(a + 2, k, {"5"}, a + 3)
  \cup G(a + 3, k, UDigit \ {"6"}, z)
OctetDots(k, z, a, C, t) == UNION {G(s, k, C, t) : s \in {z} \cup a..a + 3}
(* The byte 2, a digit up to 4, any digit.                                  *)
Byte2(s, k, A, x, z) ==
  D(s, k, {"B2"}, A, x) \cup G(x, k, {"0", "1", "2", "3"}, x + 1) \cup G(x + 1, k, UDigit, z)

(* The user or the host before a possible "@" (u), or the host after it.    *)
NameState(u) == IF u THEN 467 ELSE 470
NamePct(u) == IF u THEN 31 ELSE 36
HostEnds(s, k, u, A) ==
  Leave(s, k, A) \cup D(s, k, {":"}, A, IF u THEN 468 ELSE 461)
NameRest(s, k, u, C) ==
  HostEnds(s, k, u, <<"save_host">>) \cup G(s, k, UName \ C, NameState(u)) \cup G(s, k, {"%"}, NamePct(u))
  \cup (IF u THEN D(s, k, {"@"}, <<"save_userinfo">>, 469) ELSE {})
HostStart(s, k, u, z, a) ==
  HostEnds(s, k, u, <<"markh", "save_host">>) \cup OctetStart(s, k, <<"markh">>, z, a)
  \cup D(s, k, UName \ UDigit, <<"markh">>, NameState(u)) \cup D(s, k, {"%"}, <<"markh">>, NamePct(u))
  \cup D(s, k, {"["}, <<"markh">>, 38) \cup D(s, k, {"B2"}, <<"markh">>, 9)
AuthorityStart(k) == HostStart(459, k, TRUE, 490, 504) \cup D(459, k, {"@"}, <<"markh", "save_userinfo">>, 469)

(* An address whose octet began with the byte 2: no name any more.          *)
DottedHost(k) ==
  UNION {G(x, k, {"0", "1", "2", "3"}, x + 1) \cup G(x + 1, k, UDigit, IF x = 21 THEN 460 ELSE x + 2) : x \in {9, 13, 17, 21}}
  \cup UNION {G(x, k, {"."}, x + 1) : x \in {11, 15, 19}} \cup UNION {G(x, k, {"B2"}, x + 1) : x \in {12, 16, 20}}
  \cup OctetStart(12, k, <<>>, 15, 27) \cup OctetStart(16, k, <<>>, 19, 23) \cup OctetStart(20, k, <<>>, 460, 463)
LiteralEnd(k) ==
  HostEnds(460, k, FALSE, <<"save_host">>)
  \cup Leave(461, k, <<"markh", "save_port">>) \cup D(461, k, UDigit, <<"markh">>, 462)
  \cup Leave(462, k, <<"save_port">>) \cup G(462, k, UDigit, 462)
DottedLast(k) ==
  OctetDigits(k, 460, 463) \cup UNION {HostEnds(s, k, FALSE, <<"save_host">>) : s \in 463..466}
DottedMiddle(k) ==
  OctetDigits(k, 19, 23) \cup UNION {G(s, k, {"."}, 20) : s \in 23..26}
  \cup OctetDigits(k, 15, 27) \cup UNION {G(s, k, {"."}, 16) : s \in 27..30}

UserOrHost(k) == NameRest(467, k, TRUE, {}) \cup Pct(At(31, k), UHex, At(467, k))
(* A colon after it: a port, or the rest of the user.                       *)
UserRest(s, k) ==
  G(s, k, UserChar \ UDigit, 33) \cup G(s, k, {"%"}, 34) \cup D(s, k, {"@"}, <<"save_userinfo">>, 469)

UserOrPort(k) ==
  UserRest(468, k) \cup Leave(468, k, <<"markh", "save_port">>) \cup D(468, k, UDigit, <<"markh">>, 489)
  \cup G(33, k, UDigit, 33) \cup UserRest(33, k) \cup Pct(At(34, k), UHex, At(33, k))
UserOrPortDigits(k) == UserRest(489, k) \cup Leave(489, k, <<"save_port">>) \cup G(489, k, UDigit, 489)

HostAfterAt(k) == HostStart(469, k, FALSE, 471, 485)
HostName(k) == NameRest(470, k, FALSE, {}) \cup Pct(At(36, k), UHex, At(470, k))

(* An IPv4 address that may still become a name. b is 471 or 490: the first *)
(* octet is complete in b, its digits are in b + 14 to b + 17, and so on.   *)
IsUser(b) == b = 490
NumberDone(s, k, b) == NameRest(s, k, IsUser(b), {"."}) \cup G(s, k, {"."}, s + 1)
NumberNext(s, k, b, x, a) ==
  NameRest(s, k, IsUser(b), UDigit) \cup OctetStart(s, k, <<>>, s + 1, a) \cup G(s, k, {"B2"}, x)
(* The digits of an octet, of which [6-9] after 25 make a name.             *)
NumberDigits(s, k, b, z, a) ==
  (IF s = a + 3 THEN NameRest(s, k, IsUser(b), (UDigit \ {"6"}) \cup {"."}) ELSE NameRest(s, k, IsUser(b), UDigit \cup {"."}))
  \cup G(s, k, {"."}, z + 1) \cup {e \in OctetDigits(k, z, a) : e[1] = At(s, k)}
NumberHost1(k, b) ==
  NumberDone(b, k, b) \cup NumberNext(b + 1, k, b, 13, b + 10) \cup NumberDone(b + 2, k, b) \cup NumberNext(b + 3, k, b, 17, b + 6)
NumberHost2(k, b) ==
  NumberDone(b + 4, k, b) \cup NameRest(b + 5, k, IsUser(b), {}) \cup G(b + 5, k, {"B2"}, 21)
  \cup UNION {NumberDigits(s, k, b, b + 4, b + 6) : s \in b + 6..b + 7}
NumberHost3(k, b) ==
  UNION {NumberDigits(s, k, b, b + 4, b + 6) : s \in b + 8..b + 9}
  \cup UNION {NumberDigits(s, k, b, b + 2, b + 10) : s \in b + 10..b + 12}
NumberHost4(k, b) ==
  NumberDigits(b + 13, k, b, b + 2, b + 10) \cup UNION {NumberDigits(s, k, b, b, b + 14) : s \in b + 14..b + 17}

-----------------------------------------------------------------------------
(* An address in brackets.                                                  *)
UH16(s, k, colon, close) ==
  UNION {G(s + i, k, UHex, s + i + 1) : i \in 0..2} \cup UNION {G(s + i, k, {":"}, colon) : i \in 0..3}
  \cup (IF close THEN UNION {G(s + i, k, {"]"}, 460) : i \in 0..3} ELSE {})
(* Digits that may be an octet or a group: after 0 (d), after 1 (a to       *)
(* a + 2), after 2 (a + 3 to a + 5), after another digit (a + 6), after a   *)
(* letter (h).                                                              *)
DigitStart(s, k, d, a, h) ==
  G(s, k, {"B2"}, 69) \cup G(s, k, {"0"}, d) \cup G(s, k, {"1"}, a) \cup G(s, k, {"2"}, a + 3)
  \cup G(s, k, {"3", "5", "6"}, a + 6) \cup G(s, k, {"A"}, h)
DigitMore(d, k, colon, close) == UH16(d, k, colon, close) \cup G(d, k, {"."}, 72)
OctetOrH16(a, k, d, h, colon, close) ==
  UNION {G(s, k, {":"}, colon) \cup (IF close THEN G(s, k, {"]"}, 460) ELSE {}) : s \in a..a + 6 \cup {h}}
  \cup UNION {G(s, k, {"."}, 72) : s \in a..a + 6}
  \cup G(a, k, UDigit, a + 1) \cup G(a, k, {"A"}, d + 1) \cup G(a + 1, k, UDigit, a + 2) \cup G(a + 1, k, {"A"}, d + 2)
  \cup G(a + 2, k, UHex, d + 3)
  \cup G(a + 3, k, UDigit \ {"5"}, a + 4) \cup G(a + 3, k, {"5"}, a + 5) \cup G(a + 3, k, {"A"}, d + 1)
  \cup G(a + 4, k, UHex, d + 2) \cup G(a + 5, k, UDigit \ {"6"}, a + 2) \cup G(a + 5, k, {"6", "A"}, d + 2)
  \cup G(a + 6, k, UDigit, a + 4) \cup G(a + 6, k, {"A"}, d + 1) \cup G(h, k, UHex, d + 1)

(* The groups before "::", five states each, and where the second colon     *)
(* leads.                                                                   *)
UGroup(g, k, colons) == UH16(g, k, g + 4, FALSE) \cup G(g + 4, k, UHex, g + 5) \cup G(g + 4, k, {":"}, colons)
LiteralStart(k) == G(38, k, UHex, 39) \cup G(38, k, {":"}, 146) \cup G(38, k, {"v"}, 225)
UGroups12(k) == UGroup(39, k, 141) \cup UGroup(44, k, 136)
UGroups34(k) == UGroup(49, k, 131) \cup UGroup(54, k, 126)
UGroups56(k) == UGroup(59, k, 113) \cup UH16(64, k, 68, FALSE)

(* The last 32 bits after six groups: an IPv4 address, two groups, or "::". *)
LastTwo(k) == DigitStart(68, k, 96, 104, 112) \cup G(68, k, {":"}, 111)
BracketIPv4(k) ==
  UNION {G(x, k, {"0", "1", "2", "3"}, x + 1) \cup G(x + 1, k, UDigit, x + 2) : x \in {69, 73, 77, 81}}
  \cup UNION {G(x, k, {"."}, x + 1) : x \in {71, 75, 79}} \cup UNION {G(x, k, {"B2"}, x + 1) : x \in {72, 76, 80}}
  \cup OctetStart(72, k, <<>>, 75, 92) \cup OctetStart(76, k, <<>>, 79, 88) \cup OctetStart(80, k, <<>>, 83, 84)
  \cup G(83, k, {"]"}, 460)
BracketOctets(k) ==
  OctetDigits(k, 83, 84) \cup UNION {G(s, k, {"]"}, 460) : s \in 84..87}
  \cup OctetDigits(k, 79, 88) \cup UNION {G(s, k, {"."}, 80) : s \in 88..91}
  \cup OctetDigits(k, 75, 92) \cup UNION {G(s, k, {"."}, 76) : s \in 92..95}
LastGroups(k) ==
  DigitMore(96, k, 100, FALSE) \cup G(100, k, UHex, 101) \cup G(100, k, {":"}, 83)
  \cup UNION {G(s, k, {"]"}, 460) : s \in 101..103} \cup G(101, k, UHex, 102) \cup G(102, k, UHex, 103) \cup G(103, k, UHex, 83)
LastOctets(k) == OctetOrH16(104, k, 96, 112, 100, FALSE) \cup G(111, k, UHex, 101)

(* After "::" that follows some groups: i groups are still needed before    *)
(* the last 32 bits.                                                        *)
Needed0(k) == DigitStart(113, k, 114, 118, 125) \cup DigitMore(114, k, 111, FALSE)
Needed0Octets(k) == OctetOrH16(118, k, 114, 125, 111, FALSE)
NeededGroup(g, k, colon) == G(g, k, UHex, g + 1) \cup UH16(g + 1, k, colon, FALSE)
Needed12(k) == NeededGroup(126, k, 113) \cup NeededGroup(131, k, 126)
Needed34(k) == NeededGroup(136, k, 131) \cup NeededGroup(141, k, 136) \cup G(146, k, {":"}, 147)

(* After "::" at the start: up to five groups, then the last 32 bits. The   *)
(* groups are in 147 to 176, the octets in 177 to 224, backwards.           *)
ColonGroup(g, k, a) == DigitStart(g, k, g + 1, a, a + 7) \cup DigitMore(g + 1, k, IF g = 172 THEN 111 ELSE g + 5, TRUE)
ColonOctets(g, k, a) == OctetOrH16(a, k, g + 1, a + 7, IF g = 172 THEN 111 ELSE g + 5, TRUE)
Colon1(k) == ColonGroup(147, k, 217) \cup G(147, k, {"]"}, 460)
Colon2(k) == ColonGroup(152, k, 209)
Colon3(k) == ColonGroup(157, k, 201)
Colon4(k) == ColonGroup(162, k, 193)
Colon5(k) == ColonGroup(167, k, 185)
Colon6(k) == ColonGroup(172, k, 177)
Octets6(k) == ColonOctets(172, k, 177)
Octets5(k) == ColonOctets(167, k, 185)
Octets4(k) == ColonOctets(162, k, 193)
Octets3(k) == ColonOctets(157, k, 201)
Octets2(k) == ColonOctets(152, k, 209)
Octets1(k) == ColonOctets(147, k, 217)
UriIPvFuture(k) ==
  G(225, k, UHex, 226) \cup G(226, k, UHex, 226) \cup G(226, k, {"."}, 227)
  \cup G(227, k, UserChar, 228) \cup G(228, k, UserChar, 228) \cup G(228, k, {"]"}, 460)
-----------------------------------------------------------------------------
(* The second copy of the authority, after "scheme://".                      *)
AbsAuthorityStart == AuthorityStart(Abs)
AbsDottedHost == DottedHost(Abs)
AbsLiteralEnd == LiteralEnd(Abs)
AbsDottedLast == DottedLast(Abs)
AbsDottedMiddle == DottedMiddle(Abs)
AbsUserOrHost == UserOrHost(Abs)
AbsUserOrPort == UserOrPort(Abs)
AbsUserOrPortDigits == UserOrPortDigits(Abs)
AbsHostAfterAt == HostAfterAt(Abs)
AbsHostName == HostName(Abs)
AbsLiteralStart == LiteralStart(Abs)
AbsUGroups12 == UGroups12(Abs)
AbsUGroups34 == UGroups34(Abs)
AbsUGroups56 == UGroups56(Abs)
AbsLastTwo == LastTwo(Abs)
AbsBracketIPv4 == BracketIPv4(Abs)
AbsBracketOctets == BracketOctets(Abs)
AbsLastGroups == LastGroups(Abs)
AbsLastOctets == LastOctets(Abs)
AbsNeeded0 == Needed0(Abs)
AbsNeeded0Octets == Needed0Octets(Abs)
AbsNeeded12 == Needed12(Abs)
AbsNeeded34 == Needed34(Abs)
AbsColon1 == Colon1(Abs)
AbsColon2 == Colon2(Abs)
AbsColon3 == Colon3(Abs)
AbsColon4 == Colon4(Abs)
AbsColon5 == Colon5(Abs)
AbsColon6 == Colon6(Abs)
AbsOctets6 == Octets6(Abs)
AbsOctets5 == Octets5(Abs)
AbsOctets4 == Octets4(Abs)
AbsOctets3 == Octets3(Abs)
AbsOctets2 == Octets2(Abs)
AbsOctets1 == Octets1(Abs)
AbsUriIPvFuture == UriIPvFuture(Abs)
(* The copies of the address that may become a name: after "@", and before  *)
(* a possible "@" (User).                                                   *)
Host1 == NumberHost1(Rel, 471)
User1 == NumberHost1(Rel, 490)
AbsHost1 == NumberHost1(Abs, 471)
AbsUser1 == NumberHost1(Abs, 490)
Host2 == NumberHost2(Rel, 471)
User2 == NumberHost2(Rel, 490)
AbsHost2 == NumberHost2(Abs, 471)
AbsUser2 == NumberHost2(Abs, 490)
Host3 == NumberHost3(Rel, 471)
User3 == NumberHost3(Rel, 490)
AbsHost3 == NumberHost3(Abs, 471)
AbsUser3 == NumberHost3(Abs, 490)
Host4 == NumberHost4(Rel, 471)
User4 == NumberHost4(Rel, 490)
AbsHost4 == NumberHost4(Abs, 471)
AbsUser4 == NumberHost4(Abs, 490)

-----------------------------------------------------------------------------
(* The actions at the end of the input.                                     *)
EofAt(S, A) == UNION {Do(s, {"EOF"}, A, s) : s \in S}
CopyEof(S, A) == UNION {EofAt({At(s, k) : s \in S}, PathSave(A, k)) : k \in {Rel, Abs}}
UriEof ==
  EofAt({453}, <<"marku", "save_fragment">>) \cup EofAt({454}, <<"save_fragment">>) \cup EofAt({456}, <<"marku", "save_query">>)
  \cup EofAt({457}, <<"save_query">>) \cup EofAt({513}, <<"save_path">>)
  \cup CopyEof({461, 468}, <<"markh", "save_port">>) \cup CopyEof({462, 489}, <<"save_port">>)
  \cup CopyEof({459, 469}, <<"markh", "save_host">>)
  \cup CopyEof({460} \cup 463..467 \cup 470..488 \cup 490..507, <<"save_host">>)

UriEdges ==
  UriStart \cup NoScheme \cup NoSchemePct \cup UriFragment \cup UriFragmentRest \cup UriPath \cup UriQuery
  \cup UriQueryRest \cup UriSlash \cup UriScheme \cup SavedPath \cup UriEof \cup AuthorityStart(Rel)
  \cup DottedHost(Rel) \cup LiteralEnd(Rel) \cup DottedLast(Rel) \cup DottedMiddle(Rel) \cup UserOrHost(Rel)
  \cup UserOrPort(Rel) \cup UserOrPortDigits(Rel) \cup HostAfterAt(Rel) \cup HostName(Rel)
  \cup LiteralStart(Rel) \cup UGroups12(Rel) \cup UGroups34(Rel) \cup UGroups56(Rel) \cup LastTwo(Rel)
  \cup BracketIPv4(Rel) \cup BracketOctets(Rel) \cup LastGroups(Rel) \cup LastOctets(Rel) \cup Needed0(Rel)
  \cup Needed0Octets(Rel) \cup Needed12(Rel) \cup Needed34(Rel) \cup Colon1(Rel) \cup Colon2(Rel)
  \cup Colon3(Rel) \cup Colon4(Rel) \cup Colon5(Rel) \cup Colon6(Rel) \cup Octets6(Rel) \cup Octets5(Rel)
  \cup Octets4(Rel) \cup Octets3(Rel) \cup Octets2(Rel) \cup Octets1(Rel) \cup UriIPvFuture(Rel)
  \cup AbsAuthorityStart \cup AbsDottedHost \cup AbsLiteralEnd \cup AbsDottedLast \cup AbsDottedMiddle
  \cup AbsUserOrHost \cup AbsUserOrPort \cup AbsUserOrPortDigits \cup AbsHostAfterAt \cup AbsHostName
  \cup AbsLiteralStart \cup AbsUGroups12 \cup AbsUGroups34 \cup AbsUGroups56 \cup AbsLastTwo
  \cup AbsBracketIPv4 \cup AbsBracketOctets \cup AbsLastGroups \cup AbsLastOctets \cup AbsNeeded0
  \cup AbsNeeded0Octets \cup AbsNeeded12 \cup AbsNeeded34 \cup AbsColon1 \cup AbsColon2 \cup AbsColon3
  \cup AbsColon4 \cup AbsColon5 \cup AbsColon6 \cup AbsOctets6 \cup AbsOctets5 \cup AbsOctets4 \cup AbsOctets3
  \cup AbsOctets2 \cup AbsOctets1 \cup AbsUriIPvFuture \cup Host1 \cup User1 \cup AbsHost1 \cup AbsUser1
  \cup Host2 \cup User2 \cup AbsHost2 \cup AbsUser2 \cup Host3 \cup User3 \cup AbsHost3 \cup AbsUser3
  \cup Host4 \cup User4 \cup AbsHost4 \cup AbsUser4
UriTable == Table(UriEdges, 560)
=============================================================================
