-------------------------- MODULE ResponseMachine --------------------------
(* The state machine of httpclient_parser_execute                           *)
(* (http/httpclient_parser.rl.cc, generated from httpclient_parser.rl): a   *)
(* status line with header lines, or the size line of a chunk. The headers  *)
(* Connection, Transfer-Encoding and Content-Length are recognised letter   *)
(* by letter beside the rule for any header. The state numbers are those of *)
(* the generated code: 1 is the start, 120 to 123 are final.                *)
EXTENDS Ragel

RespFinal == 120..123
first_final == 120

(* The classes of bytes. A letter stands for itself and its small form; h   *)
(* and t are apart because "HTTP" is matched in capitals, and p is an       *)
(* ordinary character of a token, TOK, with the other letters no keyword    *)
(* has. WS is TAB, VT and FF; "9" is any digit; OTH what no token contains. *)
Letters == {"A", "B", "C", "D", "E", "F", "G", "H", "I", "K", "L", "N", "O", "P", "R", "S", "T", "U", "h", "t"}
RespHex == {"9", "A", "B", "C", "D", "E", "F"}
RespToken == Letters \cup {"TOK", "-", ".", "9"}
Space == {"WS", "SP"}
RespBytes == RespToken \cup Space \cup {"OTH", "LF", "CR", "/", ":", ";", "="}
NotEol == RespBytes \ {"LF", "CR"}
H == {"H", "h"}
T == {"T", "t"}

-----------------------------------------------------------------------------
(* The size of a chunk and its extensions.                                  *)
ChunkEnds(s, A) ==
  Do(s, {"LF"}, A \o <<"done">>, 120) \cup Do(s, {"CR"}, A, 3) \cup Do(s, {";"}, A, 4)
ChunkSize ==
  Do(1, RespHex, <<"mark">>, 2) \cup Do(1, {"H"}, <<"mark">>, 8) \cup ChunkEnds(2, <<"chunk_size">>) \cup Go(2, RespHex, 2)
(* Mutant: the end of the headers in another final state.                   *)
LastLineOther == Do(3, {"LF"}, <<"done">>, 123)

LastLine == Do(3, {"LF"}, <<"done">>, 120)
ChunkExtension ==
  Do(4, RespToken, <<"start_field">>, 5) \cup ChunkEnds(5, <<"write_field", "start_value", "write_value">>)
  \cup Go(5, RespToken, 5) \cup Do(5, {"="}, <<"write_field", "start_value">>, 6)
ChunkExtValue ==
  Do(6, RespToken, <<"start_value">>, 7) \cup ChunkEnds(7, <<"write_value">>) \cup Go(7, RespToken, 7)

(* "HTTP/" digits "." digits, the status code and the reason.               *)
RespVersion ==
  Spell(8, <<"T", "T", "P", "/", "9">>) \cup Go(13, {"9"}, 13) \cup Spell(13, <<".", "9">>) \cup Go(15, {"9"}, 15)
  \cup Do(15, {"SP"}, <<"http_version">>, 16)
StatusCode == Do(16, {"9"}, <<"mark">>, 17) \cup Go(17, {"9"}, 17) \cup Do(17, {"SP"}, <<"status_code">>, 18)
ReasonPhrase ==
  Do(18, RespBytes \ {"LF"}, <<"mark">>, 19) \cup Go(19, NotEol, 19)
  \cup Do(19, {"LF"}, <<"reason_phrase">>, 20) \cup Do(19, {"CR"}, <<"reason_phrase">>, 24)

-----------------------------------------------------------------------------
(* Header lines. A is what ends the previous line in state s: the first     *)
(* letter decides which of the known headers the name may be; C is what a   *)
(* C does, and X are characters with a transition of their own.             *)
LineStarts(s, A, C, X) ==
  Do(s, RespToken \ ({"C"} \cup T \cup X), A \o <<"start_field">>, 21) \cup C \cup Do(s, T, A \o <<"start_field">>, 44)
LineOrEnd(s, A) ==
  LineStarts(s, A, Do(s, {"C"}, A \o <<"start_field">>, 25), {})
  \cup Do(s, {"LF"}, A \o <<"done">>, 120) \cup Do(s, {"CR"}, A, 3)

(* A character of a name that is still a prefix of a known one, and one of  *)
(* a value that is.                                                         *)
NameFork(s, L, t, M, u) ==
  Go(s, L, t) \cup Go(s, M, u) \cup Go(s, RespToken \ (L \cup M), 21) \cup Do(s, {":"}, <<"write_field">>, 22)
NameStep(s, L, t) == NameFork(s, L, t, {}, 21)
ValueEnds(s, A, lf, cr) == Do(s, {"LF"}, A \o <<"write_value">>, lf) \cup Do(s, {"CR"}, A \o <<"write_value">>, cr)
ValueStep(s, L, t) == Go(s, L, t) \cup Go(s, NotEol \ L, 23) \cup ValueEnds(s, <<>>, 20, 24)
NameWord(s, w) == UNION {NameStep(s + i - 1, w[i], s + i) : i \in 1..Len(w)}
ValueWord(s, w) == UNION {ValueStep(s + i - 1, w[i], s + i) : i \in 1..Len(w)}
Word(s, w) == UNION {Go(s + i - 1, w[i], s + i) : i \in 1..Len(w)}

(* The colon of a known header has been read; the value L leads to t. An    *)
(* empty value may still turn out to be white space before one on the next  *)
(* line (the grammar has space*, and CR and LF are space).                  *)
ColonSeen(s) == Go(s, RespToken, 21) \cup Do(s, {":"}, <<"write_field">>, s + 1)
KnownValue(s, L, t, lf, cr) ==
  Do(s, L, <<"start_value">>, t) \cup Do(s, NotEol \ (L \cup Space), <<"start_value">>, 23)
  \cup Do(s, Space, <<"start_value">>, s) \cup ValueEnds(s, <<"start_value">>, lf, cr)

(* After the LF of the empty value, in white space (w), after a CR (c) and  *)
(* after the end of the message (f), from where white space leads on.       *)
EmptyValue(s, w, c, f) == Go(s, Space, w) \cup Do(s, {"LF"}, <<"done">>, f) \cup Go(s, {"CR"}, c)
InSpace(s, w, L, A, t) == Go(s, Space \cup {"CR", "LF"}, w) \cup Do(s, L, A, t)
AfterCR(c, w, L, A, t, lf) == Go(c, Space \cup {"CR"}, w) \cup Do(c, L, A, t) \cup lf

AnyHeader == LineOrEnd(20, <<>>) \cup Go(21, RespToken, 21) \cup Do(21, {":"}, <<"write_field">>, 22)
AnyValue ==
  Do(22, NotEol \ Space, <<"start_value">>, 23) \cup Do(22, Space, <<"start_value">>, 22)
  \cup ValueEnds(22, <<"start_value">>, 20, 24) \cup Go(23, NotEol, 23) \cup ValueEnds(23, <<>>, 20, 24) \cup Go(24, {"LF"}, 20)

(* Connection: close                                                        *)
ConnectionHead ==
  NameWord(25, <<{"O"}, {"N"}>>) \cup NameFork(27, {"N"}, 28, T, 101)
  \cup NameWord(28, <<{"E"}, {"C"}>>)
ConnectionTail == NameWord(30, <<T, {"I"}, {"O"}, {"N"}>>) \cup ColonSeen(34)
ConnectionValue ==
  KnownValue(35, {"C"}, 96, 36, 95) \cup EmptyValue(36, 37, 89, 122) \cup LineStarts(36, <<>>, Do(36, {"C"}, <<"start_field">>, 90), {})
  \cup InSpace(37, 37, {"C"}, <<>>, 38) \cup Word(38, <<{"L"}, {"O"}, {"S"}, {"E"}>>) \cup Go(42, {"LF"}, 43) \cup Go(42, {"CR"}, 88)
ClosedLine == LineOrEnd(43, <<"write_connection_close">>)

(* Transfer-Encoding: chunked                                               *)
TransferName == NameWord(44, <<{"R"}, {"A"}, {"N"}, {"S"}, {"F"}>>)
TransferName2 == NameWord(49, <<{"E"}, {"R"}, {"-"}, {"E"}, {"N"}>>)
EncodingName == NameWord(54, <<{"C"}, {"O"}, {"D"}, {"I"}, {"N"}>>)
EncodingValue ==
  NameStep(59, {"G"}, 60) \cup ColonSeen(60) \cup KnownValue(61, {"C"}, 81, 62, 80) \cup EmptyValue(62, 63, 72, 121)
  \cup LineStarts(62, <<>>, Do(62, {"C"}, <<"start_value", "start_field">>, 73), {})
ChunkedWord ==
  InSpace(63, 63, {"C"}, <<"start_value">>, 64) \cup Word(64, <<H, {"U"}, {"N"}, {"K"}, {"E"}, {"D"}>>)
  \cup Do(70, {"LF"}, <<"write_value", "trans_chunked">>, 20) \cup Do(70, {"CR"}, <<"write_value">>, 71)
  \cup Do(71, {"LF"}, <<"trans_chunked">>, 20)
ChunkedEnded ==
  InSpace(121, 63, {"C"}, <<"start_value">>, 64)
  \cup AfterCR(72, 63, {"C"}, <<"start_value">>, 64, Do(72, {"LF"}, <<"done">>, 121))
ChunkedOrName == NameFork(73, H, 74, {"O"}, 26) \cup NameWord(74, <<{"U"}, {"N"}, {"K"}, {"E"}>>)
ChunkedOrNameEnd ==
  NameStep(78, {"D"}, 79) \cup NameStep(79, {}, 21)
  \cup Do(79, {"LF"}, <<"write_value", "trans_chunked">>, 20) \cup Do(79, {"CR"}, <<"write_value">>, 71)
  \cup AfterCR(80, 63, {"C"}, <<"start_value">>, 64, Go(80, {"LF"}, 62))
ChunkedValue ==
  ValueWord(81, <<H, {"U"}, {"N"}, {"K"}, {"E"}, {"D"}>>)
  \cup Go(87, NotEol, 23) \cup Do(87, {"LF"}, <<"write_value", "trans_chunked">>, 20) \cup Do(87, {"CR"}, <<"write_value">>, 71)

CloseEnded ==
  Go(88, {"LF"}, 43) \cup InSpace(122, 37, {"C"}, <<>>, 38) \cup AfterCR(89, 37, {"C"}, <<>>, 38, Do(89, {"LF"}, <<"done">>, 122))
CloseOrName ==
  NameFork(90, {"L"}, 91, {"O"}, 26) \cup NameWord(91, <<{"O"}, {"S"}, {"E"}>>) \cup NameStep(94, {}, 21)
  \cup Go(94, {"LF"}, 43) \cup Go(94, {"CR"}, 88)
CloseValue ==
  AfterCR(95, 37, {"C"}, <<>>, 38, Go(95, {"LF"}, 36)) \cup ValueWord(96, <<{"L"}, {"O"}, {"S"}, {"E"}>>)
  \cup Go(100, NotEol, 23) \cup ValueEnds(100, <<>>, 43, 88)

(* Content-Length: digits                                                   *)
ContentName == NameWord(101, <<{"E"}, {"N"}, T, {"-"}, {"L"}>>)
LengthName == NameWord(106, <<{"E"}, {"N"}, {"G"}, T, H>>) \cup ColonSeen(111)
Digits(s) == Do(s, {"LF"}, <<"write_content_len", "write_value">>, 20)
                \cup Do(s, {"CR"}, <<"write_content_len", "write_value">>, 24) \cup Go(s, {"9"}, s)
LengthValue ==
  KnownValue(112, {"9"}, 119, 113, 118) \cup EmptyValue(113, 114, 116, 123) \cup LineStarts(113, <<>>, Do(113, {"C"}, <<"start_field">>, 25), {"9"})
  \cup Do(113, {"9"}, <<"start_value", "start_field">>, 117)
  \cup InSpace(114, 114, {"9"}, <<"start_value">>, 115) \cup Digits(115)
LengthEnded ==
  InSpace(123, 114, {"9"}, <<"start_value">>, 115)
  \cup AfterCR(116, 114, {"9"}, <<"start_value">>, 115, Do(116, {"LF"}, <<"done">>, 123))
LengthOrName ==
  Digits(117) \cup Go(117, RespToken \ {"9"}, 21) \cup Do(117, {":"}, <<"write_field">>, 22)
  \cup AfterCR(118, 114, {"9"}, <<"start_value">>, 115, Go(118, {"LF"}, 113))
  \cup Digits(119) \cup Go(119, NotEol \ {"9"}, 23)

Response == UNION {
  ChunkSize, LastLine, ChunkExtension, ChunkExtValue, RespVersion, StatusCode, ReasonPhrase, AnyHeader, AnyValue,
  ConnectionHead, ConnectionTail, ConnectionValue, ClosedLine, TransferName, TransferName2, EncodingName, EncodingValue,
  ChunkedWord, ChunkedEnded, ChunkedOrName, ChunkedOrNameEnd, ChunkedValue, CloseEnded, CloseOrName, CloseValue,
  ContentName, LengthName, LengthValue, LengthEnded, LengthOrName}

ResponseTable == Table(Response, 123)
=============================================================================
