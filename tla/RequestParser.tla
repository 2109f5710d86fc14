--------------------------- MODULE RequestParser ---------------------------
(* HttpRequestParser::execute and its callbacks (http/http_parser.cc) over  *)
(* http_parser_execute (http/http11_parser.rl.cc). The request comes in     *)
(* pieces, one for every read of the session; a piece may end anywhere, and *)
(* execute is called for each. Which byte comes next is the peer's choice.  *)
EXTENDS RequestMachine, ParserMarks, FiniteSets

CONSTANT MaxReads    \* how many pieces a request may come in

VARIABLES
  cs,          \* the state of the machine
  uri_relaxed, \* never initialised: some value, the same for the life of the parser
  phase,       \* "read" before a piece, "execute" within one, "over"
  todo,        \* the actions of the current transition that are still to run
  cur,         \* the current byte, as far as it is a delimiter; "none" between two bytes
  prev,        \* the byte before it
  mark, field_start, query_start,
  field_len,   \* "zero", "part" or "full", compared to the name of the header
  m_error,
  sent,        \* xml_sent or json_sent
  version,     \* what on_request_version has stored: "none", "0", "1"
  events,      \* the callbacks so far
  last,        \* the last callback at the current byte and what it received
  reads,       \* pieces so far
  said,        \* the digit of the version in the request
  split,       \* the tokens, still to be delivered, inside which a piece has ended
  broken,      \* where in the current header line a piece has ended: "no", "name", "colon"
  bol          \* the next byte is the first of a line, or only a CR is before it

registers == <<mark, field_start, query_start, field_len>>
results == <<m_error, sent, version, events, last>>
ghosts == <<said, split, broken, bol>>
reqVars == <<cs, uri_relaxed, phase, todo, cur, prev, registers, results, reads, ghosts>>

(* The delimiters of the tokens, by their strength: a path may contain a    *)
(* colon, a query also ?, and so on; only the end of a line ends a value.   *)
Delim == {"SP", "?", "#", ":", "CR", "LF"}
Coarse(b) == IF b \in Delim THEN b ELSE "x"
Strength(b) == CASE b = ":" -> 1 [] b = "?" -> 2 [] b = "#" -> 3 [] b = "SP" -> 4 [] b \in {"CR", "LF"} -> 5 [] OTHER -> 0

(* The callbacks that receive the bytes from mark on.                       *)
MarkTokens == {"request_method", "request_path", "request_uri", "fragment", "http_version"}
Callbacks == MarkTokens \cup {"query_string", "write_value", "done"}

(* The tokens the machine is inside of in state n, read off the grammar.    *)
PathStates == {19, 173} \cup 24..28 \cup 33..172 \cup {194, 195, 198} \cup 202..347
Inside(n) ==
  IF n \in {2} \cup 175..193 THEN {"request_method"}
  ELSE IF n \in 5..12 THEN {"http_version"}
  ELSE IF n \in 21..23 THEN {"fragment"}
  ELSE IF n = 29 THEN {"request_uri"}
  ELSE IF n \in 30..32 THEN {"request_uri", "query_string"}
  ELSE IF n = 16 THEN {"write_value"}
  ELSE IF n \in PathStates THEN {"request_path", "request_uri"} ELSE {}

NoCall == [cb |-> "none", at |-> Unset, cut |-> FALSE, name |-> "full"]

http_parser_has_error == cs = 0
http_parser_is_finished == cs \in Final
hasError == m_error # 0 \/ http_parser_has_error
isFinished == http_parser_is_finished

(* http_parser_init and the constructor of HttpRequestParser.               *)
ReqInit ==
  /\ cs = 1 /\ uri_relaxed \in BOOLEAN /\ phase = "read" /\ todo = <<>> /\ cur = "none" /\ prev = "none"
  /\ mark = BufferStart /\ field_start = BufferStart /\ query_start = Unset /\ field_len = "zero"
  /\ m_error = 0 /\ sent = FALSE /\ version = "none" /\ events = {} /\ last = NoCall
  /\ reads = 0 /\ said = "none" /\ split = {} /\ broken = "no" /\ bol = FALSE

-----------------------------------------------------------------------------
(* Mutant: mark keeps its offset into the last buffer.                      *)
ExecuteKeepsMark ==
  /\ phase = "read" /\ reads < MaxReads
  /\ phase' = "execute" /\ reads' = reads + 1
  /\ field_start' = BufferStart /\ field_len' = "zero" /\ last' = NoCall
  /\ query_start' = IF query_start.kind \in {"set", "used"} THEN Stale ELSE query_start
  /\ UNCHANGED <<mark, cs, uri_relaxed, todo, cur, prev, m_error, sent, version, events, ghosts>>
(* Mutant: field_len is not reset.                                          *)
ExecuteKeepsLength ==
  /\ phase = "read" /\ reads < MaxReads
  /\ phase' = "execute" /\ reads' = reads + 1
  /\ mark' = BufferStart /\ field_start' = BufferStart /\ last' = NoCall
  /\ query_start' = IF query_start.kind \in {"set", "used"} THEN Stale ELSE query_start
  /\ UNCHANGED <<field_len, cs, uri_relaxed, todo, cur, prev, m_error, sent, version, events, ghosts>>

(* execute is called with the next piece: all offsets but query_start go    *)
(* back to the start of the buffer.                                         *)
Execute ==
  /\ phase = "read" /\ reads < MaxReads
  /\ phase' = "execute" /\ reads' = reads + 1
  /\ mark' = BufferStart /\ field_start' = BufferStart /\ field_len' = "zero"
  /\ query_start' = IF query_start.kind \in {"set", "used"} THEN Stale ELSE query_start
  /\ last' = NoCall
  /\ UNCHANGED <<cs, uri_relaxed, todo, cur, prev, m_error, sent, version, events, ghosts>>

(* One byte: the switch over the state and the ranges of the byte.          *)
Byte(b) ==
  /\ phase = "execute" /\ cur = "none" /\ cs \notin Final \cup {0}
  /\ LET m == RequestMove(cs, b, uri_relaxed) IN cs' = m.to /\ todo' = m.do
  /\ cur' = Coarse(b)
  /\ said' = IF cs = 11 /\ b \in {"0", "1"} THEN b ELSE said
  /\ broken' = IF broken = "name" /\ b = ":" /\ ~field_start.any THEN "colon" ELSE broken
  /\ UNCHANGED <<uri_relaxed, phase, prev, registers, results, reads, split, bol>>

(* ++p, when the actions of the transition have run.                        *)
Advance ==
  /\ phase = "execute" /\ cur # "none" /\ todo = <<>> /\ cs # 0
  /\ mark' = Pass(mark, Strength(cur)) /\ query_start' = Pass(query_start, Strength(cur))
  /\ field_start' = Pass(field_start, IF cur = ":" THEN 1 ELSE 0)
  /\ prev' = cur /\ cur' = "none" /\ last' = NoCall /\ said' = IF last.cb = "http_version" THEN "none" ELSE said
  /\ bol' = (cur = "LF" \/ (bol /\ cur = "CR"))
  /\ UNCHANGED <<cs, uri_relaxed, phase, todo, field_len, m_error, sent, version, events, reads, split, broken>>

(* The end of execute: at the end of the piece, after done (fbreak) or in   *)
(* the error state. recvRequest asks hasError and isFinished, and reads on. *)
Return ==
  /\ phase = "execute" /\ todo = <<>> /\ (cur = "none" \/ cs = 0)
  /\ phase' = IF hasError \/ isFinished THEN "over" ELSE "read"
  /\ split' = split \cup Inside(cs)
  /\ broken' = CASE cs \in {14, 18} -> "name" [] cs \in {15, 16} -> "colon" [] OTHER -> broken
  /\ UNCHANGED <<cs, uri_relaxed, todo, cur, prev, registers, results, reads, said, bol>>

-----------------------------------------------------------------------------
(* The actions of the grammar, in the order of the transition.              *)
Runs(a) == phase = "execute" /\ todo # <<>> /\ Head(todo) = a /\ todo' = Tail(todo)
Same == UNCHANGED <<cs, uri_relaxed, phase, cur, prev, reads, bol>>

Mark ==
  /\ Runs("mark") /\ mark' = MarkAt(prev) /\ split' = split \ MarkTokens
  /\ UNCHANGED <<field_start, query_start, field_len, results, said, broken>> /\ Same
StartValue ==
  /\ Runs("start_value") /\ mark' = MarkAt(prev) /\ split' = split \ {"write_value"}
  /\ UNCHANGED <<field_start, query_start, field_len, results, said, broken>> /\ Same
StartField ==
  /\ Runs("start_field") /\ field_start' = MarkAt(prev) /\ broken' = "no"
  /\ UNCHANGED <<mark, query_start, field_len, results, said, split>> /\ Same
WriteField ==
  /\ Runs("write_field")
  /\ field_len' = IF ~field_start.any THEN "zero" ELSE IF Whole(field_start) THEN "full" ELSE "part"
  /\ UNCHANGED <<mark, field_start, query_start, results, said, split, broken>> /\ Same
StartQuery ==
  /\ Runs("start_query") /\ query_start' = MarkAt(prev) /\ split' = split \ {"query_string"}
  /\ UNCHANGED <<mark, field_start, field_len, results, said, broken>> /\ Same

(* A callback receives the bytes from m on.                                 *)
Receives(cb, m, name) ==
  /\ last' = [cb |-> cb, at |-> m, cut |-> cb \in split, name |-> name]
  /\ events' = events \cup {cb} /\ split' = split \ {cb}
  /\ mark' = IF cb \in {"request_path", "query_string"} THEN mark ELSE Used
  /\ query_start' = IF cb = "query_string" THEN Used ELSE query_start
  /\ field_start' = IF cb = "write_value" THEN Used ELSE field_start
  /\ UNCHANGED <<field_len, said, broken>> /\ Same

(* CharsToHttpMethod compares the first bytes with the names of the         *)
(* methods, which the byte after an empty method never begins.              *)
request_method ==
  /\ Runs("request_method") /\ Receives("request_method", mark, "full")
  /\ m_error' \in (IF mark.any THEN {m_error, 1000} ELSE {1000})
  /\ UNCHANGED <<sent, version>>
request_path == Runs("request_path") /\ Receives("request_path", mark, "full") /\ UNCHANGED <<m_error, sent, version>>
request_uri == Runs("request_uri") /\ Receives("request_uri", mark, "full") /\ UNCHANGED <<m_error, sent, version>>
fragment == Runs("fragment") /\ Receives("fragment", mark, "full") /\ UNCHANGED <<m_error, sent, version>>
query_string == Runs("query_string") /\ Receives("query_string", query_start, "full") /\ UNCHANGED <<m_error, sent, version>>

(* on_request_version compares as many bytes as it is given: none are equal *)
(* to "HTTP/1.1", a part of the version to neither.                         *)
StoredVersion(m) == IF ~m.any THEN "1" ELSE IF Whole(m) THEN said ELSE "bad"
http_version ==
  /\ Runs("http_version") /\ Receives("http_version", mark, "full")
  /\ IF StoredVersion(mark) = "bad" THEN m_error' = 1001 /\ UNCHANGED version
     ELSE version' = StoredVersion(mark) /\ UNCHANGED m_error
  /\ UNCHANGED sent

(* on_request_http_field drops a header whose name has no bytes.            *)
write_value == Runs("write_value") /\ Receives("write_value", mark, field_len) /\ UNCHANGED <<m_error, sent, version>>

Sent == Runs("xml") \/ Runs("json")
xml_json == Sent /\ sent' = TRUE /\ UNCHANGED <<registers, m_error, version, events, last, said, split, broken>> /\ Same
done == Runs("done") /\ Receives("done", mark, "full") /\ UNCHANGED <<m_error, sent, version>>

Action ==
  \/ Mark \/ StartValue \/ StartField \/ WriteField \/ StartQuery
  \/ request_method \/ request_path \/ request_uri \/ fragment \/ query_string \/ http_version
  \/ write_value \/ xml_json \/ done
ReqNext == Execute \/ (\E b \in Bytes : Byte(b)) \/ Advance \/ Return \/ Action
ReqSpec == ReqInit /\ [][ReqNext]_reqVars

-----------------------------------------------------------------------------
ReqTypeOK ==
  /\ cs \in 0..349 /\ phase \in {"read", "execute", "over"} /\ reads \in 0..MaxReads
  /\ cur \in Delim \cup {"x", "none"} /\ prev \in Delim \cup {"x", "none"}
  /\ \A m \in {mark, field_start, query_start} : m \in Marks(Delim \cup {"none"}, 5)
  /\ field_len \in {"zero", "part", "full"} /\ m_error \in {0, 1000, 1001} /\ version \in {"none", "0", "1"}
  /\ events \subseteq Callbacks /\ split \subseteq Callbacks /\ broken \in {"no", "name", "colon"}

(* A callback receives a whole token exactly when no read ended inside that *)
(* token: the offsets are put back by every execute (http11_parser.rl.cc    *)
(* 90 to 93), so a token that spans two reads is delivered without its      *)
(* first part, and one that does not is never harmed by a cut elsewhere.    *)
TokenWholeUnlessCut ==
  last.cb \notin {"none", "done"} => (Whole(last.at) <=> ~last.cut)

(* A whole token contains none of the delimiters that end it and begins     *)
(* where the grammar says: the marks of the machine are set at the right    *)
(* byte in every one of its states, also where a scheme turns out to be a   *)
(* path or the path begins anew after a scheme.                             *)
Strongest(cb) ==
  CASE cb \in {"request_method", "http_version"} -> 0 [] cb = "request_path" -> 1 [] cb = "write_value" -> 4 [] OTHER -> 2
Before(cb) ==
  CASE cb = "request_method" -> {"none"} [] cb \in {"request_path", "request_uri"} -> {"none", "SP", ":"}
    [] cb = "query_string" -> {"?"} [] cb = "fragment" -> {"#"} [] cb = "http_version" -> {"SP"}
    [] OTHER -> {":", "SP", "x"}
TokenExact ==
  last.cb \notin {"none", "done"} /\ Whole(last.at) =>
    last.at.worst <= Strongest(last.cb) /\ last.at.after \in Before(last.cb)

(* The tokens of a request: well typed, whole unless a read ended in them,  *)
(* and exact when whole.                                                    *)
RequestTokens == ReqTypeOK /\ TokenWholeUnlessCut /\ TokenExact

(* What happens to a header when a read ends in its line: before the end of *)
(* the name the header is stored under the rest of the name, after it the   *)
(* header is dropped (field_len is 0 then, on_request_http_field returns);  *)
(* otherwise it has its full name.                                          *)
HeaderNameByCut ==
  last.cb = "write_value" => last.name = CASE broken = "no" -> "full" [] broken = "name" -> "part" [] broken = "colon" -> "zero"

(* The version stored is the version sent unless a read ended inside it;    *)
(* then it is either refused with error 1001 or, when the read ended        *)
(* exactly after it, taken for 1.1. Error 1001 has no other cause: the      *)
(* machine accepts 1.0 and 1.1 only.                                        *)
VersionRight ==
  last.cb = "http_version" =>
    IF last.cut THEN IF last.at.any THEN m_error = 1001 ELSE version = "1"
    ELSE m_error # 1001 /\ version = said

(* What a read that ends inside a header or the version does to it, and to  *)
(* nothing else (on_request_http_field, on_request_version).                *)
CutEffects == HeaderNameByCut /\ VersionRight

(* After the request line an empty line ends the headers or the request is  *)
(* refused, except inside a name: HTTP_CTL is the byte 0 and 127 only, so a *)
(* line without a colon swallows the line ends after it.                    *)
EmptyLineEnds ==
  [][cur = "none" /\ cur' = "LF" /\ bol /\ "http_version" \in events => cs' \in {0, 348} \/ cs = 14]_reqVars

(* uri_relaxed is never initialised. Whatever its value, a request that the *)
(* strict machine accepts is parsed in the same way: in every state that is *)
(* reached, a byte the strict machine has a transition for has the same     *)
(* transition in the relaxed one.                                           *)
RelaxedExtendsStrict ==
  phase = "execute" /\ cur = "none" => \A b \in Bytes : RequestMove(cs, b, FALSE).to # 0 => RequestMove(cs, b, TRUE) = RequestMove(cs, b, FALSE)

(* The callbacks come in the order of RequestProtocol, each part of the     *)
(* request line once, and done only for a complete request.                 *)
Protocol == INSTANCE RequestProtocol WITH
  got <- events \ {"done"},
  outcome <- IF cs = 0 THEN "failed" ELSE IF "done" \in events THEN "done" ELSE "open"
ImplementsProtocol == Protocol!ProtoSpec
=============================================================================
