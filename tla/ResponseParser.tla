--------------------------- MODULE ResponseParser --------------------------
(* HttpResponseParser::execute and its callbacks (http/http_parser.cc) over *)
(* httpclient_parser_execute (http/httpclient_parser.rl.cc): the head of a  *)
(* response, or with chunck set the size line of a chunk. As in             *)
(* RequestParser the input comes in pieces.                                 *)
EXTENDS ResponseMachine, ParserMarks

CONSTANT MaxRespReads

VARIABLES
  rcs,
  rphase,      \* "read", "execute", "break" after done, "over"
  rtodo, rcur, rprev,
  rmark, rfield_start,
  rfield_len,  \* "zero", "part", "full", or "other": the length of another header's name
  rerror,
  chunks_done,
  nonzero,     \* a digit other than 0 in the number from mark on
  revents,     \* the callbacks so far
  rlast,       \* the last callback at the current byte and what it received
  rreads,
  sizenonzero, \* a digit other than 0 in the whole number
  rsplit,      \* the tokens, still to be delivered, inside which a piece has ended
  rline,       \* where the input is: "first" line, "start" of a line, "name", "value"
  rbroken,     \* where in the current line a piece has ended: "no", "name", "colon"
  emptied      \* the last header line had an empty value

rregisters == <<rmark, rfield_start, rfield_len, nonzero>>
rresults == <<rerror, chunks_done, revents, rlast>>
rghosts == <<sizenonzero, rsplit, rline, rbroken, emptied>>
respVars == <<rcs, rphase, rtodo, rcur, rprev, rregisters, rresults, rreads, rghosts>>

RespDelim == {"SP", ":", ";", "=", "CR", "LF"}
RespCoarse(b) == IF b = "WS" THEN "SP" ELSE IF b \in RespDelim THEN b ELSE "x"
RespStrength(b) == CASE b \in {":", ";", "="} -> 1 [] b = "SP" -> 2 [] b \in {"CR", "LF"} -> 5 [] OTHER -> 0

(* The tokens the machine is inside of in state n, read off the grammar.    *)
InValue == {7, 23, 115, 117, 119} \cup 64..70 \cup 73..79 \cup 81..87 \cup 96..100
RespInside(n) ==
  IF n = 2 THEN {"chunk_size"} ELSE IF n \in 8..15 THEN {"http_version"} ELSE IF n = 17 THEN {"status_code"}
  ELSE IF n = 19 THEN {"reason_phrase"} ELSE IF n \in InValue THEN {"write_value", "write_content_len"} ELSE {}

RespNoCall == [cb |-> "none", at |-> Unset, cut |-> FALSE, name |-> "full"]
httpclient_parser_has_error == rcs = 0
httpclient_parser_is_finished == rcs = first_final
respHasError == rerror # 0 \/ httpclient_parser_has_error
respIsFinished == httpclient_parser_is_finished

(* httpclient_parser_init and the constructor of HttpResponseParser.        *)
RespInit ==
  /\ rcs = 1 /\ rphase = "read" /\ rtodo = <<>> /\ rcur = "none" /\ rprev = "none"
  /\ rmark = BufferStart /\ rfield_start = BufferStart /\ rfield_len = "zero" /\ nonzero = FALSE
  /\ rerror = 0 /\ chunks_done = FALSE /\ revents = {} /\ rlast = RespNoCall
  /\ rreads = 0 /\ sizenonzero = FALSE /\ rsplit = {} /\ rline = "first" /\ rbroken = "no" /\ emptied = FALSE

-----------------------------------------------------------------------------
(* Mutant: mark keeps its offset into the last buffer.                      *)
RespExecuteKeepsMark ==
  /\ rphase = "read" /\ rreads < MaxRespReads
  /\ rphase' = "execute" /\ rreads' = rreads + 1
  /\ rfield_start' = BufferStart /\ rfield_len' = "zero" /\ nonzero' = FALSE /\ rlast' = RespNoCall
  /\ UNCHANGED <<rmark, rcs, rtodo, rcur, rprev, rerror, chunks_done, revents, rghosts>>

RespExecute ==
  /\ rphase = "read" /\ rreads < MaxRespReads
  /\ rphase' = "execute" /\ rreads' = rreads + 1
  /\ rmark' = BufferStart /\ rfield_start' = BufferStart /\ rfield_len' = "zero" /\ nonzero' = FALSE
  /\ rlast' = RespNoCall
  /\ UNCHANGED <<rcs, rtodo, rcur, rprev, rerror, chunks_done, revents, rghosts>>

(* One byte. A digit of the size of a chunk may be 0 (z) or not.            *)
RespByte(b, z) ==
  /\ rphase = "execute" /\ rcur = "none" /\ rcs \notin {0, first_final}
  /\ z => rcs \in {1, 2} /\ b = "9"
  /\ LET m == Move(ResponseTable, rcs, b) IN rcs' = m.to /\ rtodo' = m.do
  /\ rcur' = RespCoarse(b)
  /\ LET digit == rcs \in {1, 2} /\ b \in RespHex /\ ~z
     IN nonzero' = (nonzero \/ digit) /\ sizenonzero' = (sizenonzero \/ digit)
  /\ rbroken' = IF rbroken = "name" /\ b \in {":", "=", ";", "CR", "LF"} /\ ~rfield_start.any THEN "colon" ELSE rbroken
  /\ UNCHANGED <<rphase, rprev, rmark, rfield_start, rfield_len, rresults, rreads, rsplit, rline, emptied>>

(* Where the next byte is: the lines of a response, the extensions of a     *)
(* chunk after ";".                                                         *)
LineAfter(b) ==
  CASE b = "LF" -> "start"
    [] b = ";" /\ rcs < 8 -> "start"
    [] b \in {":", "="} /\ rline = "name" -> "value"
    [] b = "SP" /\ rline = "start" -> "value"
    [] b = "x" /\ rline = "start" -> "name"
    [] OTHER -> rline
RespAdvance ==
  /\ rphase = "execute" /\ rcur # "none" /\ rtodo = <<>> /\ rcs # 0
  /\ rmark' = Pass(rmark, RespStrength(rcur)) /\ rfield_start' = Pass(rfield_start, RespStrength(rcur))
  /\ rprev' = rcur /\ rcur' = "none" /\ rlast' = RespNoCall /\ rline' = LineAfter(rcur)
  /\ UNCHANGED <<rcs, rphase, rtodo, rfield_len, nonzero, rerror, chunks_done, revents, rreads,
                 sizenonzero, rsplit, rbroken, emptied>>

(* The end of execute; a caller asks hasError and isFinished, and reads on. *)
RespReturn ==
  /\ rphase = "break" \/ (rphase = "execute" /\ rtodo = <<>> /\ (rcur = "none" \/ rcs = 0))
  /\ rphase' = IF respHasError \/ respIsFinished THEN "over" ELSE "read"
  /\ rsplit' = rsplit \cup RespInside(rcs)
  /\ rbroken' = CASE rline = "name" -> "name" [] rline \in {"value", "start"} -> "colon" [] OTHER -> rbroken
  /\ UNCHANGED <<rcs, rtodo, rcur, rprev, rregisters, rresults, rreads, sizenonzero, rline, emptied>>

-----------------------------------------------------------------------------
(* The actions of the grammar.                                              *)
RespRuns(a) == rphase = "execute" /\ rtodo # <<>> /\ Head(rtodo) = a /\ rtodo' = Tail(rtodo)
RespSame == UNCHANGED <<rcs, rphase, rcur, rprev, rreads, rline>>

RespMark ==
  /\ RespRuns("mark") /\ rmark' = MarkAt(rprev)
  /\ UNCHANGED <<rfield_start, rfield_len, nonzero, rresults, sizenonzero, rsplit, rbroken, emptied>> /\ RespSame
RespStartValue ==
  /\ RespRuns("start_value") /\ rmark' = MarkAt(rprev) /\ rsplit' = rsplit \ {"write_value", "write_content_len"}
  /\ UNCHANGED <<rfield_start, rfield_len, nonzero, rresults, sizenonzero, rbroken, emptied>> /\ RespSame
RespStartField ==
  /\ RespRuns("start_field") /\ rfield_start' = MarkAt(rprev) /\ rbroken' = "no"
  /\ rfield_len' = IF rfield_len = "zero" THEN "zero" ELSE "other"
  /\ UNCHANGED <<rmark, nonzero, rresults, sizenonzero, rsplit, emptied>> /\ RespSame
RespWriteField ==
  /\ RespRuns("write_field")
  /\ rfield_len' = IF ~rfield_start.any THEN "zero" ELSE IF Whole(rfield_start) THEN "full" ELSE "part"
  /\ UNCHANGED <<rmark, rfield_start, nonzero, rresults, rghosts>> /\ RespSame

RespReceives(cb, m, name) ==
  /\ rlast' = [cb |-> cb, at |-> m, cut |-> cb \in rsplit, name |-> name]
  /\ revents' = revents \cup {cb} /\ rsplit' = rsplit \ {cb}
  /\ UNCHANGED <<rfield_start, rfield_len, nonzero, sizenonzero, rbroken>> /\ RespSame

(* on_response_version, as for a request; the digits may be any.            *)
resp_http_version ==
  /\ RespRuns("http_version") /\ RespReceives("http_version", rmark, "full") /\ rmark' = Used
  /\ rerror' \in (IF ~rmark.any THEN {rerror} ELSE IF Whole(rmark) THEN {rerror, 1001} ELSE {1001})
  /\ UNCHANGED <<chunks_done, emptied>>
status_code ==
  RespRuns("status_code") /\ RespReceives("status_code", rmark, "full") /\ rmark' = Used /\ UNCHANGED <<rerror, chunks_done, emptied>>
reason_phrase ==
  RespRuns("reason_phrase") /\ RespReceives("reason_phrase", rmark, "full") /\ rmark' = Used /\ UNCHANGED <<rerror, chunks_done, emptied>>

(* strtol reads the number from mark on, whatever comes before it.          *)
chunk_size ==
  /\ RespRuns("chunk_size") /\ RespReceives("chunk_size", rmark, "full") /\ rmark' = Used
  /\ chunks_done' = ~nonzero /\ UNCHANGED <<rerror, emptied>>
write_content_len ==
  RespRuns("write_content_len") /\ RespReceives("write_content_len", rmark, "full") /\ UNCHANGED <<rmark, rerror, chunks_done, emptied>>
resp_write_value ==
  /\ RespRuns("write_value") /\ RespReceives("write_value", rmark, rfield_len) /\ rmark' = Used
  /\ emptied' = (rmark = MarkAt(rprev)) /\ UNCHANGED <<rerror, chunks_done>>

(* close and chunked of the parser.                                         *)
resp_flag ==
  /\ RespRuns("write_connection_close") \/ RespRuns("trans_chunked")
  /\ UNCHANGED <<rregisters, rresults, rghosts, rcs, rphase, rcur, rprev, rreads>>

(* fbreak: the byte is passed and execute leaves the machine.               *)
resp_done ==
  /\ RespRuns("done") /\ rphase' = "break" /\ rcur' = "none" /\ rprev' = rcur /\ rline' = "start"
  /\ revents' = revents \cup {"done"} /\ rlast' = RespNoCall
  /\ UNCHANGED <<rcs, rreads, rregisters, rerror, chunks_done, sizenonzero, rsplit, rbroken, emptied>>

RespAction ==
  \/ RespMark \/ RespStartValue \/ RespStartField \/ RespWriteField \/ resp_http_version \/ status_code \/ reason_phrase
  \/ chunk_size \/ write_content_len \/ resp_write_value \/ resp_flag \/ resp_done
RespNext ==
  RespExecute \/ (\E b \in RespBytes, z \in BOOLEAN : RespByte(b, z)) \/ RespAdvance \/ RespReturn \/ RespAction
RespSpec == RespInit /\ [][RespNext]_respVars

-----------------------------------------------------------------------------
(* As for a request: a callback receives the whole token exactly when no    *)
(* read ended inside it. For Content-Length and the status this is the      *)
(* number that strtol reads from mark on.                                   *)
RespTokenWholeUnlessCut == rlast.cb # "none" => (Whole(rlast.at) <=> ~rlast.cut)

(* A header is delivered under the name before its colon, a part of it, or  *)
(* not at all, by where a read ended in its line. The exception is a line   *)
(* without a colon that the machine takes for the value of the known header *)
(* before it: it is delivered with the length of that header's name.        *)
RespHeaderName ==
  rlast.cb = "write_value" =>
    \/ rlast.name = CASE rbroken = "no" -> "full" [] rbroken = "name" -> "part" [] rbroken = "colon" -> "zero"
    \/ rline = "name" /\ "chunk_size" \notin revents

(* The last chunk is announced (chunks_done) for a size other than 0 only   *)
(* when a read ended inside the number, never because of its digits or an   *)
(* extension.                                                               *)
LastChunkIsZero == rlast.cb = "chunk_size" => (chunks_done = ~sizenonzero) \/ rlast.cut

(* The tokens, the header names and the last chunk of a response are as     *)
(* sent, except for what a read that ends inside them does.                 *)
ResponseTokens == RespTokenWholeUnlessCut /\ RespHeaderName /\ LastChunkIsZero

(* When done has run (header_done was called), isFinished says so, except   *)
(* after a last header with an empty value: is_finished compares the state  *)
(* with first_final for equality (httpclient_parser.rl.cc:3336), and an     *)
(* empty Connection, Transfer-Encoding or Content-Length ends in another    *)
(* final state, from which the body is parsed as if it were header lines.   *)
DoneIsFinished == rphase = "break" => rcs \in RespFinal /\ (httpclient_parser_is_finished \/ emptied)
=============================================================================
