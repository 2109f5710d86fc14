---------------------------- MODULE HttpSession ----------------------------
(***************************************************************************)
(* HttpServer::handleClient (http/http_server.cc) with the session it runs *)
(* (http/http_session.cc) and the loops of Stream (stream.cc) under it,    *)
(* against one client.                                                     *)
(*                                                                         *)
(* Bytes are units: a line of a header is two, so that a read may end      *)
(* inside it, an empty line and a byte of a body are one.  What a read     *)
(* that ends inside a line does to it is TokenWholeUnlessCut and           *)
(* CutEffects of module RequestParser: the line is lost, or, for the       *)
(* request line, refused or taken for another path.                        *)
(***************************************************************************)
EXTENDS Naturals, Sequences, FiniteSetsExt

CONSTANTS
  Workloads,         \* sequences of requests [len : Nat, ka : BOOLEAN]
  RequestBuffer,     \* GetHttpRequestBufferSize(), in units
  MaxSegment,        \* bound: units the client sends at once
  ResponseUnits      \* the units of a response

ASSUME HttpAssumption ==
  /\ Workloads \subseteq Seq([len : Nat, ka : BOOLEAN])
  /\ RequestBuffer \in Nat \ {0} /\ ResponseUnits \in Nat

VARIABLES
  requests, pipelined,  \* the client: what it asks; whether without waiting for answers
  m_isKeepalive,
  sent, eof,         \* units sent; the client has closed its side
  answers,           \* responses the client has got
  taken,             \* units the server has read
  pos,               \* where handleClient is
  first,             \* the first unit of data
  begun,             \* the parser has seen the start of a request
  req,               \* the request in the parser: its number, what it has lost
  offset, left, body,
  handled,           \* the requests that were given to the dispatch
  harm               \* history: what went wrong with the delivery

clientVars == <<requests, pipelined, m_isKeepalive, sent, eof, answers>>
serverVars == <<taken, pos, first, begun, req, offset, left, body, handled>>
httpVars == <<clientVars, serverVars, harm>>

Close(k) == ~requests[k].ka \/ ~m_isKeepalive
UnitsOf(k, r) ==
  LET u == <<"line1", "line2">> \o (IF r.len > 0 THEN <<"len1", "len2">> ELSE <<>>)
           \o (IF r.ka THEN <<"ka1", "ka2">> ELSE <<>>) \o <<"end">> \o [i \in 1..r.len |-> "body"]
  IN  [i \in 1..Len(u) |-> [req |-> k, u |-> u[i]]]
FirstUnits(load, n) ==
  LET units[k \in 0..n] == IF k = 0 THEN <<>> ELSE units[k - 1] \o UnitsOf(k, load[k]) IN units[n]
Wires == [load \in Workloads |-> FirstUnits(load, Len(load))]
Lengths == [load \in Workloads |-> [n \in 0..Len(load) |-> Len(FirstUnits(load, n))]]

(* What the client would send, and where its k-th request ends.            *)
Wire == Wires[requests]
EndOf(k) == Lengths[requests][k]

NoReq == [k |-> 0, lost |-> {}]
HttpInit ==
  /\ requests \in Workloads /\ pipelined \in BOOLEAN /\ m_isKeepalive \in BOOLEAN
  /\ sent = 0 /\ eof = FALSE /\ answers = 0
  /\ taken = 0 /\ pos = "read" /\ first = 1 /\ begun = FALSE /\ req = NoReq
  /\ offset = 0 /\ left = 0 /\ body = <<>> /\ handled = <<>> /\ harm = {}

-----------------------------------------------------------------------------
(* The client: a request after the answer to the last, if there is to be   *)
(* one, or all of them.                                                    *)
MaySend ==
  IF pipelined THEN Len(Wire)
  ELSE IF answers < Len(requests) /\ (answers = 0 \/ ~Close(answers)) THEN EndOf(answers + 1) ELSE sent
Send(n) ==
  /\ pos # "closed" /\ ~eof /\ sent + n <= MaySend /\ sent' = sent + n
  /\ UNCHANGED <<requests, pipelined, m_isKeepalive, eof, answers, serverVars, harm>>
Leave ==
  /\ pos # "closed" /\ ~eof /\ eof' = TRUE
  /\ UNCHANGED <<requests, pipelined, m_isKeepalive, sent, answers, serverVars, harm>>

-----------------------------------------------------------------------------
(* SocketStream::read with room for n units.                               *)
Available == sent - taken
Data(n) == Min({Available, n})

(* A read that fails: the client has left, or the receive timeout of the   *)
(* client socket is over.                                                  *)
readFails ==
  /\ pos \in {"read", "body"} /\ Available = 0
  /\ pos' = "closed"
  /\ harm' = IF ~eof /\ sent < MaySend THEN harm \cup {"slow"} ELSE harm
  /\ UNCHANGED <<clientVars, taken, first, begun, req, offset, left, body, handled>>

(* recvRequest: the read into the buffer.  Whatever execute is given it    *)
(* parses to the end unless the request ends or fails, so that offset is 0 *)
(* here.                                                                   *)
read ==
  /\ pos = "read" /\ Available > 0
  /\ taken' = taken + Data(RequestBuffer) /\ first' = taken + 1 /\ pos' = "execute"
  /\ UNCHANGED <<clientVars, begun, req, offset, left, body, handled, harm>>

(* The end of a read inside a line.                                        *)
Cut(u) == CASE u = "line1" -> {"line"} [] u = "len1" -> {"len"} [] u = "ka1" -> {"ka"} [] OTHER -> {}
Ends == {i \in first..taken : Wire[i].u = "end"}
Parsing == IF begun THEN req ELSE [k |-> Wire[first].req, lost |-> {}]

(* execute fails: what comes is not the start of a request, or the request *)
(* line was cut.                                                           *)
executeFails ==
  /\ pos = "execute"
  /\ \/ ~begun /\ Wire[first].u # "line1"
     \/ begun /\ Wire[first].u = "line2"
  /\ pos' = "closed"
  /\ UNCHANGED <<clientVars, taken, first, begun, req, offset, left, body, handled, harm>>

Valid == pos = "execute" /\ (begun \/ Wire[first].u = "line1")
executeOpen ==
  /\ Valid /\ Ends = {} /\ pos' = "read" /\ begun' = TRUE
  /\ req' = [Parsing EXCEPT !.lost = @ \cup Cut(Wire[taken].u)]
  /\ harm' = harm \cup (IF Cut(Wire[taken].u) # {} THEN {"cut"} ELSE {})
  /\ UNCHANGED <<clientVars, taken, first, offset, left, body, handled>>

(* getContentLength: 0 without the header.                                 *)
Length(r) == IF "len" \in r.lost THEN 0 ELSE requests[r.k].len

(* The header is complete.  A body that has come with it as a whole is     *)
(* copied; of another the part that has come is copied, and then as much   *)
(* as the WHOLE body is read behind it.  What else has come is lost with   *)
(* the buffer.                                                             *)
executeDone ==
  /\ Valid /\ Ends # {}
  /\ LET end == Min(Ends)   n == taken - end   len == Length(Parsing) IN
     /\ req' = Parsing /\ begun' = FALSE /\ offset' = n
     /\ body' = SubSeq(Wire, end + 1, end + Min({n, len}))
     /\ pos' = IF len > n THEN "body" ELSE "handle"
     /\ left' = IF len > n THEN len ELSE 0
     /\ harm' = harm \cup (IF n > len THEN {"leftover"} ELSE {}) \cup (IF 0 < n /\ n < len THEN {"straddled"} ELSE {})
  /\ UNCHANGED <<clientVars, taken, first, handled>>

(* Mutant: a short read ends readFixSize.                                  *)
readFixSizeOnce ==
  /\ pos = "body" /\ Available > 0
  /\ LET n == Data(left) IN
     /\ taken' = taken + n /\ body' = body \o SubSeq(Wire, taken + 1, taken + n)
     /\ left' = 0 /\ pos' = "handle"
  /\ UNCHANGED <<clientVars, first, begun, req, offset, handled, harm>>

(* Stream::readFixSize.                                                    *)
readFixSize ==
  /\ pos = "body" /\ Available > 0
  /\ LET n == Data(left) IN
     /\ taken' = taken + n /\ body' = body \o SubSeq(Wire, taken + 1, taken + n)
     /\ left' = left - n /\ pos' = IF n = left THEN "handle" ELSE "body"
  /\ UNCHANGED <<clientVars, first, begun, req, offset, handled, harm>>

-----------------------------------------------------------------------------
(* HttpRequest::init: a request is to be closed unless it says keep-alive. *)
isClose(r) == "ka" \in r.lost \/ ~requests[r.k].ka

(* The dispatch, and the response that is to be written.                   *)
handle ==
  /\ pos = "handle" /\ pos' = "write" /\ left' = ResponseUnits
  /\ handled' = Append(handled, [k |-> req.k, lost |-> req.lost, body |-> body])
  /\ UNCHANGED <<clientVars, taken, first, begun, req, offset, body, harm>>

(* After the response, whether it was written or not.                      *)
Next_ == IF ~m_isKeepalive \/ isClose(req) THEN "closed" ELSE "read"

(* Stream::writeFixSize: the kernel takes n units ...                      *)
writeFixSize(n) ==
  /\ pos = "write" /\ n <= left /\ left' = left - n
  /\ pos' = IF n = left THEN Next_ ELSE "write"
  /\ answers' = IF n = left /\ ~eof THEN answers + 1 ELSE answers
  /\ offset' = 0 /\ body' = <<>>
  /\ UNCHANGED <<requests, pipelined, m_isKeepalive, sent, eof, taken, first, begun, req, handled, harm>>

(* ... or refuses; handleClient does not look at the result.               *)
writeFails ==
  /\ pos = "write" /\ eof /\ pos' = Next_ /\ left' = 0 /\ offset' = 0 /\ body' = <<>>
  /\ UNCHANGED <<clientVars, taken, first, begun, req, handled, harm>>

Server ==
  \/ read \/ executeFails \/ executeOpen \/ executeDone \/ readFixSize \/ handle
  \/ writeFails \/ \E n \in 1..ResponseUnits : writeFixSize(n)
HttpNext == Server \/ readFails \/ Leave \/ \E n \in 1..MaxSegment : Send(n)
HttpSpec == HttpInit /\ [][HttpNext]_httpVars /\ WF_httpVars(Server)
-----------------------------------------------------------------------------
HttpTypeOK ==
  /\ sent \in 0..Len(Wire) /\ taken \in 0..sent /\ answers \in 0..Len(requests)
  /\ pos \in {"read", "execute", "body", "handle", "write", "closed"}
  /\ req.k \in 0..Len(requests) /\ req.lost \subseteq {"line", "len", "ka"}
  /\ harm \subseteq {"slow", "cut", "leftover", "straddled"}

(* The body of a request that has kept its length is the body the client   *)
(* sent, however the reads cut it.  recvRequest writes past its end, by    *)
(* the part that had come with the header, exactly when a part had         *)
(* (readFixSize gets the whole length again).                              *)
Straddled(len) == 0 < offset /\ offset < len
BodyRight ==
  pos = "handle" =>
    LET len == Length(req) IN
    /\ Len(body) = IF Straddled(len) THEN len + offset ELSE len
    /\ SubSeq(body, 1, len) = [i \in 1..len |-> [req |-> req.k, u |-> "body"]]

(* recvRequest begins at the start of a request unless an earlier one has  *)
(* left its buffer behind, has read past its body, or has lost its length. *)
Misread == {"leftover", "straddled"}
StartAligned ==
  pos = "read" /\ ~begun => taken = Len(Wire) \/ Wire[taken + 1].u = "line1" \/ harm \cap (Misread \cup {"cut"}) # {}

(* The i-th response belongs to the i-th request, which the client needs,  *)
(* as responses carry no number; a request is skipped only when a buffer   *)
(* with its bytes was dropped or they were read as a body.                 *)
InOrder ==
  /\ \A i \in 1..Len(handled) : handled[i].k = i \/ harm \cap Misread # {}
  /\ ~eof => answers = Len(handled) - (IF pos = "write" THEN 1 ELSE 0)

(* What the session reads and answers: see its four parts.                 *)
SessionSound == HttpTypeOK /\ BodyRight /\ StartAligned /\ InOrder

(* Every request that the client has sent is answered, up to the one after *)
(* which the connection is closed, unless the client leaves or is slower   *)
(* than the receive timeout, a read ended inside a header line, a buffer   *)
(* with more than the request was dropped, or a part of a body came with   *)
(* its header: then the server waits for more than the body and the client *)
(* for the answer, until the timeout.                                      *)
Complete == {k \in 1..Len(requests) : EndOf(k) <= sent /\ \A j \in 1..(k - 1) : ~Close(j)}
RequestAnswered == <>[](harm = {} /\ ~eof => answers >= Cardinality(Complete))
=============================================================================
