--------------------------- MODULE RequestProtocol -------------------------
(* What a user of http_parser may rely on, without the machine: the order   *)
(* in which the callbacks of one request come, however the request is cut   *)
(* into pieces. The abstract specification that RequestParser implements.   *)
EXTENDS FiniteSets

VARIABLES
  got,      \* the callbacks so far
  outcome   \* "open", "done", "failed"

ProtoInit == got = {} /\ outcome = "open"

Gives(cb) == outcome = "open" /\ got' = got \cup {cb} /\ UNCHANGED outcome
(* Each part of the request line comes once, after the part it follows. A   *)
(* socket message has a path and nothing else.                              *)
Once(cb, needs) == cb \notin got /\ needs \subseteq got /\ Gives(cb)
Method == got = {} /\ Gives("request_method")
PathPart == got \subseteq {"request_method"} /\ Gives("request_path")
QueryPart == "request_uri" \notin got /\ Once("query_string", {"request_method", "request_path"})
UriPart == Once("request_uri", {"request_method", "request_path"})
FragmentPart == "http_version" \notin got /\ Once("fragment", {"request_uri"})
Version == Once("http_version", {"request_uri"})
Header == "http_version" \in got /\ Gives("write_value")

Complete == got = {"request_path"} \/ "http_version" \in got
Finish == outcome = "open" /\ Complete /\ outcome' = "done" /\ UNCHANGED got
Fail == outcome = "open" /\ outcome' = "failed" /\ UNCHANGED got

ProtoNext ==
  Method \/ PathPart \/ QueryPart \/ UriPart \/ FragmentPart \/ Version \/ Header \/ Finish \/ Fail
ProtoSpec == ProtoInit /\ [][ProtoNext]_<<got, outcome>>
=============================================================================
