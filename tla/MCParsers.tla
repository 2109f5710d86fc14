----------------------------- MODULE MCParsers -----------------------------
(* The three generated parsers, one of them at work: which is chosen at the *)
(* start.                                                                   *)
EXTENDS RequestParser, ResponseParser, UriParser

VARIABLE which

vars == <<which, reqVars, respVars, uriVars>>
Init ==
  /\ ReqInit /\ RespInit /\ UriInit
  /\ which \in {"request", "response", "uri"} /\ (which # "request" => ~uri_relaxed)
Next ==
  /\ UNCHANGED which
  /\ \/ which = "request" /\ ReqNext /\ UNCHANGED <<respVars, uriVars>>
     \/ which = "response" /\ RespNext /\ UNCHANGED <<reqVars, uriVars>>
     \/ which = "uri" /\ UriNext /\ UNCHANGED <<reqVars, respVars>>
Spec == Init /\ [][Next]_vars
=============================================================================
