------------------------------ MODULE MCServer ------------------------------
(* The accept side of a server, or a session with one client: which of the  *)
(* two is at work is chosen at the start.                                   *)
EXTENDS TcpServer, HttpSession

VARIABLE which

Request(len, ka) == [len |-> len, ka |-> ka]
MCWorkloads ==
  {<<Request(2, TRUE), Request(n, TRUE)>> : n \in {0, 2}}
  \cup {<<Request(0, TRUE), Request(2, FALSE)>>, <<Request(2, FALSE), Request(0, TRUE)>>}
MCThreads == 1..2
MCConns == <<2, 1>>

vars == <<which, tcpVars, httpVars>>
Init ==
  /\ TcpInit /\ HttpInit /\ which \in {"tcp", "http"}
  /\ which = "http" => threads = 1 /\ ~m_workers
  /\ which = "tcp" => requests = <<Request(2, TRUE), Request(0, TRUE)>> /\ ~pipelined /\ m_isKeepalive
  /\ which = "tcp" /\ threads > 1 => ~m_workers
Next ==
  /\ UNCHANGED which
  /\ \/ which = "tcp" /\ TcpNext /\ UNCHANGED httpVars
     \/ which = "http" /\ HttpNext /\ UNCHANGED tcpVars
Spec == Init /\ [][Next]_vars /\ TcpFairness /\ WF_httpVars(Server)

(* When calls, connections and requests come to an end, stop() has ended    *)
(* the accept loops, accepted clients are handled, and the requests of a    *)
(* client are answered, but for the cases the two parts name                *)
(* (tcp_server.cc:75, http_session.cc:11).                                  *)
ServerServes == AcceptEnds /\ RequestAnswered
=============================================================================
