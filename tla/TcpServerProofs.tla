-------------------------- MODULE TcpServerProofs --------------------------
(* The invariant of the accept side of a server (module TcpServer), and the *)
(* proof that AcceptSound holds.                                            *)
EXTENDS TcpServer, Integers, TLAPS

-----------------------------------------------------------------------------
(* The labels of the fibers of each kind.                                  *)
LoopRuns == {"test", "accept", "try", "direct", "add"}
StopRuns == {"cancelAll", "close", "close_f"}
Runs == LoopRuns \cup StopRuns \cup {"handle"}
LoopLabels == LoopRuns \cup {"none", "queued", "hold", "end"}
StopLabels == StopRuns \cup {"none", "queued", "end"}
ClientLabels == {"none", "queued", "handle", "end"}
Labels == LoopLabels \cup StopLabels \cup ClientLabels

(* The types of the variables, and which labels a kind of fiber has.       *)
CallTypes ==
  /\ threads \in Threads /\ calls \in 0..MaxCalls /\ made \in 0..MaxSocks /\ m_socks \in Seq(1..made)
  /\ m_isStop \in BOOLEAN /\ overlap \in BOOLEAN /\ aborted \in BOOLEAN
SockTypes ==
  /\ open \subseteq 1..made /\ hooked \subseteq open /\ listening \subseteq 1..made
  /\ waiting \in [Socks -> Loops \cup {None}]
ConnTypes ==
  /\ conns \in 0..MaxConns[threads] /\ backlog \in [Socks -> SUBSET (1..conns)] /\ pool \subseteq Clients
FiberTypes ==
  /\ m_fibers \in Seq(Fibers) /\ on \in [Threads -> Fibers \cup {None}]
  /\ pc \in [Fibers -> Labels] /\ at \in [Fibers -> Nat]
  /\ \A f \in Loops : pc[f] \in LoopLabels
  /\ \A f \in Stops : pc[f] \in StopLabels
  /\ \A f \in Clients : pc[f] \in ClientLabels
Types == CallTypes /\ SockTypes /\ ConnTypes /\ FiberTypes

(* A fiber is on a thread, in the queue, at a socket, with another worker  *)
(* or nowhere, as its label says.                                          *)
Distinct(q) == \A i, j \in 1..Len(q) : q[i] = q[j] => i = j
QueueOnce == Distinct(m_fibers)
InQueue == \A f \in Elems(m_fibers) : pc[f] \in {"queued", "hold"}
AtSocket == \A s \in Socks : waiting[s] # None =>
              pc[waiting[s]] = "hold" /\ at[waiting[s]] = s /\ waiting[s] \notin Elems(m_fibers)
HoldReached == \A f \in Loops : pc[f] = "hold" => at[f] \in Socks /\ (f \in Elems(m_fibers) \/ waiting[at[f]] = f)
OnThread == \A t \in Threads : on[t] # None => t <= threads /\ pc[on[t]] \in Runs
OneThread == \A t, u \in Threads : on[t] # None /\ on[t] = on[u] => t = u
RunsOn == \A f \in Fibers : pc[f] \in Runs => \E t \in Threads : on[t] = f
InPool == \A f \in pool : pc[f] = "queued" /\ f \notin Elems(m_fibers)
Places == QueueOnce /\ InQueue /\ AtSocket /\ HoldReached /\ OnThread /\ OneThread /\ RunsOn /\ InPool

(* What is not used yet: the loops behind some number, the tasks behind    *)
(* the number of calls, and the clients that are in a backlog or to come.  *)
FreshLoops == \E k \in 0..MaxLoops : Started(k)
FreshStops == \A f \in Stops : f.id > calls => pc[f] = "none"
FreshClients ==
  /\ \A f \in Clients : f.id > conns \/ (\E s \in Socks : f.id \in backlog[s]) => pc[f] = "none"
  /\ \A s, r \in Socks : s # r => backlog[s] \cap backlog[r] = {}
Fresh == FreshLoops /\ FreshStops /\ FreshClients

(* A task of stop() has closed what is before it in m_socks; between its   *)
(* close and close_f the socket has no context and, with one thread, no    *)
(* loop waits there.                                                       *)
Walk(f) ==
  /\ at[f] >= 1 /\ \A i \in 1..Len(m_socks) : i < at[f] => m_socks[i] \notin open
  /\ ~aborted /\ pc[f] \in {"close", "close_f"} => at[f] <= Len(m_socks)
  /\ ~aborted /\ pc[f] = "close_f" =>
       Sock(f) \notin hooked /\ (threads = 1 => waiting[Sock(f)] = None)
Walks == \A f \in Stops : pc[f] \in StopRuns => Walk(f)

(* The sockets.                                                            *)
LoopSocks == \A f \in Loops : Live(f) => at[f] \in 1..made
SocksOnce == Distinct(m_socks)
WaitOpen == \A s \in Socks : waiting[s] # None /\ s \notin open => threads > 1

(* Without an overlap one task of stop() is there at a time, and start()   *)
(* comes when nothing of the last round is left.                           *)
NoOverlap ==
  ~overlap =>
    /\ StopPending => m_isStop
    /\ \A f, g \in Stops : Live(f) /\ Live(g) => f = g
    /\ \A f, g \in Loops : Live(f) /\ Live(g) /\ at[f] = at[g] => f = g

Rounds == Walks /\ LoopSocks /\ SocksOnce /\ WaitOpen /\ NoOverlap /\ SocksOpen /\ LoopsOnOpen

TcpInv == Types /\ Places /\ Fresh /\ Rounds


-----------------------------------------------------------------------------
(* The three kinds of fibers are different, and None is none of them.      *)
LEMMA Kinds ==
  /\ Fibers = Loops \cup Stops \cup Clients
  /\ \A f \in Loops : f \notin Stops /\ f \notin Clients /\ f.kind = "accept" /\ f.id \in 1..MaxLoops
  /\ \A f \in Stops : f \notin Clients /\ f.kind = "stop" /\ f.id \in 1..MaxCalls
  /\ \A f \in Clients : f.kind = "client" /\ f.id \in Nat \ {0}
  /\ None \notin Fibers
<1>1. \A f \in Clients : f.kind = "client" /\ f.id \in Nat \ {0}
  BY TcpAssumption DEF Clients
<1> QED
  BY Zenon, <1>1, TcpAssumption DEF Fibers, Loops, Stops, Clients

(* Scheduler::schedule puts a fiber that is not in the queue behind the    *)
(* others (scheduler.h), and run() takes the first.                        *)
LEMMA QueueGrows ==
  ASSUME m_fibers \in Seq(Fibers), QueueOnce, NEW f \in Fibers, f \notin Elems(m_fibers),
         m_fibers' = Append(m_fibers, f)
  PROVE  m_fibers' \in Seq(Fibers) /\ QueueOnce' /\ Elems(m_fibers') = Elems(m_fibers) \cup {f}
BY DEF QueueOnce, Distinct, Elems

LEMMA QueueShrinks ==
  ASSUME m_fibers \in Seq(Fibers), QueueOnce, m_fibers # <<>>, m_fibers' = Tail(m_fibers)
  PROVE  /\ Head(m_fibers) \in Fibers /\ Head(m_fibers) \in Elems(m_fibers)
         /\ m_fibers' \in Seq(Fibers) /\ QueueOnce' /\ Elems(m_fibers') = Elems(m_fibers) \ {Head(m_fibers)}
<1>1. /\ m_fibers' \in Seq(Fibers) /\ Len(m_fibers') = Len(m_fibers) - 1 /\ Len(m_fibers) \in Nat \ {0}
      /\ \A i \in 1..Len(m_fibers') : m_fibers'[i] = m_fibers[i + 1]
      /\ Head(m_fibers) = m_fibers[1] /\ m_fibers[1] \in Fibers
  OBVIOUS
<1>2. QueueOnce'
  BY <1>1 DEF QueueOnce, Distinct
<1>3. ASSUME NEW x PROVE x \in Elems(m_fibers') => x \in Elems(m_fibers) \ {m_fibers[1]}
  BY <1>1 DEF QueueOnce, Distinct, Elems
<1>4. ASSUME NEW i \in 1..Len(m_fibers), i # 1 PROVE m_fibers[i] \in Elems(m_fibers')
  <2>1. i - 1 \in 1..Len(m_fibers') /\ m_fibers'[i - 1] = m_fibers[i]
    BY <1>1, <1>4
  <2> QED
    BY ZenonT(60), <2>1 DEF Elems
<1>5. ASSUME NEW x \in Elems(m_fibers), x # m_fibers[1] PROVE x \in Elems(m_fibers')
  BY Zenon, <1>4, <1>5 DEF Elems
<1>6. m_fibers[1] \in Elems(m_fibers)
  BY <1>1 DEF Elems
<1> QED
  BY Zenon, <1>1, <1>2, <1>3, <1>5, <1>6

(* What is in a sequence, and numbers behind others.                       *)
LEMMA Behind ==
  ASSUME NEW k \in Nat, NEW n \in Nat, NEW i \in 1..n
  PROVE  (k + i) - k = i /\ k + i > k /\ k + i <= k + n /\ k + i \in Nat
OBVIOUS

LEMMA Items ==
  ASSUME NEW S, NEW q \in Seq(S)
  PROVE  \A x \in Elems(q) : x \in S
BY DEF Elems

LEMMA NoItems ==
  ASSUME NEW S
  PROVE  <<>> \in Seq(S) /\ Distinct(<<>>) /\ Elems(<<>>) = {}
BY DEF Distinct, Elems

(* One sequence behind another: bind() and start() make longer ones.       *)
Joined(p, q, r) ==
  \E n, m \in Nat :
    /\ n = Len(p) /\ m = Len(q) /\ Len(r) = n + m
    /\ \A i \in 1..n : r[i] = p[i]
    /\ \A i \in 1..m : r[n + i] = q[i]
    /\ \A i \in 1..n, j \in 1..m : p[i] # q[j]
LEMMA TwoParts ==
  ASSUME NEW p, NEW q, NEW r, Distinct(p), Distinct(q), Joined(p, q, r)
  PROVE  Distinct(r) /\ Elems(r) = Elems(p) \cup Elems(q)
<1> SUFFICES ASSUME NEW n \in Nat, NEW m \in Nat, n = Len(p), m = Len(q), Len(r) = n + m,
                    \A i \in 1..n : r[i] = p[i],
                    \A i \in 1..m : r[n + i] = q[i],
                    \A i \in 1..n, j \in 1..m : p[i] # q[j]
             PROVE  Distinct(r) /\ Elems(r) = Elems(p) \cup Elems(q)
  BY Zenon DEF Joined
<1>1. ASSUME NEW i \in 1..Len(r)
      PROVE  \/ i \in 1..n /\ r[i] = p[i]
             \/ i - n \in 1..m /\ r[i] = q[i - n]
  <2>1. CASE i <= n
    BY <2>1
  <2>2. CASE i > n
    <3>1. i - n \in 1..m /\ n + (i - n) = i
      BY <2>2
    <3> QED
      BY Zenon, <3>1
  <2> QED
    BY <2>1, <2>2
<1>2. Elems(r) \subseteq Elems(p) \cup Elems(q)
  BY <1>1 DEF Elems
<1>3. Elems(q) \subseteq Elems(r)
  <2>1. \A i \in 1..m : n + i \in 1..Len(r)
    OBVIOUS
  <2> QED
    BY <2>1 DEF Elems
<1>4. Elems(p) \subseteq Elems(r)
  <2>1. \A i \in 1..n : i \in 1..Len(r)
    OBVIOUS
  <2> QED
    BY <2>1 DEF Elems
<1>5. ASSUME NEW i \in 1..Len(r), NEW j \in 1..Len(r), r[i] = r[j]
      PROVE  i = j
  <2>1. CASE i \in 1..n /\ r[i] = p[i]
    <3>1. j - n \in 1..m => p[i] # q[j - n]
      BY Zenon, <2>1
    <3>2. j \in 1..n /\ r[j] = p[j]
      BY Zenon, <1>1, <1>5, <2>1, <3>1
    <3>3. p[i] = p[j]
      BY Zenon, <1>5, <2>1, <3>2
    <3>4. \A k, l \in 1..n : p[k] = p[l] => k = l
      BY Zenon DEF Distinct
    <3> QED
      BY Zenon, <2>1, <3>2, <3>3, <3>4
  <2>2. CASE i - n \in 1..m /\ r[i] = q[i - n]
    <3>1. j \in 1..n => p[j] # q[i - n]
      BY Zenon, <2>2
    <3>2. j - n \in 1..m /\ r[j] = q[j - n]
      BY Zenon, <1>1, <1>5, <2>2, <3>1
    <3>3. q[i - n] = q[j - n] => i - n = j - n
      BY Zenon, <2>2, <3>2 DEF Distinct
    <3>4. i \in Int /\ j \in Int
      OBVIOUS
    <3>5. i - n = j - n
      BY Zenon, <1>5, <2>2, <3>2, <3>3
    <3> QED
      BY <3>4, <3>5
  <2> QED
    BY Zenon, <1>1, <2>1, <2>2
<1>6. Distinct(r)
  BY Zenon, <1>5 DEF Distinct
<1> QED
  BY Zenon, <1>2, <1>3, <1>4, <1>6

LEMMA Concat ==
  ASSUME NEW S, NEW p \in Seq(S), NEW q \in Seq(S),
         \A i \in 1..Len(p), j \in 1..Len(q) : p[i] # q[j]
  PROVE  p \o q \in Seq(S) /\ Joined(p, q, p \o q)
<1>1. p \o q \in Seq(S) /\ Len(p \o q) = Len(p) + Len(q) /\ Len(p) \in Nat /\ Len(q) \in Nat
  OBVIOUS
<1>2. \A i \in 1..Len(p) : (p \o q)[i] = p[i]
  OBVIOUS
<1>3. \A i \in 1..Len(q) : (p \o q)[Len(p) + i] = q[i]
  OBVIOUS
<1> QED
  BY Zenon, <1>1, <1>2, <1>3 DEF Joined

(* start() puts the loops of a sequence behind the others.                 *)
LEMMA QueueConcat ==
  ASSUME m_fibers \in Seq(Fibers), QueueOnce, NEW q \in Seq(Fibers), m_fibers' = m_fibers \o q, Distinct(q),
         \A i \in 1..Len(m_fibers), j \in 1..Len(q) : m_fibers[i] # q[j]
  PROVE  m_fibers' \in Seq(Fibers) /\ QueueOnce' /\ Elems(m_fibers') = Elems(m_fibers) \cup Elems(q)
<1>1. m_fibers \o q \in Seq(Fibers) /\ Joined(m_fibers, q, m_fibers \o q)
  BY Zenon, Concat
<1>2. Distinct(m_fibers \o q) /\ Elems(m_fibers \o q) = Elems(m_fibers) \cup Elems(q)
  BY Zenon, <1>1, TwoParts DEF QueueOnce
<1> QED
  BY Zenon, <1>1, <1>2 DEF QueueOnce

-----------------------------------------------------------------------------
(* triggerEvent (iomanager.cc:33): the loop at the socket, if there is     *)
(* one, goes from there to the end of the queue.                           *)
LEMMA Triggered ==
  ASSUME Types, Places, NEW s \in Socks, trigger(s)
  PROVE  /\ m_fibers' \in Seq(Fibers) /\ QueueOnce' /\ waiting' \in [Socks -> Loops \cup {None}]
         /\ \A r \in Socks : waiting'[r] = IF r = s THEN None ELSE waiting[r]
         /\ \/ waiting[s] = None /\ Elems(m_fibers') = Elems(m_fibers)
            \/ /\ waiting[s] \in Loops /\ pc[waiting[s]] = "hold" /\ at[waiting[s]] = s
               /\ waiting[s] \notin Elems(m_fibers) /\ Elems(m_fibers') = Elems(m_fibers) \cup {waiting[s]}
<1>1. waiting' \in [Socks -> Loops \cup {None}] /\ \A r \in Socks : waiting'[r] = IF r = s THEN None ELSE waiting[r]
  BY Zenon DEF Types, SockTypes, trigger
<1>2. CASE waiting[s] = None
  BY Zenon, <1>1, <1>2 DEF Types, FiberTypes, trigger, Places, QueueOnce
<1>3. CASE waiting[s] # None
  <2>1. /\ waiting[s] \in Loops /\ pc[waiting[s]] = "hold" /\ at[waiting[s]] = s
        /\ waiting[s] \notin Elems(m_fibers) /\ waiting[s] \in Fibers
    BY ZenonT(60), <1>3, Kinds DEF Types, SockTypes, Places, AtSocket
  <2>2. m_fibers' = Append(m_fibers, waiting[s])
    BY Zenon, <1>3 DEF trigger
  <2>3. m_fibers' \in Seq(Fibers) /\ QueueOnce' /\ Elems(m_fibers') = Elems(m_fibers) \cup {waiting[s]}
    BY Zenon, <2>1, <2>2, QueueGrows DEF Types, FiberTypes, Places
  <2> QED
    BY Zenon, <1>1, <2>1, <2>3
<1> QED
  BY Zenon, <1>2, <1>3

(* A fiber that goes on keeps its thread, and a trigger moves only the     *)
(* loop that waits.                                                        *)
LEMMA PlacesMove ==
  ASSUME Types, Places, (\E s \in Socks : trigger(s)) \/ UNCHANGED <<waiting, m_fibers>>,
         UNCHANGED <<on, pool, threads>>,
         \A g \in Fibers : pc'[g] = pc[g] \/ (pc[g] \in Runs /\ pc'[g] \in Runs),
         \A g \in Loops : at'[g] = at[g]
  PROVE  Places' /\ m_fibers' \in Seq(Fibers) /\ waiting' \in [Socks -> Loops \cup {None}]
<1>1. /\ m_fibers' \in Seq(Fibers) /\ QueueOnce' /\ waiting' \in [Socks -> Loops \cup {None}]
      /\ \A r \in Socks : waiting'[r] = None \/ waiting'[r] = waiting[r]
      /\ \A g \in Elems(m_fibers') :
           \/ g \in Elems(m_fibers)
           \/ g \in Loops /\ pc[g] = "hold" /\ at[g] \in Socks /\ waiting'[at[g]] = None
      /\ \A g \in Elems(m_fibers) : g \in Elems(m_fibers')
      /\ \A r \in Socks : waiting[r] # None => waiting'[r] = waiting[r] \/ waiting[r] \in Elems(m_fibers')
  <2>1. CASE \E s \in Socks : trigger(s)
    <3> PICK s \in Socks : trigger(s)
      BY Zenon, <2>1
    <3>1. /\ m_fibers' \in Seq(Fibers) /\ QueueOnce' /\ waiting' \in [Socks -> Loops \cup {None}]
          /\ \A r \in Socks : waiting'[r] = IF r = s THEN None ELSE waiting[r]
          /\ \/ waiting[s] = None /\ Elems(m_fibers') = Elems(m_fibers)
             \/ /\ waiting[s] \in Loops /\ pc[waiting[s]] = "hold" /\ at[waiting[s]] = s
                /\ waiting[s] \notin Elems(m_fibers) /\ Elems(m_fibers') = Elems(m_fibers) \cup {waiting[s]}
      BY Zenon, Triggered
    <3> QED
      BY Zenon, <3>1
  <2>2. CASE UNCHANGED <<waiting, m_fibers>>
    BY Zenon, <2>2 DEF Types, FiberTypes, SockTypes, Places, QueueOnce
  <2> QED
    BY Zenon, <2>1, <2>2
<1>2. Elems(m_fibers) \subseteq Fibers /\ Elems(m_fibers') \subseteq Fibers
  BY <1>1 DEF Types, FiberTypes, Elems
<1>3. InQueue'
  BY ZenonT(60), <1>1, <1>2, Kinds DEF Places, InQueue, Runs, LoopRuns, StopRuns
<1>4. AtSocket'
  <2> SUFFICES ASSUME NEW r \in Socks, waiting'[r] # None
               PROVE  pc'[waiting'[r]] = "hold" /\ at'[waiting'[r]] = r /\ waiting'[r] \notin Elems(m_fibers')
    BY Zenon DEF AtSocket
  <2>1. /\ waiting'[r] = waiting[r] /\ waiting[r] \in Loops /\ waiting[r] \in Fibers
        /\ pc[waiting[r]] = "hold" /\ at[waiting[r]] = r /\ waiting[r] \notin Elems(m_fibers)
    BY <1>1, Kinds DEF Places, AtSocket, Types, SockTypes
  <2>2. pc'[waiting[r]] = "hold" /\ at'[waiting[r]] = r
    BY Zenon, <2>1 DEF Runs, LoopRuns, StopRuns
  <2>3. waiting[r] \notin Elems(m_fibers')
    BY Zenon, <1>1, <2>1
  <2> QED
    BY Zenon, <2>1, <2>2, <2>3
<1>5. HoldReached'
  <2> SUFFICES ASSUME NEW g \in Loops, pc'[g] = "hold"
               PROVE  at'[g] \in Socks /\ (g \in Elems(m_fibers') \/ waiting'[at'[g]] = g)
    BY Zenon DEF HoldReached
  <2>1. pc[g] = "hold" /\ at'[g] = at[g] /\ g # None
    BY Zenon, Kinds DEF Runs, LoopRuns, StopRuns
  <2>2. at[g] \in Socks /\ (g \in Elems(m_fibers) \/ waiting[at[g]] = g)
    BY Zenon, <2>1 DEF Places, HoldReached
  <2> QED
    BY Zenon, <1>1, <2>1, <2>2
<1>6. OnThread' /\ RunsOn'
  BY ZenonT(60), Kinds DEF Places, OnThread, RunsOn, Types, FiberTypes
<1>7. OneThread'
  BY Zenon DEF Places, OneThread
<1>8. InPool'
  <2> SUFFICES ASSUME NEW g \in pool
               PROVE  pc'[g] = "queued" /\ g \notin Elems(m_fibers')
    BY Zenon DEF InPool
  <2>1. g \in Clients /\ g \in Fibers /\ pc[g] = "queued" /\ g \notin Elems(m_fibers) /\ g \notin Loops
    BY Zenon, Kinds DEF Types, ConnTypes, Places, InPool
  <2> QED
    BY Zenon, <1>1, <2>1 DEF Runs, LoopRuns, StopRuns
<1> QED
  BY Zenon, <1>1, <1>3, <1>4, <1>5, <1>6, <1>7, <1>8 DEF Places


(* What no loop and no task of stop() begins or ends, and what closes no   *)
(* socket, leaves the rounds of start() and stop() as they are.            *)
LEMMA RoundsStay ==
  ASSUME Types, Rounds, UNCHANGED <<threads, m_isStop, m_socks, made, overlap, open, aborted>>, hooked' \subseteq hooked,
         \A s \in Socks : waiting'[s] = waiting[s] \/ waiting'[s] = None,
         \A g \in Loops : at'[g] = at[g] /\ (Live(g)' <=> Live(g)),
         \A g \in Stops : /\ Live(g)' <=> Live(g)
                          /\ (at'[g] = at[g] /\ pc'[g] = pc[g]) \/ (pc'[g] \in StopRuns => Walk(g)')
  PROVE  Rounds'
<1>1. StopPending' <=> StopPending
  BY Zenon DEF StopPending
<1>2. \A s : Held(s)' <=> Held(s)
  BY Zenon DEF Held
<1>3. Walks'
  <2> SUFFICES ASSUME NEW f \in Stops, pc'[f] \in StopRuns, at'[f] = at[f], pc'[f] = pc[f] PROVE Walk(f)'
    BY Zenon DEF Walks
  <2>1. Walk(f) /\ Sock(f)' = Sock(f) /\ pc'[f] = pc[f] /\ at'[f] = at[f]
    BY Zenon DEF Rounds, Walks, Sock
  <2>2. ~aborted /\ pc[f] = "close_f" => Sock(f) \in Socks
    <3>1. at[f] \in Nat /\ made \in 0..MaxSocks /\ MaxSocks \in Nat /\ m_socks \in Seq(1..made)
      BY Zenon, Kinds, TcpAssumption DEF Types, CallTypes, FiberTypes
    <3>2. ~aborted /\ pc[f] = "close_f" => at[f] \in 1..Len(m_socks)
      BY <2>1, <3>1 DEF Walk
    <3> QED
      BY <3>1, <3>2 DEF Sock, Socks
  <2>3. ~aborted /\ pc[f] = "close_f" => Sock(f) \notin hooked' /\ (threads = 1 => waiting'[Sock(f)] = None)
    BY Zenon, <2>1, <2>2 DEF Walk
  <2>4. at[f] >= 1 /\ \A i \in 1..Len(m_socks) : i < at[f] => m_socks[i] \notin open
    BY Zenon, <2>1 DEF Walk
  <2>5. ~aborted /\ pc[f] \in {"close", "close_f"} => at[f] <= Len(m_socks)
    BY Zenon, <2>1 DEF Walk
  <2> QED
    BY Zenon, <2>1, <2>3, <2>4, <2>5 DEF Walk
<1>4. LoopSocks'
  BY Zenon DEF Rounds, LoopSocks
<1>5. SocksOnce' /\ WaitOpen'
  BY Zenon DEF Rounds, SocksOnce, WaitOpen
<1>6. NoOverlap'
  BY Zenon, <1>1 DEF Rounds, NoOverlap
<1>7. SocksOpen'
  BY Zenon, <1>1, <1>2 DEF Rounds, SocksOpen
<1>8. LoopsOnOpen'
  BY Zenon DEF Rounds, LoopsOnOpen
<1> QED
  BY Zenon, <1>3, <1>4, <1>5, <1>6, <1>7, <1>8 DEF Rounds

(* A step that begins no fiber and takes no number keeps the fresh ones.   *)
LEMMA FreshStays ==
  ASSUME Types, Fresh, calls' \in Nat, calls' >= calls, conns' = conns,
         \A g \in Fibers : pc'[g] = "none" <=> pc[g] = "none",
         \A s \in Socks : backlog'[s] \subseteq backlog[s]
  PROVE  Fresh'
<1>1. FreshLoops'
  BY Zenon, Kinds DEF Fresh, FreshLoops, Started
<1>2. FreshStops'
  BY Kinds DEF Fresh, FreshStops, Types, CallTypes
<1>3. FreshClients'
  <2>1. ASSUME NEW f \in Clients, f.id > conns' \/ (\E s \in Socks : f.id \in backlog'[s]) PROVE pc'[f] = "none"
    BY Zenon, <2>1, Kinds DEF Fresh, FreshClients
  <2>2. ASSUME NEW s \in Socks, NEW r \in Socks, s # r PROVE backlog'[s] \cap backlog'[r] = {}
    BY Zenon, <2>2 DEF Fresh, FreshClients
  <2> QED
    BY Zenon, <2>1, <2>2 DEF FreshClients
<1> QED
  BY Zenon, <1>1, <1>2, <1>3 DEF Fresh

-----------------------------------------------------------------------------
(* What a thread runs is a fiber at one of its labels.                     *)
LEMMA Running ==
  ASSUME Types, NEW t \in Threads, NEW f, on[t] = f, f # None
  PROVE  /\ f \in Fibers
         /\ pc[f] \in LoopRuns => f \in Loops
         /\ pc[f] \in StopRuns => f \in Stops
         /\ pc[f] = "handle" => f \in Clients
BY ZenonT(60), Kinds DEF Types, FiberTypes, LoopLabels, StopLabels, ClientLabels, LoopRuns, StopRuns

(* A fiber takes a label of its kind.                                      *)
LEMMA LabelTypes ==
  ASSUME FiberTypes, m_fibers' \in Seq(Fibers), on' \in [Threads -> Fibers \cup {None}], at' \in [Fibers -> Nat],
         NEW f \in Fibers, NEW l, pc' = [pc EXCEPT ![f] = l],
         f \in Loops => l \in LoopLabels, f \in Stops => l \in StopLabels, f \in Clients => l \in ClientLabels
  PROVE  FiberTypes'
<1>1. l \in Labels
  BY Zenon, Kinds DEF Labels
<1>2. pc' \in [Fibers -> Labels] /\ \A g \in Fibers : pc'[g] = IF g = f THEN l ELSE pc[g]
  BY Zenon, <1>1 DEF FiberTypes
<1>3. \A g \in Loops : pc'[g] \in LoopLabels
  BY Zenon, <1>2, Kinds DEF FiberTypes
<1>4. \A g \in Stops : pc'[g] \in StopLabels
  BY Zenon, <1>2, Kinds DEF FiberTypes
<1>5. \A g \in Clients : pc'[g] \in ClientLabels
  BY Zenon, <1>2, Kinds DEF FiberTypes
<1> QED
  BY Zenon, <1>2, <1>3, <1>4, <1>5 DEF FiberTypes

(* The steps of an accept loop between two labels (startAccept and the     *)
(* hooked accept), which change nothing else.                              *)
LEMMA LoopGoesOn ==
  ASSUME TcpInv, NEW f \in Loops, pc[f] \in LoopRuns, NEW l \in LoopRuns, pc' = [pc EXCEPT ![f] = l],
         UNCHANGED <<callVars, sockVars, connVars, m_fibers, on, at, aborted>>
  PROVE  TcpInv'
<1> USE DEF TcpInv
<1>1. /\ f \in Fibers /\ \A g \in Fibers : pc'[g] = pc[g] \/ (pc[g] \in Runs /\ pc'[g] \in Runs)
      /\ \A g \in Fibers : pc'[g] = "none" <=> pc[g] = "none"
      /\ \A g \in Fibers : Live(g)' <=> Live(g)
      /\ \A g \in Stops : pc'[g] = pc[g]
  BY Zenon, Kinds DEF Types, FiberTypes, LoopRuns, Runs, Live
<1>2. Types'
  <2>1. l \in LoopLabels
    BY Zenon DEF LoopLabels
  <2>3. FiberTypes'
    BY ZenonT(60), <1>1, <2>1, Kinds, LabelTypes DEF Types, FiberTypes
  <2> QED
    BY Zenon, <2>3 DEF Types, CallTypes, SockTypes, ConnTypes, callVars, sockVars, connVars
<1>3. Places'
  BY Zenon, <1>1, PlacesMove DEF callVars, sockVars, connVars
<1>4. Fresh'
  <2>1. calls \in Nat
    BY DEF Types, CallTypes
  <2> QED
    BY <1>1, <2>1, FreshStays DEF callVars, connVars
<1>5. Rounds'
  BY Zenon, <1>1, Kinds, RoundsStay DEF callVars, sockVars
<1> QED
  BY Zenon, <1>2, <1>3, <1>4, <1>5


(* idle() dispatches a connection (iomanager.cc:355): the loop that waits  *)
(* is scheduled.                                                           *)
LEMMA DispatchKeeps ==
  ASSUME TcpInv, NEW s \in Socks, Dispatch(s)
  PROVE  TcpInv'
<1> USE DEF TcpInv
<1>1. /\ trigger(s) /\ UNCHANGED <<threads, m_workers, calls, m_isStop, m_socks, made, overlap>>
      /\ UNCHANGED <<open, hooked, listening, backlog, conns, pool, on, pc, at, aborted>>
  BY Zenon DEF Dispatch, callVars, connVars
<1>2. Places' /\ m_fibers' \in Seq(Fibers) /\ waiting' \in [Socks -> Loops \cup {None}]
  BY Zenon, <1>1, PlacesMove
<1>3. Types'
  BY Zenon, <1>1, <1>2 DEF Types, CallTypes, SockTypes, ConnTypes, FiberTypes
<1>4. Fresh'
  <2>1. calls \in Nat
    BY DEF Types, CallTypes
  <2> QED
    BY <1>1, <2>1, FreshStays
<1>5. Rounds'
  <2>1. \A r \in Socks : waiting'[r] = waiting[r] \/ waiting'[r] = None
    BY Zenon, <1>1 DEF trigger, Types, SockTypes
  <2>2. \A g : Live(g)' <=> Live(g)
    BY Zenon, <1>1 DEF Live
  <2> QED
    BY Zenon, <1>1, <2>1, <2>2, RoundsStay
<1> QED
  BY Zenon, <1>2, <1>3, <1>4, <1>5

(* run() takes the first fiber of the queue (scheduler.cc:171-201).        *)
LEMMA RunKeeps ==
  ASSUME TcpInv, NEW t \in Threads, run(t)
  PROVE  TcpInv'
<1> DEFINE f == Head(m_fibers)
<1> USE DEF TcpInv
<1>1. /\ on[t] = None /\ t <= threads /\ m_fibers # <<>> /\ m_fibers' = Tail(m_fibers)
      /\ on' = [on EXCEPT ![t] = f] /\ pc' = [pc EXCEPT ![f] = Entry(f)]
      /\ at' = IF f.kind = "stop" THEN [at EXCEPT ![f] = 1] ELSE at
      /\ UNCHANGED <<threads, m_workers, calls, m_isStop, m_socks, made, overlap>>
      /\ UNCHANGED <<open, hooked, listening, waiting, backlog, conns, pool, aborted>>
  BY Zenon DEF run, callVars, sockVars, connVars
<1>2. /\ f \in Fibers /\ f \in Elems(m_fibers) /\ m_fibers' \in Seq(Fibers) /\ QueueOnce'
      /\ Elems(m_fibers') = Elems(m_fibers) \ {f}
  BY Zenon, <1>1, QueueShrinks DEF Types, FiberTypes, Places
<1> HIDE DEF f
<1>3. pc[f] \in {"queued", "hold"}
  BY Zenon, <1>2 DEF Places, InQueue
<1>4. /\ f \in Loops => Entry(f) \in LoopRuns
      /\ f \in Stops => Entry(f) = "cancelAll"
      /\ f \in Clients => Entry(f) = "handle"
  BY Zenon, Kinds DEF Entry, LoopRuns
<1>5. Entry(f) \in Runs
  BY Zenon, <1>2, <1>4, Kinds DEF Runs, StopRuns
<1>6. \A g \in Fibers : pc'[g] = IF g = f THEN Entry(f) ELSE pc[g]
  BY Zenon, <1>1 DEF Types, FiberTypes
<1>7. /\ at' \in [Fibers -> Nat] /\ on' \in [Threads -> Fibers \cup {None}]
      /\ \A g \in Fibers : at'[g] = IF g = f /\ f \in Stops THEN 1 ELSE at[g]
      /\ \A u \in Threads : on'[u] = IF u = t THEN f ELSE on[u]
  BY Zenon, <1>1, <1>2, Kinds DEF Types, FiberTypes
<1>8. Types'
  <2>1. /\ f \in Loops => Entry(f) \in LoopLabels
        /\ f \in Stops => Entry(f) \in StopLabels
        /\ f \in Clients => Entry(f) \in ClientLabels
    BY Zenon, <1>4 DEF LoopLabels, StopLabels, ClientLabels, StopRuns
  <2>2. FiberTypes'
    BY Zenon, <1>1, <1>2, <1>7, <2>1, LabelTypes DEF Types
  <2> QED
    BY Zenon, <1>1, <2>2 DEF Types, CallTypes, SockTypes, ConnTypes
<1>9. Places'
  <2>1. InQueue'
    <3>1. Elems(m_fibers) \subseteq Fibers
      BY DEF Types, FiberTypes, Elems
    <3> QED
      BY Zenon, <1>2, <1>6, <3>1 DEF Places, InQueue
  <2>2. AtSocket'
    <3> SUFFICES ASSUME NEW r \in Socks, waiting[r] # None
                 PROVE  pc'[waiting[r]] = "hold" /\ at'[waiting[r]] = r /\ waiting[r] \notin Elems(m_fibers')
      BY Zenon, <1>1 DEF AtSocket
    <3>1. /\ waiting[r] \in Loops /\ waiting[r] \in Fibers /\ waiting[r] \notin Stops
          /\ pc[waiting[r]] = "hold" /\ at[waiting[r]] = r /\ waiting[r] \notin Elems(m_fibers)
      BY ZenonT(60), Kinds DEF Places, AtSocket, Types, SockTypes
    <3> QED
      BY Zenon, <1>2, <1>6, <1>7, <3>1
  <2>3. HoldReached'
    <3> SUFFICES ASSUME NEW g \in Loops, pc'[g] = "hold"
                 PROVE  at'[g] \in Socks /\ (g \in Elems(m_fibers') \/ waiting[at'[g]] = g)
      BY Zenon, <1>1 DEF HoldReached
    <3>1. g # f /\ g \in Fibers /\ pc[g] = "hold" /\ at'[g] = at[g]
      BY Zenon, <1>5, <1>6, <1>7, Kinds DEF Runs, LoopRuns, StopRuns
    <3> QED
      BY Zenon, <1>2, <3>1 DEF Places, HoldReached
  <2>4. OnThread'
    BY ZenonT(60), <1>1, <1>5, <1>6, <1>7 DEF Places, OnThread, Types, FiberTypes
  <2>5. \A u \in Threads : on[u] # f
    BY Zenon, <1>2, <1>3, Kinds DEF Places, OnThread, Runs, LoopRuns, StopRuns
  <2>6. OneThread'
    BY Zenon, <1>1, <1>7, <2>5 DEF Places, OneThread
  <2>7. RunsOn'
    <3> SUFFICES ASSUME NEW g \in Fibers, pc'[g] \in Runs PROVE \E u \in Threads : on'[u] = g
      BY Zenon DEF RunsOn
    <3>1. CASE g = f
      BY Zenon, <1>7, <3>1
    <3>2. CASE g # f
      <4>1. PICK u \in Threads : on[u] = g
        BY Zenon, <1>6, <3>2 DEF Places, RunsOn
      <4>2. u # t
        BY Zenon, <1>1, <4>1, Kinds
      <4> QED
        BY Zenon, <1>7, <4>1, <4>2
    <3> QED
      BY Zenon, <3>1, <3>2
  <2>8. InPool'
    BY ZenonT(60), <1>1, <1>2, <1>6, Kinds DEF Places, InPool, Types, ConnTypes
  <2> QED
    BY Zenon, <1>2, <2>1, <2>2, <2>3, <2>4, <2>6, <2>7, <2>8 DEF Places
<1>10. Fresh'
  <2>1. calls \in Nat
    BY DEF Types, CallTypes
  <2>2. \A g \in Fibers : pc'[g] = "none" <=> pc[g] = "none"
    BY Zenon, <1>3, <1>5, <1>6 DEF Runs, LoopRuns, StopRuns
  <2> QED
    BY <1>1, <2>1, <2>2, FreshStays
<1>11. Rounds'
  <2>1. \A g \in Fibers : Live(g)' <=> Live(g)
    BY Zenon, <1>3, <1>5, <1>6 DEF Live, Runs, LoopRuns, StopRuns
  <2>2. \A g \in Loops : at'[g] = at[g] /\ (Live(g)' <=> Live(g))
    BY Zenon, <1>7, <2>1, Kinds
  <2>3. ASSUME NEW g \in Stops, g = f PROVE Walk(g)'
    <3>1. pc'[g] = "cancelAll" /\ at'[g] = 1
      BY Zenon, <1>2, <1>4, <1>6, <1>7, <2>3
    <3> QED
      BY <3>1 DEF Walk
  <2>4. \A g \in Stops : g # f => at'[g] = at[g] /\ pc'[g] = pc[g]
    BY Zenon, <1>6, <1>7, Kinds
  <2>5. \A g \in Stops : Live(g)' <=> Live(g)
    BY Zenon, <2>1, Kinds
  <2> QED
    BY Zenon, <1>1, <2>2, <2>3, <2>4, <2>5, RoundsStay
<1> QED
  BY Zenon, <1>8, <1>9, <1>10, <1>11


(* A fiber that ends gives its thread back.                                *)
LEMMA PlacesEnd ==
  ASSUME Types, Places, NEW t \in Threads, NEW f \in Fibers, on[t] = f, pc[f] \in Runs,
         pc' = [pc EXCEPT ![f] = "end"], on' = [on EXCEPT ![t] = None],
         UNCHANGED <<threads, waiting, m_fibers, pool, at>>
  PROVE  Places' /\ FiberTypes'
<1>1. \A g \in Fibers : pc'[g] = IF g = f THEN "end" ELSE pc[g]
  BY Zenon DEF Types, FiberTypes
<1>2. on' \in [Threads -> Fibers \cup {None}] /\ \A u \in Threads : on'[u] = IF u = t THEN None ELSE on[u]
  BY Zenon DEF Types, FiberTypes
<1>3. pc[f] \notin {"queued", "hold"} /\ f # None
  BY Zenon, Kinds DEF Runs, LoopRuns, StopRuns
<1>4. Elems(m_fibers) \subseteq Fibers /\ f \notin Elems(m_fibers)
  BY SMTT(60), <1>3 DEF Types, FiberTypes, Elems, Places, InQueue
<1>5. QueueOnce' /\ InQueue'
  BY Zenon, <1>1, <1>4 DEF Places, QueueOnce, InQueue
<1>6. AtSocket'
  BY <1>1, <1>3, Kinds DEF Places, AtSocket, Types, SockTypes
<1>7. HoldReached'
  BY <1>1, Kinds DEF Places, HoldReached
<1>8. OnThread'
  BY ZenonT(60), <1>1, <1>2 DEF Places, OnThread, OneThread, Types, FiberTypes
<1>9. OneThread'
  BY Zenon, <1>2 DEF Places, OneThread
<1>10. RunsOn'
  <2> SUFFICES ASSUME NEW g \in Fibers, pc'[g] \in Runs PROVE \E u \in Threads : on'[u] = g
    BY Zenon DEF RunsOn
  <2>1. g # f
    BY <1>1 DEF Runs, LoopRuns, StopRuns
  <2>2. PICK u \in Threads : on[u] = g
    BY Zenon, <1>1, <2>1 DEF Places, RunsOn
  <2> QED
    BY Zenon, <1>2, <2>1, <2>2
<1>11. InPool'
  BY ZenonT(60), <1>1, <1>3, Kinds DEF Places, InPool, Types, ConnTypes
<1>12. FiberTypes'
  BY ZenonT(60), <1>2, LabelTypes DEF Types, FiberTypes, LoopLabels, StopLabels, ClientLabels
<1> QED
  BY Zenon, <1>5, <1>6, <1>7, <1>8, <1>9, <1>10, <1>11, <1>12 DEF Places

(* handleClient on a thread of the accept worker returns                   *)
(* (tcp_server.cc:92).                                                     *)
LEMMA HandleKeeps ==
  ASSUME TcpInv, NEW t \in Threads, NEW f, f # None, handleClient(t, f)
  PROVE  TcpInv'
<1> USE DEF TcpInv
<1>1. /\ on[t] = f /\ pc[f] = "handle" /\ pc' = [pc EXCEPT ![f] = "end"] /\ on' = [on EXCEPT ![t] = None]
      /\ UNCHANGED <<threads, m_workers, calls, m_isStop, m_socks, made, overlap>>
      /\ UNCHANGED <<open, hooked, listening, waiting, backlog, conns, pool, m_fibers, at, aborted>>
  BY Zenon DEF handleClient, On, Goto, callVars, sockVars, connVars
<1>2. f \in Fibers /\ f \in Clients /\ f \notin Loops /\ f \notin Stops /\ pc[f] \in Runs
  BY Zenon, <1>1, Running, Kinds DEF Runs
<1>3. Places' /\ FiberTypes'
  BY Zenon, <1>1, <1>2, PlacesEnd
<1>4. \A g \in Fibers : pc'[g] = IF g = f THEN "end" ELSE pc[g]
  BY Zenon, <1>1 DEF Types, FiberTypes
<1>5. Types'
  BY Zenon, <1>1, <1>3 DEF Types, CallTypes, SockTypes, ConnTypes
<1>6. Fresh'
  <2>1. calls \in Nat
    BY DEF Types, CallTypes
  <2>2. \A g \in Fibers : pc'[g] = "none" <=> pc[g] = "none"
    BY <1>1, <1>4
  <2> QED
    BY <1>1, <2>1, <2>2, FreshStays
<1>7. Rounds'
  <2>1. \A g \in Loops \cup Stops : pc'[g] = pc[g] /\ (Live(g)' <=> Live(g))
    BY Zenon, <1>2, <1>4, Kinds DEF Live
  <2> QED
    BY Zenon, <1>1, <2>1, RoundsStay
<1> QED
  BY Zenon, <1>3, <1>5, <1>6, <1>7

(* Another worker handles a client that was handed to it.                  *)
LEMMA WorkerKeeps ==
  ASSUME TcpInv, NEW f \in Clients, workerHandles(f)
  PROVE  TcpInv'
<1> USE DEF TcpInv
<1>1. /\ f \in pool /\ pool' = pool \ {f} /\ pc' = [pc EXCEPT ![f] = "end"]
      /\ UNCHANGED <<threads, m_workers, calls, m_isStop, m_socks, made, overlap>>
      /\ UNCHANGED <<open, hooked, listening, waiting, backlog, conns, m_fibers, on, at, aborted>>
  BY Zenon DEF workerHandles, Goto, callVars, sockVars
<1>2. f \in Fibers /\ f \notin Loops /\ f \notin Stops
  BY Zenon, Kinds
<1>3. pc[f] = "queued" /\ f \notin Elems(m_fibers)
  BY Zenon, <1>1 DEF Places, InPool
<1>4. \A g \in Fibers : pc'[g] = IF g = f THEN "end" ELSE pc[g]
  BY Zenon, <1>1 DEF Types, FiberTypes
<1>5. Types'
  <2>1. FiberTypes'
    BY ZenonT(60), <1>1, <1>2, LabelTypes DEF Types, FiberTypes, ClientLabels
  <2> QED
    BY Zenon, <1>1, <2>1 DEF Types, CallTypes, SockTypes, ConnTypes
<1>6. Places'
  <2>1. Elems(m_fibers) \subseteq Fibers
    BY DEF Types, FiberTypes, Elems
  <2>2. QueueOnce' /\ InQueue'
    BY ZenonT(60), <1>1, <1>3, <1>4, <2>1 DEF Places, QueueOnce, InQueue
  <2>3. AtSocket'
    BY <1>1, <1>2, <1>4, Kinds DEF Places, AtSocket, Types, SockTypes
  <2>4. HoldReached'
    BY Zenon, <1>1, <1>2, <1>4, Kinds DEF Places, HoldReached
  <2>5. OnThread' /\ OneThread'
    BY Zenon, <1>1, <1>3, <1>4 DEF Places, OnThread, OneThread, Types, FiberTypes, Runs, LoopRuns, StopRuns
  <2>6. RunsOn'
    BY <1>1, <1>4 DEF Places, RunsOn, Runs, LoopRuns, StopRuns
  <2>7. InPool'
    BY Zenon, <1>1, <1>4, Kinds DEF Places, InPool, Types, ConnTypes
  <2> QED
    BY ZenonT(60), <2>2, <2>3, <2>4, <2>5, <2>6, <2>7 DEF Places
<1>7. Fresh'
  <2>1. calls \in Nat
    BY DEF Types, CallTypes
  <2>2. \A g \in Fibers : pc'[g] = "none" <=> pc[g] = "none"
    BY Zenon, <1>3, <1>4
  <2> QED
    BY <1>1, <2>1, <2>2, FreshStays
<1>8. Rounds'
  <2>1. \A g \in Loops \cup Stops : pc'[g] = pc[g] /\ (Live(g)' <=> Live(g))
    BY Zenon, <1>2, <1>4, Kinds DEF Live
  <2> QED
    BY Zenon, <1>1, <2>1, RoundsStay
<1> QED
  BY Zenon, <1>5, <1>6, <1>7, <1>8


(* A peer connects: its number is new.                                     *)
LEMMA ConnectKeeps ==
  ASSUME TcpInv, NEW s \in Socks, Connect(s)
  PROVE  TcpInv'
<1> USE DEF TcpInv
<1>1. /\ conns < MaxConns[threads] /\ conns' = conns + 1 /\ backlog' = [backlog EXCEPT ![s] = @ \cup {conns + 1}]
      /\ UNCHANGED <<threads, m_workers, calls, m_isStop, m_socks, made, overlap>>
      /\ UNCHANGED <<open, hooked, listening, waiting, pool, m_fibers, on, pc, at, aborted>>
  BY Zenon DEF Connect, callVars, sockVars, fiberVars
<1>2. /\ conns \in Nat /\ MaxConns[threads] \in Nat /\ backlog \in [Socks -> SUBSET (1..conns)]
  BY TcpAssumption DEF Types, CallTypes, ConnTypes
<1>3. \A r \in Socks : backlog'[r] = IF r = s THEN backlog[r] \cup {conns + 1} ELSE backlog[r]
  BY ZenonT(60), <1>1, <1>2
<1>4. Types'
  <2>1. backlog' \in [Socks -> SUBSET (1..conns')] /\ conns' \in 0..MaxConns[threads]
    BY <1>1, <1>2
  <2> QED
    BY Zenon, <1>1, <2>1 DEF Types, CallTypes, SockTypes, ConnTypes, FiberTypes
<1>5. Places'
  BY Zenon, <1>1, PlacesMove
<1>6. Fresh'
  <2>1. FreshLoops' /\ FreshStops'
    BY Zenon, <1>1 DEF Fresh, FreshLoops, Started, FreshStops
  <2>2. ASSUME NEW f \in Clients, f.id > conns' \/ (\E r \in Socks : f.id \in backlog'[r]) PROVE pc'[f] = "none"
    <3>1. f.id > conns \/ (\E r \in Socks : f.id \in backlog[r])
      BY <1>1, <1>2, <1>3, <2>2, Kinds
    <3> QED
      BY ZenonT(60), <1>1, <3>1 DEF Fresh, FreshClients
  <2>3. ASSUME NEW q \in Socks, NEW r \in Socks, q # r PROVE backlog'[q] \cap backlog'[r] = {}
    <3>1. backlog[q] \cap backlog[r] = {}
      BY Zenon, <2>3 DEF Fresh, FreshClients
    <3>2. conns + 1 \notin backlog[q] /\ conns + 1 \notin backlog[r]
      BY <1>2
    <3> QED
      BY ZenonT(60), <1>3, <2>3, <3>1, <3>2
  <2> QED
    BY Zenon, <2>1, <2>2, <2>3 DEF Fresh, FreshClients
<1>7. Rounds'
  <2>1. \A g : Live(g)' <=> Live(g)
    BY Zenon, <1>1 DEF Live
  <2> QED
    BY Zenon, <1>1, <2>1, RoundsStay
<1> QED
  BY Zenon, <1>4, <1>5, <1>6, <1>7

(* accept_f gives a client, which startAccept hands over (tcp_server.cc:81, *)
(* 92): the client was nowhere before.                                     *)
LEMMA ClientKeeps ==
  ASSUME TcpInv, NEW f \in Loops, pc[f] \in LoopRuns, NEW c \in backlog[at[f]],
         backlog' = [backlog EXCEPT ![at[f]] = @ \ {c}], handClient(c),
         pc' = [pc EXCEPT ![f] = "test", ![Client(c)] = "queued"], conns' = conns,
         UNCHANGED <<callVars, sockVars, on, at, aborted>>
  PROVE  TcpInv'
<1> DEFINE k == Client(c)
           s == at[f]
<1> USE DEF TcpInv
<1>1. /\ UNCHANGED <<threads, m_workers, calls, m_isStop, m_socks, made, overlap>>
      /\ UNCHANGED <<open, hooked, listening, waiting, conns, on, at, aborted>>
  BY Zenon DEF callVars, sockVars
<1>2. s \in Socks /\ f \in Fibers /\ f # k
  <2>1. Live(f) /\ f.kind = "accept"
    BY Zenon, Kinds DEF LoopRuns, Live
  <2>2. s \in 1..made /\ made \in 0..MaxSocks /\ MaxSocks \in Nat
    BY Zenon, <2>1, TcpAssumption DEF Rounds, LoopSocks, Types, CallTypes
  <2> QED
    BY <2>1, <2>2, Kinds DEF Socks, Client
<1>3. k \in Clients /\ k.id = c
  <2>1. c \in 1..conns /\ conns \in 0..MaxConns[threads] /\ MaxConns[threads] \in Nat /\ threads \in Threads
    BY Zenon, <1>2, TcpAssumption DEF Types, CallTypes, ConnTypes
  <2>2. c \in 1..MaxConns[threads]
    BY <2>1
  <2> QED
    BY Zenon, <2>1, <2>2 DEF Clients, Client
<1>4. pc[k] = "none" /\ k \in Fibers /\ k \notin Loops /\ k \notin Stops
  BY Zenon, <1>2, <1>3, Kinds DEF Fresh, FreshClients
<1>5. k \notin Elems(m_fibers) /\ k \notin pool /\ \A t \in Threads : on[t] # k
  BY Zenon, <1>4, Kinds DEF Places, InQueue, InPool, OnThread, Runs, LoopRuns, StopRuns
<1> HIDE DEF k, s
<1>6. pc' \in [Fibers -> Labels] /\ \A g \in Fibers : pc'[g] = IF g = k THEN "queued" ELSE IF g = f THEN "test" ELSE pc[g]
  BY ZenonT(60), <1>2, <1>4 DEF Types, FiberTypes, Labels, LoopLabels, LoopRuns, k
<1>7. /\ m_fibers' \in Seq(Fibers) /\ QueueOnce'
      /\ \/ Elems(m_fibers') = Elems(m_fibers) /\ pool' = pool \cup {k}
         \/ Elems(m_fibers') = Elems(m_fibers) \cup {k} /\ pool' = pool
  <2>1. CASE m_workers
    BY Zenon, <2>1 DEF handClient, k, Types, FiberTypes, Places, QueueOnce
  <2>2. CASE ~m_workers
    <3>1. m_fibers' = Append(m_fibers, k) /\ pool' = pool
      BY Zenon, <2>2 DEF handClient, k
    <3> QED
      BY Zenon, <1>4, <1>5, <3>1, QueueGrows DEF Types, FiberTypes, Places
  <2> QED
    BY Zenon, <2>1, <2>2
<1>8. backlog' \in [Socks -> SUBSET (1..conns)] /\ \A r \in Socks : backlog'[r] = IF r = s THEN backlog[r] \ {c} ELSE backlog[r]
  BY ZenonT(60), <1>2 DEF Types, ConnTypes, s
<1>9. Types'
  <2>1. FiberTypes'
    <3>1. \A g \in Loops : pc'[g] \in LoopLabels
      BY Zenon, <1>4, <1>6, Kinds DEF Types, FiberTypes, LoopLabels, LoopRuns
    <3>2. \A g \in Stops : pc'[g] \in StopLabels
      BY Zenon, <1>4, <1>6, Kinds DEF Types, FiberTypes
    <3>3. \A g \in Clients : pc'[g] \in ClientLabels
      BY Zenon, <1>6, Kinds DEF Types, FiberTypes, ClientLabels
    <3> QED
      BY Zenon, <1>1, <1>6, <1>7, <3>1, <3>2, <3>3 DEF Types, FiberTypes
  <2>2. ConnTypes'
    BY Zenon, <1>1, <1>3, <1>7, <1>8 DEF Types, ConnTypes
  <2> QED
    BY Zenon, <1>1, <2>1, <2>2 DEF Types, CallTypes, SockTypes
<1>10. Places'
  <2>1. Elems(m_fibers) \subseteq Fibers /\ f \notin Elems(m_fibers)
    <3>1. Elems(m_fibers) \subseteq Fibers
      BY DEF Types, FiberTypes, Elems
    <3>2. f \notin Elems(m_fibers)
      BY Zenon DEF Places, InQueue, LoopRuns
    <3> QED
      BY Zenon, <3>1, <3>2
  <2>2. InQueue'
    BY <1>4, <1>6, <1>7, <2>1 DEF Places, InQueue
  <2>3. AtSocket'
    <3> SUFFICES ASSUME NEW r \in Socks, waiting[r] # None
                 PROVE  pc'[waiting[r]] = "hold" /\ at[waiting[r]] = r /\ waiting[r] \notin Elems(m_fibers')
      BY ZenonT(60), <1>1 DEF AtSocket
    <3>1. /\ waiting[r] \in Loops /\ waiting[r] \in Fibers /\ waiting[r] # f /\ waiting[r] # k
          /\ pc[waiting[r]] = "hold" /\ at[waiting[r]] = r /\ waiting[r] \notin Elems(m_fibers)
      BY Zenon, <1>4, Kinds DEF Places, AtSocket, Types, SockTypes, LoopRuns
    <3> QED
      BY Zenon, <1>6, <1>7, <3>1
  <2>4. HoldReached'
    <3> SUFFICES ASSUME NEW g \in Loops, pc'[g] = "hold"
                 PROVE  at[g] \in Socks /\ (g \in Elems(m_fibers') \/ waiting[at[g]] = g)
      BY Zenon, <1>1 DEF HoldReached
    <3>1. pc[g] = "hold"
      BY ZenonT(60), <1>6, Kinds
    <3> QED
      BY Zenon, <1>7, <3>1 DEF Places, HoldReached
  <2>5. OnThread' /\ OneThread'
    BY <1>1, <1>5, <1>6 DEF Places, OnThread, OneThread, Types, FiberTypes, Runs, LoopRuns
  <2>6. RunsOn'
    BY ZenonT(60), <1>1, <1>2, <1>6 DEF Places, RunsOn, Runs, LoopRuns, StopRuns
  <2>7. InPool'
    BY <1>2, <1>3, <1>5, <1>6, <1>7, Kinds DEF Places, InPool, Types, ConnTypes
  <2> QED
    BY Zenon, <1>7, <2>2, <2>3, <2>4, <2>5, <2>6, <2>7 DEF Places
<1>11. Fresh'
  <2>1. FreshLoops' /\ FreshStops'
    BY ZenonT(60), <1>1, <1>4, <1>6, Kinds DEF Fresh, FreshLoops, Started, FreshStops, LoopRuns
  <2>2. ASSUME NEW g \in Clients, g.id > conns \/ (\E r \in Socks : g.id \in backlog'[r]) PROVE pc'[g] = "none"
    <3>1. g.id > conns \/ (\E r \in Socks : g.id \in backlog[r])
      BY Zenon, <1>8, <2>2
    <3>2. pc[g] = "none"
      BY Zenon, <3>1 DEF Fresh, FreshClients
    <3>3. g.id # c
      <4>1. c \in 1..conns /\ conns \in Nat /\ c \in backlog[s] /\ \A r \in Socks : r # s => c \notin backlog[r]
        BY <1>2 DEF Types, ConnTypes, Fresh, FreshClients, s
      <4> QED
        BY <1>8, <2>2, <4>1
    <3> QED
      BY Zenon, <1>3, <1>6, <3>2, <3>3, Kinds
  <2>3. ASSUME NEW q \in Socks, NEW r \in Socks, q # r PROVE backlog'[q] \cap backlog'[r] = {}
    BY ZenonT(60), <1>8, <2>3 DEF Fresh, FreshClients
  <2> QED
    BY ZenonT(60), <1>1, <2>1, <2>2, <2>3 DEF Fresh, FreshClients
<1>12. Rounds'
  <2>1. \A g \in Loops : Live(g)' <=> Live(g)
    BY Zenon, <1>4, <1>6, Kinds DEF Live, LoopRuns
  <2>2. \A g \in Stops : pc'[g] = pc[g] /\ (Live(g)' <=> Live(g))
    BY Zenon, <1>4, <1>6, Kinds DEF Live
  <2> QED
    BY ZenonT(60), <1>1, <2>1, <2>2, RoundsStay
<1> QED
  BY Zenon, <1>9, <1>10, <1>11, <1>12


-----------------------------------------------------------------------------
(* A task of stop() that has a socket to close.                            *)
LEMMA WalkSock ==
  ASSUME TcpInv, NEW f \in Stops, pc[f] \in StopRuns,
         More(f) \/ (~aborted /\ pc[f] \in {"close", "close_f"})
  PROVE  at[f] \in 1..Len(m_socks) /\ Sock(f) \in 1..made /\ Sock(f) \in Socks
<1>1. at[f] \in Nat /\ made \in 0..MaxSocks /\ MaxSocks \in Nat /\ m_socks \in Seq(1..made)
  BY Zenon, Kinds, TcpAssumption DEF TcpInv, Types, CallTypes, FiberTypes
<1>2. at[f] >= 1 /\ at[f] <= Len(m_socks)
  BY Zenon DEF TcpInv, Rounds, Walks, Walk, More
<1> QED
  BY SMTT(60), <1>1, <1>2 DEF Sock, Socks

(* Socket::cancelAll and the cancelAll of hook close (tcp_server.cc:114,   *)
(* hook.cc): the loop that waits is woken; after the second one the socket *)
(* has no context.                                                         *)
LEMMA CancelKeeps ==
  ASSUME TcpInv, NEW t \in Threads, NEW f, f # None, cancelAll(t, f) \/ close(t, f)
  PROVE  TcpInv'
<1> DEFINE l == IF pc[f] = "cancelAll" THEN "close" ELSE "close_f"
<1> USE DEF TcpInv
<1>1. /\ on[t] = f /\ ~aborted /\ pc[f] \in {"cancelAll", "close"} /\ trigger(Sock(f)) /\ pc' = [pc EXCEPT ![f] = l]
      /\ pc[f] = "cancelAll" => More(f) /\ hooked' = hooked
      /\ pc[f] = "close" => hooked' = hooked \ {Sock(f)}
      /\ UNCHANGED <<threads, m_workers, calls, m_isStop, m_socks, made, overlap>>
      /\ UNCHANGED <<open, listening, backlog, conns, pool, on, at, aborted>>
  BY Zenon DEF cancelAll, close, On, Goto, callVars, connVars
<1>2. f \in Fibers /\ f \in Stops /\ f \notin Loops /\ f \notin Clients /\ pc[f] \in StopRuns
  BY Zenon, <1>1, Running, Kinds DEF StopRuns
<1>3. at[f] \in 1..Len(m_socks) /\ Sock(f) \in 1..made /\ Sock(f) \in Socks
  BY Zenon, <1>1, <1>2, WalkSock
<1>4. \A g \in Fibers : pc'[g] = IF g = f THEN l ELSE pc[g]
  BY Zenon, <1>1 DEF Types, FiberTypes
<1>5. l \in {"close", "close_f"}
  OBVIOUS
<1>6. Places' /\ m_fibers' \in Seq(Fibers) /\ waiting' \in [Socks -> Loops \cup {None}]
  <2>1. \A g \in Fibers : pc'[g] = pc[g] \/ (pc[g] \in Runs /\ pc'[g] \in Runs)
    BY Zenon, <1>2, <1>4, <1>5 DEF Runs, StopRuns
  <2> QED
    BY Zenon, <1>1, <1>3, <2>1, PlacesMove
<1>7. Types'
  <2>1. FiberTypes'
    BY ZenonT(60), <1>1, <1>2, <1>5, <1>6, LabelTypes DEF Types, FiberTypes, StopLabels, StopRuns
  <2> QED
    BY ZenonT(60), <1>1, <1>6, <2>1 DEF Types, CallTypes, SockTypes, ConnTypes
<1>8. Fresh'
  <2>1. calls \in Nat
    BY DEF Types, CallTypes
  <2>2. \A g \in Fibers : pc'[g] = "none" <=> pc[g] = "none"
    BY Zenon, <1>1, <1>4, <1>5
  <2> QED
    BY <1>1, <2>1, <2>2, FreshStays
<1>9. Rounds'
  <2>1. \A r \in Socks : waiting'[r] = IF r = Sock(f) THEN None ELSE waiting[r]
    BY Zenon, <1>1 DEF trigger, Types, SockTypes
  <2>2. \A g \in Loops : Live(g)' <=> Live(g)
    BY Zenon, <1>2, <1>4, Kinds DEF Live
  <2>3. \A g \in Stops : Live(g)' <=> Live(g)
    BY ZenonT(60), <1>1, <1>2, <1>4, <1>5, Kinds DEF Live
  <2>4. \A g \in Stops : g # f => pc'[g] = pc[g] /\ at'[g] = at[g]
    BY Zenon, <1>1, <1>4, Kinds
  <2>5. Walk(f)'
    <3>1. Walk(f) /\ Sock(f)' = Sock(f)
      BY Zenon, <1>1, <1>2 DEF Rounds, Walks, Sock
    <3>2. at[f] >= 1 /\ \A i \in 1..Len(m_socks) : i < at[f] => m_socks[i] \notin open
      BY Zenon, <3>1 DEF Walk
    <3>3. at[f] <= Len(m_socks)
      BY <1>3
    <3>4. pc'[f] = "close_f" => Sock(f) \notin hooked' /\ waiting'[Sock(f)] = None
      BY <1>1, <1>2, <1>3, <1>4, <2>1
    <3> QED
      BY Zenon, <1>1, <3>1, <3>2, <3>3, <3>4 DEF Walk
  <2> QED
    BY Zenon, <1>1, <2>1, <2>2, <2>3, <2>4, <2>5, RoundsStay
<1> QED
  BY Zenon, <1>6, <1>7, <1>8, <1>9


(* close_f (hook.cc): the socket is closed, after its context was dropped, *)
(* and the task goes on to the next.                                       *)
LEMMA CloseKeeps ==
  ASSUME TcpInv, NEW t \in Threads, NEW f, f # None, close_f(t, f)
  PROVE  TcpInv'
<1> USE DEF TcpInv
<1>1. /\ on[t] = f /\ ~aborted /\ pc[f] = "close_f" /\ pc' = [pc EXCEPT ![f] = "cancelAll"]
      /\ open' = open \ {Sock(f)} /\ backlog' = [backlog EXCEPT ![Sock(f)] = {}]
      /\ at' = [at EXCEPT ![f] = @ + 1]
      /\ UNCHANGED <<threads, m_workers, calls, m_isStop, m_socks, made, overlap>>
      /\ UNCHANGED <<hooked, listening, waiting, conns, pool, m_fibers, on, aborted>>
  BY Zenon DEF close_f, On, Goto, callVars
<1>2. f \in Fibers /\ f \in Stops /\ f \notin Loops /\ f \notin Clients /\ pc[f] \in StopRuns
  BY Zenon, <1>1, Running, Kinds DEF StopRuns
<1>3. at[f] \in 1..Len(m_socks) /\ Sock(f) \in 1..made /\ Sock(f) \in Socks
  BY Zenon, <1>1, <1>2, WalkSock
<1>4. \A g \in Fibers : pc'[g] = IF g = f THEN "cancelAll" ELSE pc[g]
  BY Zenon, <1>1 DEF Types, FiberTypes
<1>5. at' \in [Fibers -> Nat] /\ \A g \in Fibers : at'[g] = IF g = f THEN at[f] + 1 ELSE at[g]
  BY <1>1, <1>2 DEF Types, FiberTypes
<1>6. Walk(f)
  BY Zenon, <1>2 DEF Rounds, Walks
<1>7. /\ Sock(f) \notin hooked /\ (threads = 1 => waiting[Sock(f)] = None)
      /\ \A i \in 1..Len(m_socks) : i < at[f] => m_socks[i] \notin open
  BY Zenon, <1>1, <1>6 DEF Walk
<1>8. Places'
  <2>1. \A g \in Fibers : pc'[g] = pc[g] \/ (pc[g] \in Runs /\ pc'[g] \in Runs)
    BY Zenon, <1>2, <1>4 DEF Runs, StopRuns
  <2>2. \A g \in Loops : at'[g] = at[g]
    BY Zenon, <1>2, <1>5, Kinds
  <2> QED
    BY Zenon, <1>1, <2>1, <2>2, PlacesMove
<1>9. Types'
  <2>1. FiberTypes'
    BY ZenonT(60), <1>1, <1>2, <1>5, LabelTypes DEF Types, FiberTypes, StopLabels, StopRuns
  <2>2. SockTypes'
    BY ZenonT(60), <1>1, <1>7 DEF Types, SockTypes
  <2>3. ConnTypes'
    BY ZenonT(60), <1>1 DEF Types, ConnTypes
  <2> QED
    BY Zenon, <1>1, <2>1, <2>2, <2>3 DEF Types, CallTypes
<1>10. Fresh'
  <2>1. calls \in Nat
    BY DEF Types, CallTypes
  <2>2. \A g \in Fibers : pc'[g] = "none" <=> pc[g] = "none"
    BY <1>1, <1>4
  <2>3. \A s \in Socks : backlog'[s] \subseteq backlog[s]
    BY ZenonT(60), <1>1 DEF Types, ConnTypes
  <2> QED
    BY <1>1, <2>1, <2>2, <2>3, FreshStays
<1>11. /\ \A g \in Loops : at'[g] = at[g] /\ (Live(g)' <=> Live(g))
       /\ \A g \in Stops : Live(g)' <=> Live(g)
       /\ Live(f)
  BY <1>1, <1>2, <1>4, <1>5, Kinds DEF Live
<1>12. StopPending' /\ StopPending
  BY Zenon, <1>2, <1>11 DEF StopPending
<1>13. Walks'
  <2> SUFFICES ASSUME NEW g \in Stops, pc'[g] \in StopRuns PROVE Walk(g)'
    BY Zenon DEF Walks
  <2>1. CASE g = f
    <3>1. pc'[g] = "cancelAll" /\ at'[g] = at[f] + 1
      BY ZenonT(60), <1>2, <1>4, <1>5, <2>1
    <3>2. at'[g] >= 1
      BY SMTT(60), <1>3, <3>1
    <3>3. ASSUME NEW i \in 1..Len(m_socks), i < at'[g] PROVE m_socks[i] \notin open'
      <4>1. CASE i = at[f]
        BY Zenon, <1>1, <4>1 DEF Sock
      <4>2. CASE i < at[f]
        BY Zenon, <1>1, <1>7, <4>2
      <4> QED
        BY <1>3, <3>1, <3>3, <4>1, <4>2
    <3> QED
      BY Zenon, <1>1, <3>1, <3>2, <3>3 DEF Walk
  <2>2. CASE g # f
    <3>1. Walk(g) /\ pc'[g] = pc[g] /\ at'[g] = at[g] /\ Sock(g)' = Sock(g)
      BY ZenonT(60), <1>1, <1>4, <1>5, <2>2, Kinds DEF Rounds, Walks, Sock
    <3>2. at[g] >= 1 /\ \A i \in 1..Len(m_socks) : i < at[g] => m_socks[i] \notin open'
      BY Zenon, <1>1, <3>1 DEF Walk
    <3>3. /\ ~aborted /\ pc[g] \in {"close", "close_f"} => at[g] <= Len(m_socks)
          /\ ~aborted /\ pc[g] = "close_f" =>
                Sock(g) \notin hooked /\ (threads = 1 => waiting[Sock(g)] = None)
      BY Zenon, <3>1 DEF Walk
    <3> QED
      BY Zenon, <1>1, <3>1, <3>2, <3>3 DEF Walk
  <2> QED
    BY Zenon, <2>1, <2>2
<1>14. LoopSocks' /\ SocksOnce'
  BY ZenonT(60), <1>1, <1>11 DEF Rounds, LoopSocks, SocksOnce
<1>15. WaitOpen'
  <2>1. threads \in Nat \ {0}
    BY Zenon, TcpAssumption DEF Types, CallTypes
  <2> QED
    BY <1>1, <1>7, <2>1 DEF Rounds, WaitOpen
<1>16. NoOverlap'
  BY ZenonT(60), <1>1, <1>11, <1>12 DEF Rounds, NoOverlap
<1>17. SocksOpen'
  <2>1. \A s : Held(s)' <=> Held(s)
    BY Zenon, <1>11 DEF Held
  <2> QED
    BY Zenon, <1>1, <1>12, <2>1 DEF Rounds, SocksOpen
<1>18. LoopsOnOpen'
  <2>1. ~m_isStop => overlap
    BY Zenon, <1>12 DEF Rounds, NoOverlap
  <2> QED
    BY Zenon, <1>1, <2>1 DEF Rounds, LoopsOnOpen
<1>19. Rounds'
  BY Zenon, <1>13, <1>14, <1>15, <1>16, <1>17, <1>18 DEF Rounds
<1> QED
  BY Zenon, <1>8, <1>9, <1>10, <1>19

(* The end of the task of stop(): m_socks.clear() (tcp_server.cc:118).     *)
LEMMA ClearKeeps ==
  ASSUME TcpInv, NEW t \in Threads, NEW f, f # None, clear(t, f)
  PROVE  TcpInv'
<1> USE DEF TcpInv
<1>1. /\ on[t] = f /\ ~aborted /\ pc[f] = "cancelAll" /\ ~More(f) /\ m_socks' = <<>>
      /\ pc' = [pc EXCEPT ![f] = "end"] /\ on' = [on EXCEPT ![t] = None]
      /\ aborted' = \E g \in Stops \ {f} : Inside(g)
      /\ UNCHANGED <<threads, m_workers, calls, m_isStop, made, overlap>>
      /\ UNCHANGED <<open, hooked, listening, waiting, backlog, conns, pool, m_fibers, at>>
  BY Zenon DEF clear, On, Goto, sockVars, connVars
<1>2. f \in Fibers /\ f \in Stops /\ f \notin Loops /\ f \notin Clients /\ pc[f] \in StopRuns /\ pc[f] \in Runs
  BY Zenon, <1>1, Running, Kinds DEF StopRuns, Runs
<1>3. Places' /\ FiberTypes'
  BY Zenon, <1>1, <1>2, PlacesEnd
<1>4. \A g \in Fibers : pc'[g] = IF g = f THEN "end" ELSE pc[g]
  BY Zenon, <1>1 DEF Types, FiberTypes
<1>5. aborted' \in BOOLEAN
  BY Zenon, <1>1
<1>6. Types'
  <2>1. m_socks' \in Seq(1..made)
    BY SMTT(60), <1>1
  <2> QED
    BY Zenon, <1>1, <1>3, <1>5, <2>1 DEF Types, CallTypes, SockTypes, ConnTypes
<1>7. Fresh'
  <2>1. calls \in Nat
    BY DEF Types, CallTypes
  <2>2. \A g \in Fibers : pc'[g] = "none" <=> pc[g] = "none"
    BY <1>1, <1>4
  <2> QED
    BY <1>1, <2>1, <2>2, FreshStays
<1>8. /\ \A g \in Loops : Live(g)' <=> Live(g)
      /\ \A g \in Stops : Live(g)' => Live(g)
      /\ \A g \in Stops : g # f => pc'[g] = pc[g]
      /\ Live(f) /\ pc'[f] = "end"
  BY ZenonT(60), <1>1, <1>2, <1>4, Kinds DEF Live
<1>9. Walks'
  <2> SUFFICES ASSUME NEW g \in Stops, pc'[g] \in StopRuns PROVE Walk(g)'
    BY Zenon DEF Walks
  <2>1. g # f /\ pc'[g] = pc[g]
    BY Zenon, <1>8 DEF StopRuns
  <2>2. at'[g] >= 1 /\ Len(m_socks') = 0
    BY Zenon, <1>1, <2>1 DEF Rounds, Walks, Walk
  <2>3. pc'[g] \in {"close", "close_f"} => aborted'
    BY Zenon, <1>1, <2>1 DEF Inside
  <2>4. \A i \in 1..Len(m_socks') : i < at'[g] => m_socks'[i] \notin open'
    BY <2>2
  <2> QED
    BY Zenon, <2>2, <2>3, <2>4 DEF Walk
<1>10. LoopSocks' /\ SocksOnce' /\ WaitOpen'
  <2>1. SocksOnce'
    BY Zenon, <1>1, NoItems DEF SocksOnce
  <2> QED
    BY Zenon, <1>1, <1>8, <2>1 DEF Rounds, LoopSocks, WaitOpen
<1>11. NoOverlap'
  <2>1. StopPending' => StopPending
    BY Zenon, <1>8 DEF StopPending
  <2> QED
    BY Zenon, <1>1, <1>8, <2>1 DEF Rounds, NoOverlap
<1>12. SocksOpen'
  <2>1. \A s : Held(s)' <=> Held(s)
    BY Zenon, <1>1, <1>8 DEF Held
  <2>2. ASSUME NEW s \in open PROVE Held(s)
    <3>1. Walk(f) /\ m_socks \in Seq(1..made) /\ at[f] \in Nat
      BY ZenonT(60), <1>2 DEF Rounds, Walks, Types, CallTypes, FiberTypes
    <3>2. \A i \in 1..Len(m_socks) : m_socks[i] \notin open
      BY <1>1, <3>1 DEF Walk, More
    <3>3. s \notin Elems(m_socks)
      BY Zenon, <3>2 DEF Elems
    <3> QED
      BY Zenon, <3>3 DEF Rounds, SocksOpen
  <2>3. Elems(m_socks') = {}
    BY <1>1 DEF Elems
  <2> QED
    BY Zenon, <1>1, <2>1, <2>2, <2>3 DEF SocksOpen
<1>13. LoopsOnOpen'
  <2>1. aborted' => overlap
    BY ZenonT(60), <1>1, <1>2, <1>8 DEF Inside, Live, Rounds, NoOverlap
  <2> QED
    BY Zenon, <1>1, <1>8, <2>1 DEF Rounds, LoopsOnOpen
<1>14. Rounds'
  BY Zenon, <1>9, <1>10, <1>11, <1>12, <1>13 DEF Rounds
<1> QED
  BY Zenon, <1>3, <1>6, <1>7, <1>14
-----------------------------------------------------------------------------
(* startAccept finds m_isStop and returns (tcp_server.cc:76): the socket   *)
(* is destructed when nobody else has it.                                  *)
LEMMA LoopEndKeeps ==
  ASSUME TcpInv, NEW t \in Threads, NEW f, f # None, test(t, f), m_isStop
  PROVE  TcpInv'
<1> DEFINE Last == at[f] \notin Elems(m_socks) /\ \A g \in Loops \ {f} : ~(Live(g) /\ at[g] = at[f])
<1> USE DEF TcpInv
<1>1. /\ on[t] = f /\ ~aborted /\ pc[f] = "test" /\ pc' = [pc EXCEPT ![f] = "end"] /\ on' = [on EXCEPT ![t] = None]
      /\ open' = IF Last THEN open \ {at[f]} ELSE open
      /\ hooked' = IF Last THEN hooked \ {at[f]} ELSE hooked
      /\ UNCHANGED <<threads, m_workers, calls, m_isStop, m_socks, made, overlap>>
      /\ UNCHANGED <<listening, waiting, backlog, conns, pool, m_fibers, at, aborted>>
  BY Zenon DEF test, Destruct, On, Goto, callVars, connVars
<1>2. f \in Fibers /\ f \in Loops /\ f \notin Stops /\ f \notin Clients /\ pc[f] \in LoopRuns /\ pc[f] \in Runs
  BY Zenon, <1>1, Running, Kinds DEF LoopRuns, Runs
<1> HIDE DEF Last
<1>3. Places' /\ FiberTypes'
  BY Zenon, <1>1, <1>2, PlacesEnd
<1>4. \A g \in Fibers : pc'[g] = IF g = f THEN "end" ELSE pc[g]
  BY Zenon, <1>1 DEF Types, FiberTypes
<1>5. Types'
  <2>1. SockTypes'
    BY Zenon, <1>1 DEF Types, SockTypes
  <2> QED
    BY Zenon, <1>1, <1>3, <2>1 DEF Types, CallTypes, ConnTypes
<1>6. Fresh'
  <2>1. calls \in Nat
    BY DEF Types, CallTypes
  <2>2. \A g \in Fibers : pc'[g] = "none" <=> pc[g] = "none"
    BY <1>1, <1>4
  <2> QED
    BY <1>1, <2>1, <2>2, FreshStays
<1>7. /\ \A g \in Loops : Live(g)' <=> Live(g) /\ g # f
      /\ \A g \in Stops : pc'[g] = pc[g] /\ (Live(g)' <=> Live(g))
      /\ Live(f)
  BY ZenonT(60), <1>1, <1>2, <1>4, Kinds DEF Live
<1>8. StopPending' <=> StopPending
  BY Zenon, <1>7 DEF StopPending
<1>9. open' \subseteq open /\ hooked' \subseteq hooked
  BY Zenon, <1>1
<1>10. Walks'
  <2> SUFFICES ASSUME NEW g \in Stops, pc'[g] \in StopRuns PROVE Walk(g)'
    BY Zenon DEF Walks
  <2>1. Walk(g) /\ pc'[g] = pc[g] /\ at'[g] = at[g] /\ Sock(g)' = Sock(g)
    BY Zenon, <1>1, <1>7 DEF Rounds, Walks, Sock
  <2>2. at[g] >= 1 /\ \A i \in 1..Len(m_socks) : i < at[g] => m_socks[i] \notin open'
    BY Zenon, <1>9, <2>1 DEF Walk
  <2>3. /\ ~aborted /\ pc[g] \in {"close", "close_f"} => at[g] <= Len(m_socks)
        /\ ~aborted /\ pc[g] = "close_f" =>
              Sock(g) \notin hooked' /\ (threads = 1 => waiting[Sock(g)] = None)
    BY Zenon, <1>9, <2>1 DEF Walk
  <2> QED
    BY Zenon, <1>1, <2>1, <2>2, <2>3 DEF Walk
<1>11. LoopSocks' /\ SocksOnce'
  BY Zenon, <1>1, <1>7 DEF Rounds, LoopSocks, SocksOnce
<1>12. WaitOpen'
  <2>1. Last /\ at[f] \in Socks => waiting[at[f]] = None
    BY ZenonT(60), <1>1, Kinds DEF Last, Places, AtSocket, Types, SockTypes, Live
  <2> QED
    BY Zenon, <1>1, <2>1 DEF Rounds, WaitOpen
<1>13. NoOverlap'
  BY Zenon, <1>1, <1>7, <1>8 DEF Rounds, NoOverlap
<1>14. SocksOpen'
  <2>1. ASSUME NEW s \in Elems(m_socks) PROVE s \in open' \/ StopPending'
    BY Zenon, <1>1, <1>8 DEF Last, Rounds, SocksOpen
  <2>2. ASSUME NEW s \in open' PROVE s \in Elems(m_socks) \/ Held(s)'
    <3>1. s \in Elems(m_socks) \/ Held(s)
      BY Zenon, <1>9 DEF Rounds, SocksOpen
    <3>2. ASSUME NEW g \in Loops, Live(g), at[g] = s, g # f PROVE Held(s)'
      BY Zenon, <1>1, <1>7, <3>2 DEF Held
    <3>3. CASE at[f] = s
      BY Zenon, <1>1, <3>2, <3>3 DEF Last
    <3> QED
      BY Zenon, <3>1, <3>2, <3>3 DEF Held
  <2> QED
    BY Zenon, <1>1, <2>1, <2>2 DEF SocksOpen
<1>15. LoopsOnOpen'
  BY Zenon, <1>1, <1>7 DEF Rounds, LoopsOnOpen
<1>16. Rounds'
  BY Zenon, <1>10, <1>11, <1>12, <1>13, <1>14, <1>15 DEF Rounds
<1> QED
  BY Zenon, <1>3, <1>5, <1>6, <1>16

(* addEvent and the yield (iomanager.cc:108, fiber.cc:175): the loop waits *)
(* at its socket.  With one thread no task of stop() is in the middle.     *)
LEMMA WaitKeeps ==
  ASSUME TcpInv, NEW t \in Threads, NEW f, f # None, addEvent(t, f), at[f] \in open, waiting[at[f]] = None
  PROVE  TcpInv'
<1> DEFINE s == at[f]
<1> USE DEF TcpInv
<1>1. /\ on[t] = f /\ ~aborted /\ pc[f] = "add" /\ pc' = [pc EXCEPT ![f] = "hold"] /\ on' = [on EXCEPT ![t] = None]
      /\ waiting' = [waiting EXCEPT ![s] = f]
      /\ UNCHANGED <<threads, m_workers, calls, m_isStop, m_socks, made, overlap>>
      /\ UNCHANGED <<open, hooked, listening, backlog, conns, pool, m_fibers, at, aborted>>
  BY Zenon DEF addEvent, On, Goto, callVars, connVars
<1>2. f \in Fibers /\ f \in Loops /\ f \notin Stops /\ f \notin Clients /\ pc[f] \in LoopRuns /\ pc[f] \in Runs
  BY Zenon, <1>1, Running, Kinds DEF LoopRuns, Runs
<1>3. s \in 1..made /\ s \in Socks
  <2>1. open \subseteq 1..made /\ made \in 0..MaxSocks /\ MaxSocks \in Nat
    BY Zenon, TcpAssumption DEF Types, SockTypes, CallTypes
  <2>2. \A r \in 1..made : r \in Socks
    BY <2>1 DEF Socks
  <2> QED
    BY Zenon, <2>1, <2>2
<1>4. \A g \in Fibers : pc'[g] = IF g = f THEN "hold" ELSE pc[g]
  BY Zenon, <1>1 DEF Types, FiberTypes
<1>5. waiting' \in [Socks -> Loops \cup {None}] /\ \A r \in Socks : waiting'[r] = IF r = s THEN f ELSE waiting[r]
  BY Zenon, <1>1, <1>2 DEF Types, SockTypes
<1>6. on' \in [Threads -> Fibers \cup {None}] /\ \A u \in Threads : on'[u] = IF u = t THEN None ELSE on[u]
  BY Zenon, <1>1 DEF Types, FiberTypes
<1>7. Types'
  <2>1. FiberTypes'
    BY Zenon, <1>1, <1>2, <1>6, LabelTypes DEF Types, FiberTypes, LoopLabels
  <2> QED
    BY Zenon, <1>1, <1>5, <2>1 DEF Types, CallTypes, SockTypes, ConnTypes
<1>8. f \notin Elems(m_fibers)
  BY Zenon, <1>1 DEF Places, InQueue
<1> HIDE DEF s
<1>9. Places'
  <2>1. QueueOnce' /\ InQueue'
    <3>1. Elems(m_fibers) \subseteq Fibers
      BY DEF Types, FiberTypes, Elems
    <3> QED
      BY Zenon, <1>1, <1>4, <1>8, <3>1 DEF Places, QueueOnce, InQueue
  <2>2. AtSocket'
    <3> SUFFICES ASSUME NEW r \in Socks, waiting'[r] # None
                 PROVE  pc'[waiting'[r]] = "hold" /\ at[waiting'[r]] = r /\ waiting'[r] \notin Elems(m_fibers)
      BY Zenon, <1>1 DEF AtSocket
    <3>1. CASE r = s
      BY Zenon, <1>2, <1>4, <1>5, <1>8, <3>1 DEF s
    <3>2. CASE r # s
      <4>1. /\ waiting[r] \in Loops /\ waiting[r] \in Fibers /\ pc[waiting[r]] = "hold"
            /\ at[waiting[r]] = r /\ waiting[r] \notin Elems(m_fibers)
        BY ZenonT(60), <1>5, <3>2, Kinds DEF Places, AtSocket, Types, SockTypes
      <4> QED
        BY Zenon, <1>4, <1>5, <3>2, <4>1
    <3> QED
      BY Zenon, <3>1, <3>2
  <2>3. HoldReached'
    <3> SUFFICES ASSUME NEW g \in Loops, pc'[g] = "hold"
                 PROVE  at[g] \in Socks /\ (g \in Elems(m_fibers) \/ waiting'[at[g]] = g)
      BY Zenon, <1>1 DEF HoldReached
    <3>1. CASE g = f
      BY Zenon, <1>3, <1>5, <3>1 DEF s
    <3>2. CASE g # f
      <4>1. at[g] \in Socks /\ (g \in Elems(m_fibers) \/ waiting[at[g]] = g)
        BY Zenon, <1>4, <3>2, Kinds DEF Places, HoldReached
      <4>2. g # None /\ waiting[s] = None
        BY Zenon, Kinds DEF s
      <4> QED
        BY Zenon, <1>5, <4>1, <4>2
    <3> QED
      BY Zenon, <3>1, <3>2
  <2>4. OnThread'
    BY ZenonT(60), <1>1, <1>4, <1>6 DEF Places, OnThread, OneThread, Types, FiberTypes
  <2>5. OneThread'
    BY Zenon, <1>6 DEF Places, OneThread
  <2>6. RunsOn'
    <3> SUFFICES ASSUME NEW g \in Fibers, pc'[g] \in Runs PROVE \E u \in Threads : on'[u] = g
      BY Zenon DEF RunsOn
    <3>1. g # f
      BY Zenon, <1>4 DEF Runs, LoopRuns, StopRuns
    <3>2. PICK u \in Threads : on[u] = g
      BY Zenon, <1>4, <3>1 DEF Places, RunsOn
    <3> QED
      BY Zenon, <1>1, <1>6, <3>1, <3>2
  <2>7. InPool'
    BY ZenonT(60), <1>1, <1>2, <1>4, Kinds DEF Places, InPool, Types, ConnTypes
  <2> QED
    BY Zenon, <2>1, <2>2, <2>3, <2>4, <2>5, <2>6, <2>7 DEF Places
<1>10. Fresh'
  <2>1. calls \in Nat
    BY DEF Types, CallTypes
  <2>2. \A g \in Fibers : pc'[g] = "none" <=> pc[g] = "none"
    BY <1>1, <1>4
  <2> QED
    BY <1>1, <2>1, <2>2, FreshStays
<1>11. /\ \A g \in Loops : Live(g)' <=> Live(g)
       /\ \A g \in Stops : pc'[g] = pc[g] /\ (Live(g)' <=> Live(g))
  BY <1>1, <1>2, <1>4, Kinds DEF Live
<1>12. StopPending' <=> StopPending
  BY Zenon, <1>11 DEF StopPending
<1>13. Walks'
  <2> SUFFICES ASSUME NEW g \in Stops, pc'[g] \in StopRuns PROVE Walk(g)'
    BY Zenon DEF Walks
  <2>1. Walk(g) /\ pc'[g] = pc[g] /\ at'[g] = at[g] /\ Sock(g)' = Sock(g)
    BY Zenon, <1>1, <1>11 DEF Rounds, Walks, Sock
  <2>2. threads # 1
    <3>1. PICK u \in Threads : on[u] = g
      BY Zenon, <2>1, Kinds DEF Places, RunsOn, Runs
    <3>2. g # f /\ g # None /\ u <= threads /\ t <= threads
      BY Zenon, <1>1, <1>2, <3>1, Kinds DEF Places, OnThread
    <3>3. u \in Nat \ {0} /\ t \in Nat \ {0} /\ threads \in Nat
      BY Zenon, TcpAssumption DEF Types, CallTypes
    <3> QED
      BY <1>1, <3>1, <3>2, <3>3
  <2> QED
    BY Zenon, <1>1, <2>1, <2>2 DEF Walk
<1>14. LoopSocks' /\ SocksOnce'
  BY Zenon, <1>1, <1>11 DEF Rounds, LoopSocks, SocksOnce
<1>15. WaitOpen'
  BY Zenon, <1>1, <1>5 DEF Rounds, WaitOpen, s
<1>16. NoOverlap'
  BY Zenon, <1>1, <1>11, <1>12 DEF Rounds, NoOverlap
<1>17. SocksOpen'
  <2>1. \A r : Held(r)' <=> Held(r)
    BY Zenon, <1>1, <1>11 DEF Held
  <2> QED
    BY Zenon, <1>1, <1>12, <2>1 DEF Rounds, SocksOpen
<1>18. LoopsOnOpen'
  BY Zenon, <1>1, <1>11 DEF Rounds, LoopsOnOpen
<1>19. Rounds'
  BY Zenon, <1>13, <1>14, <1>15, <1>16, <1>17, <1>18 DEF Rounds
<1> QED
  BY Zenon, <1>7, <1>9, <1>10, <1>19

(* The assertion of addEvent (iomanager.cc:117) fails: somebody waits.     *)
LEMMA AbortKeeps ==
  ASSUME TcpInv, NEW t \in Threads, NEW f, f # None, addEvent(t, f), at[f] \in open, waiting[at[f]] # None
  PROVE  TcpInv'
<1> USE DEF TcpInv
<1>1. /\ on[t] = f /\ ~aborted /\ pc[f] = "add" /\ aborted' = TRUE
      /\ UNCHANGED <<threads, m_workers, calls, m_isStop, m_socks, made, overlap, on, pc>>
      /\ UNCHANGED <<open, hooked, listening, waiting, backlog, conns, pool, m_fibers, at>>
  BY Zenon DEF addEvent, On, callVars, connVars
<1>2. f \in Loops
  BY Zenon, <1>1, Running, Kinds DEF LoopRuns
<1>3. at[f] \in Socks
  <2>1. open \subseteq 1..made /\ made \in 0..MaxSocks /\ MaxSocks \in Nat
    BY Zenon, TcpAssumption DEF Types, SockTypes, CallTypes
  <2>2. \A r \in 1..made : r \in Socks
    BY <2>1 DEF Socks
  <2> QED
    BY Zenon, <2>1, <2>2
<1>4. overlap
  <2>1. waiting[at[f]] \in Loops /\ pc[waiting[at[f]]] = "hold" /\ at[waiting[at[f]]] = at[f]
    BY Zenon, <1>3 DEF Places, AtSocket, Types, SockTypes
  <2> QED
    BY Zenon, <1>1, <1>2, <2>1 DEF Rounds, NoOverlap, Live
<1>5. Types'
  BY Zenon, <1>1 DEF Types, CallTypes, SockTypes, ConnTypes, FiberTypes
<1>6. Places'
  BY Zenon, <1>1, PlacesMove
<1>7. Fresh'
  <2>1. calls \in Nat
    BY DEF Types, CallTypes
  <2> QED
    BY <1>1, <2>1, FreshStays
<1>8. (\A g : Live(g)' <=> Live(g)) /\ (StopPending' <=> StopPending) /\ (\A s : Held(s)' <=> Held(s))
  BY Zenon, <1>1 DEF Live, StopPending, Held
<1>9. Walks'
  BY Zenon, <1>1 DEF Rounds, Walks, Walk
<1>10. LoopSocks' /\ SocksOnce' /\ WaitOpen'
  BY Zenon, <1>1, <1>8 DEF Rounds, LoopSocks, SocksOnce, WaitOpen
<1>11. NoOverlap' /\ SocksOpen' /\ LoopsOnOpen'
  BY Zenon, <1>1, <1>4, <1>8 DEF Rounds, NoOverlap, SocksOpen, LoopsOnOpen
<1> QED
  BY Zenon, <1>5, <1>6, <1>7, <1>9, <1>10, <1>11 DEF Rounds


-----------------------------------------------------------------------------
(* stop() sets the flag and schedules a task (tcp_server.cc:66).           *)
LEMMA StopKeeps ==
  ASSUME TcpInv, stop
  PROVE  TcpInv'
<1> DEFINE f == [kind |-> "stop", id |-> calls + 1]
<1> USE DEF TcpInv
<1>1. /\ ~aborted /\ calls < MaxCalls /\ calls' = calls + 1 /\ m_isStop' = TRUE
      /\ m_fibers' = Append(m_fibers, f) /\ pc' = [pc EXCEPT ![f] = "queued"] /\ overlap' = (overlap \/ StopPending)
      /\ UNCHANGED <<threads, m_workers, m_socks, made>> /\ UNCHANGED <<open, hooked, listening, waiting>>
      /\ UNCHANGED <<backlog, conns, pool, on, at, aborted>>
  BY Zenon DEF stop, Call, sockVars, connVars
<1>2. calls \in Nat /\ calls + 1 \in 1..MaxCalls /\ calls + 1 > calls
  BY <1>1, TcpAssumption DEF Types, CallTypes
<1>3. f \in Stops /\ f.id = calls + 1
  BY Zenon, <1>2 DEF Stops
<1> HIDE DEF f
<1>4. f \in Fibers /\ f \notin Loops /\ f \notin Clients /\ pc[f] = "none" /\ f # None
  BY Zenon, <1>2, <1>3, Kinds DEF Fresh, FreshStops
<1>5. f \notin Elems(m_fibers) /\ f \notin pool /\ \A t \in Threads : on[t] # f
  BY Zenon, <1>4 DEF Places, InQueue, InPool, OnThread, Runs, LoopRuns, StopRuns
<1>6. m_fibers' \in Seq(Fibers) /\ QueueOnce' /\ Elems(m_fibers') = Elems(m_fibers) \cup {f}
  BY Zenon, <1>1, <1>4, <1>5, QueueGrows DEF Types, FiberTypes, Places
<1>7. \A g \in Fibers : pc'[g] = IF g = f THEN "queued" ELSE pc[g]
  BY Zenon, <1>1 DEF Types, FiberTypes
<1>8. Types'
  <2>1. FiberTypes'
    BY Zenon, <1>1, <1>3, <1>4, <1>6, LabelTypes DEF Types, FiberTypes, StopLabels
  <2> QED
    BY <1>1, <1>2, <2>1 DEF Types, CallTypes, SockTypes, ConnTypes
<1>9. Places'
  <2>1. \A g \in Elems(m_fibers) : g \in Fibers
    BY DEF Types, FiberTypes, Elems
  <2>2. InQueue'
    BY Zenon, <1>4, <1>6, <1>7, <2>1 DEF Places, InQueue
  <2>3. AtSocket'
    <3> SUFFICES ASSUME NEW s \in Socks, waiting[s] # None
                 PROVE  pc'[waiting[s]] = "hold" /\ at[waiting[s]] = s /\ waiting[s] \notin Elems(m_fibers')
      BY Zenon, <1>1 DEF AtSocket
    <3>1. waiting[s] \in Loops /\ waiting[s] \in Fibers /\ waiting[s] # f
      BY Zenon, <1>4, Kinds DEF Types, SockTypes
    <3> QED
      BY Zenon, <1>6, <1>7, <3>1 DEF Places, AtSocket
  <2>4. HoldReached'
    BY Zenon, <1>1, <1>4, <1>6, <1>7, Kinds DEF Places, HoldReached
  <2>5. OnThread' /\ OneThread'
    BY Zenon, <1>1, <1>5, <1>7 DEF Places, OnThread, OneThread, Types, FiberTypes
  <2>6. RunsOn'
    BY <1>1, <1>7 DEF Places, RunsOn, Runs, LoopRuns, StopRuns
  <2>7. InPool'
    BY Zenon, <1>1, <1>4, <1>5, <1>6, <1>7 DEF Places, InPool, Types, ConnTypes, Fibers
  <2> QED
    BY Zenon, <1>6, <2>2, <2>3, <2>4, <2>5, <2>6, <2>7 DEF Places
<1>10. Fresh'
  <2>1. FreshLoops'
    <3>1. \A g \in Loops : pc'[g] = pc[g]
      BY Zenon, <1>4, <1>7, Kinds
    <3> QED
      BY Zenon, <3>1 DEF Fresh, FreshLoops, Started
  <2>2. FreshStops'
    BY <1>1, <1>2, <1>3, <1>7, Kinds DEF Fresh, FreshStops
  <2>3. FreshClients'
    BY Zenon, <1>1, <1>4, <1>7, Kinds DEF Fresh, FreshClients
  <2> QED
    BY Zenon, <2>1, <2>2, <2>3 DEF Fresh
<1>11. /\ \A g \in Loops : Live(g)' <=> Live(g)
       /\ \A g \in Stops : Live(g)' <=> Live(g) \/ g = f
       /\ StopPending'
  BY Zenon, <1>3, <1>4, <1>7, Kinds DEF Live, StopPending
<1>12. \A s : Held(s)' <=> Held(s)
  BY Zenon, <1>1, <1>11 DEF Held
<1>13. Walks'
  BY <1>1, <1>7, Kinds DEF Rounds, Walks, Walk, Sock, StopRuns
<1>14. LoopSocks' /\ SocksOnce' /\ WaitOpen'
  BY Zenon, <1>1, <1>11 DEF Rounds, LoopSocks, SocksOnce, WaitOpen
<1>15. NoOverlap'
  <2>1. ASSUME ~overlap' PROVE ~overlap /\ \A g \in Stops : ~Live(g)
    BY Zenon, <1>1, <2>1 DEF StopPending
  <2> QED
    BY Zenon, <1>1, <1>11, <2>1 DEF Rounds, NoOverlap
<1>16. SocksOpen' /\ LoopsOnOpen'
  BY Zenon, <1>1, <1>11, <1>12 DEF Rounds, SocksOpen, LoopsOnOpen
<1> QED
  BY Zenon, <1>8, <1>9, <1>10, <1>13, <1>14, <1>15, <1>16 DEF Rounds

-----------------------------------------------------------------------------
(* start() schedules one loop for each socket (tcp_server.cc:46); when the *)
(* server is started already it does nothing.                              *)
LEMMA StartAgainKeeps ==
  ASSUME TcpInv, start, ~m_isStop
  PROVE  TcpInv'
<1> USE DEF TcpInv
<1>1. /\ calls < MaxCalls /\ calls' = calls + 1
      /\ UNCHANGED <<threads, m_workers, m_isStop, m_socks, made, overlap>>
      /\ UNCHANGED <<open, hooked, listening, waiting, backlog, conns, pool, m_fibers, on, pc, at, aborted>>
  BY Zenon DEF start, Call, sockVars, connVars
<1>2. calls' \in 0..MaxCalls /\ calls' \in Nat /\ calls' >= calls
  BY <1>1, TcpAssumption DEF Types, CallTypes
<1>3. Types'
  BY Zenon, <1>1, <1>2 DEF Types, CallTypes, SockTypes, ConnTypes, FiberTypes
<1>4. Places'
  BY Zenon, <1>1, PlacesMove
<1>5. Fresh'
  BY Zenon, <1>1, <1>2, FreshStays
<1>6. Rounds'
  <2>1. \A g : Live(g)' <=> Live(g)
    BY Zenon, <1>1 DEF Live
  <2> QED
    BY Zenon, <1>1, <2>1, RoundsStay
<1> QED
  BY Zenon, <1>3, <1>4, <1>5, <1>6

LEMMA StartKeeps ==
  ASSUME TcpInv, start, m_isStop
  PROVE  TcpInv'
<1> USE DEF TcpInv
<1> DEFINE k == CHOOSE i \in 0..MaxLoops : Started(i)
<1>1. k \in 0..MaxLoops /\ Started(k)
  BY Zenon DEF Fresh, FreshLoops
<1>2. \A f \in Loops : pc[f] = "none" <=> f.id > k
  BY Zenon, <1>1 DEF Started
<1> DEFINE n == Len(m_socks)
           loops == [i \in 1..n |-> [kind |-> "accept", id |-> k + i]]
<1>3. /\ ~aborted /\ calls < MaxCalls /\ calls' = calls + 1 /\ k + n <= MaxLoops
      /\ m_isStop' = FALSE /\ m_fibers' = m_fibers \o loops
      /\ pc' = [f \in Fibers |-> IF f \in Elems(loops) THEN "queued" ELSE pc[f]]
      /\ at' = [f \in Fibers |-> IF f \in Elems(loops) THEN m_socks[f.id - k] ELSE at[f]]
      /\ overlap' = (overlap \/ StopPending \/ \E f \in Loops : Live(f))
      /\ UNCHANGED <<threads, m_workers, m_socks, made>> /\ UNCHANGED <<open, hooked, listening, waiting>>
      /\ UNCHANGED <<backlog, conns, pool, on, aborted>>
  BY Zenon DEF start, Call, sockVars, connVars
<1> HIDE DEF k
<1>4. n \in Nat /\ k \in Nat /\ MaxLoops \in Nat /\ calls \in Nat
  BY <1>1, TcpAssumption DEF Types, CallTypes
<1>5. Len(loops) = n /\ \A i \in 1..n : loops[i] = [kind |-> "accept", id |-> k + i] /\ loops[i].id = k + i
  BY <1>4
<1>6. \A i \in 1..n : loops[i] \in Loops /\ loops[i] \in Fibers /\ pc[loops[i]] = "none"
  <2> HIDE DEF loops
  <2> SUFFICES ASSUME NEW i \in 1..n PROVE loops[i] \in Loops /\ loops[i] \in Fibers /\ pc[loops[i]] = "none"
    BY Zenon
  <2>1. k + n <= MaxLoops
    BY Zenon, <1>3
  <2>2. k + i \in 1..MaxLoops /\ k + i > k
    <3> HIDE DEF n
    <3> QED
      BY SMTT(30), <1>4, <2>1
  <2>3. loops[i] = [kind |-> "accept", id |-> k + i] /\ loops[i].id = k + i
    BY Zenon, <1>5
  <2>4. loops[i] \in Loops
    <3>1. [kind |-> "accept", id |-> k + i] \in Loops
      BY Zenon, <2>2 DEF Loops
    <3> QED
      BY Zenon, <2>3, <3>1
  <2>5. loops[i].id > k
    BY Zenon, <2>2, <2>3
  <2> QED
    BY Zenon, <1>2, <2>4, <2>5, Kinds
<1>7. loops \in Seq(Fibers) /\ Distinct(loops)
  BY SMTT(60), <1>4, <1>5, <1>6 DEF Distinct
<1> HIDE DEF loops
<1> DEFINE New == Elems(loops)
<1>8. \A f \in New : /\ f \in Loops /\ f \in Fibers /\ pc[f] = "none" /\ f.id - k \in 1..n /\ f = loops[f.id - k]
                     /\ f.id > k /\ f.id <= k + n
  <2> SUFFICES ASSUME NEW f \in New
               PROVE  /\ f \in Loops /\ f \in Fibers /\ pc[f] = "none" /\ f.id - k \in 1..n /\ f = loops[f.id - k]
                      /\ f.id > k /\ f.id <= k + n
    OBVIOUS
  <2>1. PICK i \in 1..n : f = loops[i]
    BY Zenon, <1>5 DEF Elems
  <2>2. f.id = k + i
    BY Zenon, <1>5, <2>1
  <2>3. (k + i) - k = i /\ k + i > k /\ k + i <= k + n
    BY Zenon, <1>4, Behind
  <2> QED
    BY Zenon, <1>6, <2>1, <2>2, <2>3
<1>9. \A f \in Loops : f.id > k /\ f.id <= k + n => f \in New
  <2> SUFFICES ASSUME NEW f \in Loops, f.id > k, f.id <= k + n PROVE f \in New
    OBVIOUS
  <2>1. f.id - k \in 1..n /\ k + (f.id - k) = f.id
    BY <1>4 DEF Loops
  <2>2. loops[f.id - k] = [kind |-> "accept", id |-> f.id]
    BY Zenon, <1>5, <2>1
  <2>3. loops[f.id - k] = f
    BY Zenon, <2>2 DEF Loops
  <2> QED
    BY Zenon, <1>5, <2>1, <2>3 DEF Elems
<1>10. /\ m_fibers' \in Seq(Fibers) /\ QueueOnce' /\ Elems(m_fibers') = Elems(m_fibers) \cup New
  <2>1. \A i \in 1..Len(m_fibers) : m_fibers[i] \in Elems(m_fibers)
    BY Zenon DEF Elems
  <2>2. \A i \in 1..Len(m_fibers) : pc[m_fibers[i]] \in {"queued", "hold"}
    BY Zenon, <2>1 DEF Places, InQueue
  <2>3. \A i \in 1..Len(m_fibers), j \in 1..Len(loops) : m_fibers[i] # loops[j]
    BY Zenon, <1>5, <1>6, <2>2
  <2>4. m_fibers \in Seq(Fibers) /\ QueueOnce
    BY Zenon DEF Types, FiberTypes, Places
  <2> QED
    BY Zenon, <1>3, <1>7, <2>3, <2>4, QueueConcat
<1> HIDE DEF New
<1>11. \A f \in Fibers : pc'[f] = IF f \in New THEN "queued" ELSE pc[f]
  BY Zenon, <1>3 DEF New
<1>12. \A f \in New : at'[f] \in Elems(m_socks) /\ at'[f] \in 1..made /\ at'[f] = m_socks[f.id - k]
  <2> SUFFICES ASSUME NEW f \in New
               PROVE  at'[f] \in Elems(m_socks) /\ at'[f] \in 1..made /\ at'[f] = m_socks[f.id - k]
    OBVIOUS
  <2>1. f \in Fibers /\ f.id - k \in 1..n
    BY Zenon, <1>8
  <2>2. at'[f] = m_socks[f.id - k]
    BY Zenon, <1>3, <2>1 DEF New
  <2>3. m_socks[f.id - k] \in Elems(m_socks) /\ m_socks[f.id - k] \in 1..made
    BY SMTT(60), <2>1 DEF Types, CallTypes, Elems
  <2> QED
    BY Zenon, <2>2, <2>3
<1>13. \A f \in Fibers : f \notin New => at'[f] = at[f]
  BY Zenon, <1>3 DEF New
<1>14. Types'
  <2>1. made \in Nat /\ \A i \in 1..made : i \in Nat
    BY DEF Types, CallTypes
  <2>2. pc' = [f \in Fibers |-> pc'[f]] /\ at' = [f \in Fibers |-> at'[f]]
    BY Zenon, <1>3
  <2>3. \A f \in Fibers : pc'[f] \in Labels /\ at'[f] \in Nat
    BY Zenon, <1>11, <1>12, <1>13, <2>1 DEF Types, FiberTypes, Labels, LoopLabels
  <2>4. /\ \A f \in Loops : pc'[f] \in LoopLabels
        /\ \A f \in Stops : pc'[f] \in StopLabels
        /\ \A f \in Clients : pc'[f] \in ClientLabels
    BY Zenon, <1>8, <1>11, Kinds DEF Types, FiberTypes, LoopLabels
  <2>5. pc' \in [Fibers -> Labels] /\ at' \in [Fibers -> Nat]
    BY Zenon, <2>2, <2>3
  <2>6. FiberTypes'
    BY Zenon, <1>3, <1>10, <2>4, <2>5 DEF Types, FiberTypes
  <2>7. calls' \in 0..MaxCalls
    BY <1>3, <1>4, TcpAssumption
  <2> QED
    BY ZenonT(60), <1>3, <2>6, <2>7 DEF Types, CallTypes, SockTypes, ConnTypes
<1>15. /\ \A t \in Threads : on[t] \notin New
       /\ \A f \in Elems(m_fibers) : f \in Fibers /\ f \notin New
       /\ \A s \in Socks : waiting[s] # None => waiting[s] \in Fibers /\ waiting[s] \notin New
       /\ \A f \in pool : f \in Fibers /\ f \notin New
  <2>1. \A t \in Threads : on[t] \notin New
    BY <1>8, Kinds DEF Places, OnThread, Runs, LoopRuns, StopRuns
  <2>2. \A f \in Elems(m_fibers) : f \in Fibers /\ f \notin New
    <3>1. \A f \in Elems(m_fibers) : f \in Fibers
      BY Zenon, Items DEF Types, FiberTypes
    <3>2. \A f \in Elems(m_fibers) : pc[f] # "none"
      BY Zenon DEF Places, InQueue
    <3> QED
      BY Zenon, <1>8, <3>1, <3>2
  <2>3. \A s \in Socks : waiting[s] # None => waiting[s] \in Fibers /\ waiting[s] \notin New
    BY <1>8, Kinds DEF Places, AtSocket, Types, SockTypes
  <2>4. \A f \in pool : f \in Fibers /\ f \notin New
    BY Zenon, <1>8, Kinds DEF Types, ConnTypes
  <2> QED
    BY Zenon, <2>1, <2>2, <2>3, <2>4
<1>16. Places'
  <2>1. InQueue'
    BY Zenon, <1>8, <1>10, <1>11, <1>15 DEF Places, InQueue
  <2>2. AtSocket'
    <3> SUFFICES ASSUME NEW s \in Socks, waiting[s] # None
                 PROVE  pc'[waiting[s]] = "hold" /\ at'[waiting[s]] = s /\ waiting[s] \notin Elems(m_fibers')
      BY ZenonT(60), <1>3 DEF AtSocket
    <3> QED
      BY Zenon, <1>10, <1>11, <1>13, <1>15 DEF Places, AtSocket
  <2>3. HoldReached'
    <3> SUFFICES ASSUME NEW f \in Loops, pc'[f] = "hold"
                 PROVE  at'[f] \in Socks /\ (f \in Elems(m_fibers') \/ waiting[at'[f]] = f)
      BY Zenon, <1>3 DEF HoldReached
    <3>1. f \in Fibers /\ f \notin New /\ pc[f] = "hold"
      BY Zenon, <1>11, Kinds
    <3>2. at'[f] = at[f]
      BY Zenon, <1>13, <3>1
    <3> QED
      BY Zenon, <1>10, <3>1, <3>2 DEF Places, HoldReached
  <2>4. OnThread' /\ OneThread'
    BY ZenonT(60), <1>3, <1>11, <1>15 DEF Places, OnThread, OneThread, Types, FiberTypes
  <2>5. RunsOn'
    BY Zenon, <1>3, <1>11 DEF Places, RunsOn, Runs, LoopRuns, StopRuns
  <2>6. InPool'
    BY Zenon, <1>3, <1>10, <1>11, <1>15 DEF Places, InPool
  <2> QED
    BY Zenon, <1>10, <2>1, <2>2, <2>3, <2>4, <2>5, <2>6 DEF Places
<1>17. Fresh'
  <2>1. FreshLoops'
    <3>1. k + n \in 0..MaxLoops
      BY <1>3, <1>4
    <3>2. \A f \in Loops : pc'[f] = "none" <=> f.id > k + n
      <4> SUFFICES ASSUME NEW f \in Loops PROVE pc'[f] = "none" <=> f.id > k + n
        OBVIOUS
      <4>1. f \in Fibers /\ f.id \in Nat
        BY Kinds
      <4>2. CASE f \in New
        BY <1>4, <1>8, <1>11, <4>1, <4>2
      <4>3. CASE f \notin New
        BY <1>2, <1>4, <1>9, <1>11, <4>1, <4>3
      <4> QED
        BY Zenon, <4>2, <4>3
    <3> QED
      BY Zenon, <3>1, <3>2 DEF FreshLoops, Started
  <2>2. FreshStops'
    <3>1. \A f \in Stops : pc'[f] = pc[f] /\ f.id \in Nat
      BY <1>8, <1>11, Kinds
    <3>2. \A i \in Nat : i > calls' => i > calls
      BY <1>3, <1>4
    <3> QED
      BY Zenon, <3>1, <3>2 DEF Fresh, FreshStops
  <2>3. FreshClients'
    <3>1. \A f \in Clients : pc'[f] = pc[f]
      BY Zenon, <1>8, <1>11, Kinds
    <3> QED
      BY Zenon, <1>3, <3>1 DEF Fresh, FreshClients
  <2> QED
    BY Zenon, <2>1, <2>2, <2>3 DEF Fresh
<1>18. /\ \A g \in Loops : (Live(g)' <=> Live(g) \/ g \in New) /\ (g \in New => ~Live(g))
       /\ \A g \in Loops : g \notin New => at'[g] = at[g]
       /\ \A g \in Stops : pc'[g] = pc[g] /\ at'[g] = at[g] /\ (Live(g)' <=> Live(g))
  BY Zenon, <1>8, <1>11, <1>13, Kinds DEF Live
<1>19. StopPending' <=> StopPending
  BY Zenon, <1>18 DEF StopPending
<1>20. Walks'
  <2>1. \A g \in Stops : Sock(g)' = Sock(g)
    BY Zenon, <1>3, <1>18 DEF Sock
  <2> QED
    BY ZenonT(60), <1>3, <1>18, <2>1 DEF Rounds, Walks, Walk
<1>21. LoopSocks'
  BY Zenon, <1>3, <1>12, <1>18 DEF Rounds, LoopSocks
<1>22. SocksOnce' /\ WaitOpen'
  BY Zenon, <1>3 DEF Rounds, SocksOnce, WaitOpen
<1>23. ASSUME ~overlap'
       PROVE  /\ ~overlap /\ ~StopPending /\ \A g \in Loops : ~Live(g)
              /\ \A g \in Loops : Live(g)' => g \in New
  BY Zenon, <1>3, <1>18, <1>23
<1>24. NoOverlap'
  <2> SUFFICES ASSUME ~overlap'
               PROVE  /\ StopPending' => m_isStop'
                      /\ \A f, g \in Stops : Live(f)' /\ Live(g)' => f = g
                      /\ \A f, g \in Loops : Live(f)' /\ Live(g)' /\ at'[f] = at'[g] => f = g
    BY Zenon DEF NoOverlap
  <2>1. ASSUME NEW f \in New, NEW g \in New, at'[f] = at'[g] PROVE f = g
    <3>1. f.id - k \in 1..n /\ g.id - k \in 1..n /\ f = loops[f.id - k] /\ g = loops[g.id - k]
      BY Zenon, <1>8
    <3>2. m_socks[f.id - k] = m_socks[g.id - k]
      BY Zenon, <1>12, <2>1
    <3>3. f.id - k = g.id - k
      BY Zenon, <3>1, <3>2 DEF Rounds, SocksOnce, Distinct
    <3> QED
      BY Zenon, <3>1, <3>3
  <2> QED
    BY Zenon, <1>18, <1>19, <1>23, <2>1 DEF Rounds, NoOverlap
<1>25. SocksOpen'
  <2>1. \A s : Held(s) => Held(s)'
    BY Zenon, <1>18 DEF Held
  <2> QED
    BY Zenon, <1>3, <1>19, <2>1 DEF Rounds, SocksOpen
<1>26. LoopsOnOpen'
  <2>1. aborted => overlap'
    BY Zenon, <1>3
  <2>2. ASSUME NEW g \in Loops, Live(g)', at'[g] \notin open, ~overlap' PROVE FALSE
    <3>1. g \in New /\ at'[g] \in Elems(m_socks) /\ ~StopPending
      BY Zenon, <1>12, <1>23, <2>2
    <3> QED
      BY Zenon, <2>2, <3>1 DEF Rounds, SocksOpen
  <2> QED
    BY Zenon, <1>3, <2>1, <2>2 DEF LoopsOnOpen
<1> QED
  BY ZenonT(60), <1>14, <1>16, <1>17, <1>20, <1>21, <1>22, <1>24, <1>25, <1>26 DEF Rounds


-----------------------------------------------------------------------------
(* bind() makes sockets (tcp_server.cc:18): they are new, and m_socks has  *)
(* each once.  When one of them fails m_socks is cleared, and the sockets  *)
(* that no loop uses are closed.                                           *)
LEMMA SocksGrow ==
  ASSUME NEW a \in Nat, NEW n \in Nat, NEW q \in Seq(1..a), Distinct(q)
  PROVE  /\ q \o [i \in 1..n |-> a + i] \in Seq(1..(a + n)) /\ Distinct(q \o [i \in 1..n |-> a + i])
         /\ Elems(q \o [i \in 1..n |-> a + i]) = Elems(q) \cup ((a + 1)..(a + n))
<1> DEFINE S == 1..(a + n)
           more == [i \in 1..n |-> a + i]
<1>1. Len(more) = n /\ \A i \in 1..n : more[i] = a + i /\ more[i] \in S
  OBVIOUS
<1>2. more \in Seq(S) /\ q \in Seq(S)
  <2>1. 1..a \subseteq S
    OBVIOUS
  <2>2. Seq(1..a) \subseteq Seq(S)
    BY <2>1
  <2> QED
    BY <1>1, <2>2
<1>3. Elems(more) = (a + 1)..(a + n) /\ Distinct(more)
  <2>1. \A x \in (a + 1)..(a + n) : x - a \in 1..n /\ more[x - a] = x
    OBVIOUS
  <2>2. \A i \in 1..n : more[i] \in (a + 1)..(a + n)
    OBVIOUS
  <2>3. \A i, j \in 1..n : more[i] = more[j] => i = j
    OBVIOUS
  <2> HIDE DEF more
  <2>4. Distinct(more)
    BY Zenon, <1>1, <2>3 DEF Distinct
  <2>5. Elems(more) \subseteq (a + 1)..(a + n)
    BY Zenon, <1>1, <2>2 DEF Elems
  <2>6. \A x \in (a + 1)..(a + n) : x \in Elems(more)
    BY Zenon, <1>1, <2>1 DEF Elems
  <2> QED
    BY Zenon, <2>4, <2>5, <2>6
<1>4. \A i \in 1..Len(q), j \in 1..Len(more) : q[i] # more[j]
  <2> SUFFICES ASSUME NEW i \in 1..Len(q), NEW j \in 1..Len(more) PROVE q[i] # more[j]
    OBVIOUS
  <2>1. q[i] \in 1..a
    OBVIOUS
  <2> QED
    BY <1>1, <2>1
<1> HIDE DEF S, more
<1>5. q \o more \in Seq(S) /\ Joined(q, more, q \o more)
  BY Zenon, <1>2, <1>4, Concat
<1>6. Distinct(q \o more) /\ Elems(q \o more) = Elems(q) \cup Elems(more)
  BY Zenon, <1>3, <1>5, TwoParts
<1> QED
  BY Zenon, <1>3, <1>5, <1>6 DEF S, more

LEMMA BindKeeps ==
  ASSUME TcpInv, NEW n \in 1..MaxSocks, NEW bad, NEW deaf, bind(n, bad, deaf)
  PROVE  TcpInv'
<1> DEFINE new == (made + 1)..(made + n)
           kept == Elems(m_socks') \cup {s \in Socks : Held(s)}
<1> USE DEF TcpInv
<1>1. /\ calls < MaxCalls /\ calls' = calls + 1 /\ ~StopPending /\ made + n <= MaxSocks
      /\ made' = made + n /\ listening' \subseteq listening \cup new
      /\ m_socks' = IF bad = {} THEN m_socks \o [i \in 1..n |-> made + i] ELSE <<>>
      /\ open' = (open \cup new) \cap kept /\ hooked' = (hooked \cup new) \cap kept
      /\ UNCHANGED <<threads, m_workers, m_isStop, overlap, waiting, backlog, conns, pool>>
      /\ UNCHANGED <<m_fibers, on, pc, at, aborted>>
  BY Zenon DEF bind, Call, connVars, fiberVars
<1>2. /\ made \in Nat /\ n \in Nat /\ made' \in 0..MaxSocks /\ calls \in Nat
      /\ calls' \in 0..MaxCalls /\ calls' \in Nat /\ calls' >= calls
  BY <1>1, TcpAssumption DEF Types, CallTypes
<1>3. (\A s \in 1..made : s \in 1..made' /\ s \in Socks) /\ (\A s \in new : s \in 1..made')
  BY <1>1, <1>2, TcpAssumption DEF Socks
<1>4. /\ m_socks' \in Seq(1..made') /\ SocksOnce'
      /\ \/ Elems(m_socks') = {}
         \/ Elems(m_socks') = Elems(m_socks) \cup new
  <2>1. CASE bad = {}
    <3>1. m_socks \in Seq(1..made) /\ Distinct(m_socks)
      BY Zenon DEF Types, CallTypes, Rounds, SocksOnce
    <3> DEFINE r == m_socks \o [i \in 1..n |-> made + i]
    <3>2. r \in Seq(1..(made + n)) /\ Distinct(r) /\ Elems(r) = Elems(m_socks) \cup new
      BY Zenon, <1>2, <3>1, SocksGrow
    <3>3. m_socks' = r
      BY Zenon, <1>1, <2>1
    <3> HIDE DEF r
    <3> QED
      BY Zenon, <1>1, <3>2, <3>3 DEF SocksOnce
  <2>2. CASE bad # {}
    <3>1. m_socks' = <<>>
      BY Zenon, <1>1, <2>2
    <3>2. <<>> \in Seq(1..made') /\ Distinct(<<>>) /\ Elems(<<>>) = {}
      BY Zenon, NoItems
    <3> QED
      BY Zenon, <3>1, <3>2 DEF SocksOnce
  <2> QED
    BY Zenon, <2>1, <2>2
<1> HIDE DEF new, kept
<1>5. Types'
  <2>1. open' \subseteq 1..made' /\ hooked' \subseteq open' /\ listening' \subseteq 1..made'
    BY Zenon, <1>1, <1>3 DEF Types, SockTypes
  <2>2. SockTypes'
    BY Zenon, <1>1, <2>1 DEF Types, SockTypes
  <2>3. CallTypes'
    BY Zenon, <1>1, <1>2, <1>4 DEF Types, CallTypes
  <2>4. ConnTypes' /\ FiberTypes'
    BY Zenon, <1>1 DEF Types, ConnTypes, FiberTypes
  <2> QED
    BY Zenon, <2>2, <2>3, <2>4 DEF Types
<1>6. Places'
  BY Zenon, <1>1, PlacesMove
<1>7. Fresh'
  BY Zenon, <1>1, <1>2, FreshStays
<1>8. (\A g : Live(g)' <=> Live(g)) /\ ~StopPending' /\ (\A s : Held(s)' <=> Held(s))
  BY Zenon, <1>1 DEF Live, StopPending, Held
<1>9. ASSUME NEW g \in Loops, Live(g)
      PROVE  at[g] \in 1..made /\ at[g] \in kept /\ (at[g] \in open => at[g] \in open')
  <2>1. at[g] \in 1..made /\ at[g] \in Socks
    BY Zenon, <1>3, <1>9 DEF Rounds, LoopSocks
  <2>2. at[g] \in kept
    BY Zenon, <1>9, <2>1 DEF kept, Held
  <2> QED
    BY Zenon, <1>1, <2>1, <2>2
<1>10. Walks'
  <2>1. \A g \in Stops : pc[g] \notin StopRuns
    BY Zenon, <1>1 DEF StopPending, Live, StopRuns
  <2> QED
    BY Zenon, <1>1, <2>1 DEF Walks
<1>11. LoopSocks'
  BY Zenon, <1>1, <1>3, <1>8, <1>9 DEF LoopSocks
<1>12. WaitOpen'
  <2> SUFFICES ASSUME NEW s \in Socks, waiting[s] # None, s \notin open' PROVE threads > 1
    BY Zenon, <1>1 DEF WaitOpen
  <2>1. waiting[s] \in Loops /\ pc[waiting[s]] = "hold" /\ at[waiting[s]] = s
    BY Zenon DEF Types, SockTypes, Places, AtSocket
  <2>2. Live(waiting[s])
    BY Zenon, <2>1 DEF Live
  <2>3. s \notin open
    BY Zenon, <1>9, <2>1, <2>2
  <2> QED
    BY Zenon, <2>3 DEF Rounds, WaitOpen
<1>13. NoOverlap'
  BY Zenon, <1>1, <1>8 DEF Rounds, NoOverlap
<1>14. SocksOpen'
  <2>1. ASSUME NEW s \in Elems(m_socks') PROVE s \in open'
    <3>1. s \in open \cup new
      BY Zenon, <1>1, <1>4, <2>1 DEF Rounds, SocksOpen
    <3>2. s \in kept
      BY Zenon, <2>1 DEF kept
    <3> QED
      BY Zenon, <1>1, <3>1, <3>2
  <2>2. ASSUME NEW s \in open' PROVE s \in Elems(m_socks') \/ Held(s)'
    BY Zenon, <1>1, <1>8, <2>2 DEF kept
  <2> QED
    BY Zenon, <2>1, <2>2 DEF SocksOpen
<1>15. LoopsOnOpen'
  BY Zenon, <1>1, <1>8, <1>9 DEF Rounds, LoopsOnOpen
<1> QED
  BY Zenon, <1>4, <1>5, <1>6, <1>7, <1>10, <1>11, <1>12, <1>13, <1>14, <1>15 DEF Rounds


-----------------------------------------------------------------------------
(* A step of the loop on a thread (tcp_server.cc:75).                      *)
LEMMA LoopKeeps ==
  ASSUME TcpInv, NEW t \in Threads, NEW f, f # None,
         test(t, f) \/ accept(t, f) \/ try(t, f) \/ direct(t, f) \/ addEvent(t, f)
  PROVE  TcpInv'
<1>1. on[t] = f /\ pc[f] \in LoopRuns
  BY Zenon DEF test, accept, try, direct, accept_f, addEvent, On, LoopRuns
<1>2. f \in Loops
  BY Zenon, <1>1, Running DEF TcpInv
<1> DEFINE GoesOn == \E l \in LoopRuns : /\ pc' = [pc EXCEPT ![f] = l]
                                         /\ UNCHANGED <<callVars, sockVars, connVars, m_fibers, on, at, aborted>>
<1>3. ASSUME GoesOn PROVE TcpInv'
  BY Zenon, <1>1, <1>2, <1>3, LoopGoesOn
<1>4. {"test", "accept", "try", "direct", "add"} = LoopRuns
  BY Zenon DEF LoopRuns
<1>5. CASE test(t, f)
  <2>1. CASE m_isStop
    BY Zenon, <1>5, <2>1, LoopEndKeeps
  <2>2. CASE ~m_isStop
    <3>1. GoesOn
      BY Zenon, <1>4, <1>5, <2>2 DEF test, Goto, sockVars
    <3> QED
      BY Zenon, <1>3, <3>1
  <2> QED
    BY Zenon, <2>1, <2>2
<1>6. CASE accept(t, f)
  <2>1. GoesOn
    BY Zenon, <1>4, <1>6 DEF accept, Goto
  <2> QED
    BY Zenon, <1>3, <2>1
<1>7. ASSUME NEW label, accept_f(t, f, label) PROVE TcpInv'
  <2>1. CASE \E c \in backlog[at[f]] :
               /\ backlog' = [backlog EXCEPT ![at[f]] = @ \ {c}]
               /\ handClient(c) /\ pc' = [pc EXCEPT ![f] = "test", ![Client(c)] = "queued"] /\ conns' = conns
    <3>1. UNCHANGED <<callVars, sockVars, on, at, aborted>>
      BY Zenon, <1>7 DEF accept_f
    <3> QED
      BY Zenon, <1>1, <1>2, <2>1, <3>1, ClientKeeps
  <2>2. CASE \E l \in LoopRuns : pc' = [pc EXCEPT ![f] = l] /\ UNCHANGED <<connVars, m_fibers>>
    <3>1. GoesOn
      BY Zenon, <1>7, <2>2 DEF accept_f
    <3> QED
      BY Zenon, <1>3, <3>1
  <2> QED
    BY Zenon, <1>4, <1>7, <2>1, <2>2 DEF accept_f, Goto
<1>8. CASE addEvent(t, f)
  <2>1. CASE at[f] \notin open
    <3>1. GoesOn
      BY Zenon, <1>4, <1>8, <2>1 DEF addEvent, Goto, sockVars
    <3> QED
      BY Zenon, <1>3, <3>1
  <2>2. CASE at[f] \in open
    BY Zenon, <1>8, <2>2, WaitKeeps, AbortKeeps
  <2> QED
    BY Zenon, <2>1, <2>2
<1> QED
  BY Zenon, <1>5, <1>6, <1>7, <1>8 DEF try, direct

LEMMA TcpStep ==
  ASSUME TcpInv, [TcpNext]_tcpVars
  PROVE  TcpInv'
<1>1. ASSUME NEW t \in Threads, Thread(t) PROVE TcpInv'
  <2>1. CASE run(t)
    BY Zenon, <2>1, RunKeeps
  <2>2. ASSUME NEW f, f # None, Step(t, f) PROVE TcpInv'
    BY Zenon, <2>2, LoopKeeps, CancelKeeps, CloseKeeps, ClearKeeps, HandleKeeps DEF Step
  <2> QED
    BY Zenon, <1>1, <2>1, <2>2 DEF Thread
<1>2. CASE IdleStep
  BY Zenon, <1>2, DispatchKeeps DEF IdleStep
<1>3. CASE Workers
  BY Zenon, <1>3, WorkerKeeps DEF Workers
<1>4. CASE User
  BY Zenon, <1>4, BindKeeps, StartAgainKeeps, StartKeeps, StopKeeps DEF User
<1>5. CASE \E s \in Socks : Connect(s)
  BY Zenon, <1>5, ConnectKeeps
<1>6. CASE UNCHANGED tcpVars
  <2>1. /\ UNCHANGED <<threads, m_workers, calls, m_isStop, m_socks, made, overlap>>
        /\ UNCHANGED <<open, hooked, listening, waiting, backlog, conns, pool, m_fibers, on, pc, at, aborted>>
    BY Zenon, <1>6 DEF tcpVars, callVars, sockVars, connVars, fiberVars
  <2>2. Types'
    BY Zenon, <2>1 DEF TcpInv, Types, CallTypes, SockTypes, ConnTypes, FiberTypes
  <2>3. Places'
    BY Zenon, <2>1, PlacesMove DEF TcpInv
  <2>4. Fresh'
    <3>1. calls \in Nat /\ calls >= calls
      BY DEF TcpInv, Types, CallTypes
    <3> QED
      BY Zenon, <2>1, <3>1, FreshStays DEF TcpInv
  <2>5. Rounds'
    <3>1. \A g : Live(g)' <=> Live(g)
      BY Zenon, <2>1 DEF Live
    <3> QED
      BY Zenon, <2>1, <3>1, RoundsStay DEF TcpInv
  <2> QED
    BY Zenon, <2>2, <2>3, <2>4, <2>5 DEF TcpInv
<1> QED
  BY Zenon, <1>1, <1>2, <1>3, <1>4, <1>5, <1>6 DEF TcpNext

LEMMA TcpStart ==
  ASSUME TcpInit
  PROVE  TcpInv
<1> USE DEF TcpInit
<1>1. /\ \A f \in Fibers : pc[f] = "none" /\ at[f] = 0 /\ ~Live(f)
      /\ \A s \in Socks : waiting[s] = None /\ backlog[s] = {}
      /\ \A t \in Threads : on[t] = None
  BY Zenon DEF Live
<1>2. m_fibers \in Seq(Fibers) /\ Distinct(m_fibers) /\ Elems(m_fibers) = {}
  BY Zenon, NoItems
<1>3. m_socks \in Seq(1..made) /\ Distinct(m_socks) /\ Elems(m_socks) = {}
  BY Zenon, NoItems
<1>4. 0 \in 0..MaxCalls /\ 0 \in 0..MaxSocks /\ 0 \in 0..MaxLoops /\ conns \in 0..MaxConns[threads]
  BY TcpAssumption
<1>5. Types
  <2>1. CallTypes
    BY Zenon, <1>3, <1>4 DEF CallTypes
  <2>2. SockTypes /\ ConnTypes
    BY Zenon, <1>4 DEF SockTypes, ConnTypes
  <2>3. pc \in [Fibers -> Labels] /\ at \in [Fibers -> Nat] /\ on \in [Threads -> Fibers \cup {None}]
    BY Zenon DEF Labels, LoopLabels
  <2>4. FiberTypes
    BY Zenon, <1>1, <1>2, <2>3, Kinds DEF FiberTypes, LoopLabels, StopLabels, ClientLabels
  <2> QED
    BY Zenon, <2>1, <2>2, <2>4 DEF Types
<1>6. Places
  <2>1. QueueOnce /\ InQueue /\ AtSocket
    BY Zenon, <1>1, <1>2 DEF QueueOnce, InQueue, AtSocket
  <2>2. HoldReached /\ RunsOn
    BY Zenon, <1>1, Kinds DEF HoldReached, RunsOn, Runs, LoopRuns, StopRuns
  <2>3. OnThread /\ OneThread /\ InPool
    BY Zenon, <1>1 DEF OnThread, OneThread, InPool
  <2> QED
    BY Zenon, <2>1, <2>2, <2>3 DEF Places
<1>7. Fresh
  <2>1. \A f \in Loops : pc[f] = "none" <=> f.id > 0
    BY <1>1, Kinds
  <2>2. FreshLoops
    BY Zenon, <1>4, <2>1 DEF FreshLoops, Started
  <2>3. FreshStops
    BY Zenon, <1>1, Kinds DEF FreshStops
  <2>4. FreshClients
    BY Zenon, <1>1, Kinds DEF FreshClients
  <2> QED
    BY Zenon, <2>2, <2>3, <2>4 DEF Fresh
<1>8. (\A f \in Loops : ~Live(f)) /\ (\A f \in Stops : ~Live(f) /\ pc[f] = "none")
  BY Zenon, <1>1, Kinds
<1>9. Rounds
  <2>1. Walks
    BY Zenon, <1>8 DEF Walks, StopRuns
  <2>2. LoopSocks /\ SocksOnce /\ WaitOpen
    BY Zenon, <1>1, <1>3, <1>8 DEF LoopSocks, SocksOnce, WaitOpen
  <2>3. NoOverlap
    BY Zenon, <1>8 DEF NoOverlap, StopPending
  <2>4. SocksOpen /\ LoopsOnOpen
    BY Zenon, <1>3, <1>8 DEF SocksOpen, LoopsOnOpen
  <2> QED
    BY Zenon, <2>1, <2>2, <2>3, <2>4 DEF Rounds
<1> QED
  BY Zenon, <1>5, <1>6, <1>7, <1>9 DEF TcpInv

(* The invariant gives the four parts of AcceptSound.                      *)
LEMMA TcpInvSound ==
  ASSUME TcpInv
  PROVE  AcceptSound
<1> USE DEF TcpInv
<1>1. Elems(m_socks) \subseteq 1..made /\ Elems(m_fibers) \subseteq Fibers
  BY Zenon, Items DEF Types, CallTypes, FiberTypes
<1>2. made <= MaxSocks
  BY TcpAssumption DEF Types, CallTypes
<1>3. TcpTypeOK
  <2>1. /\ \A s \in Socks : waiting[s] \in Loops \cup {None} /\ backlog[s] \subseteq 1..conns
        /\ \A t \in Threads : on[t] \in Fibers \cup {None}
    BY Zenon DEF Types, SockTypes, ConnTypes, FiberTypes
  <2> QED
    BY ZenonT(60), <1>1, <1>2, <2>1 DEF TcpTypeOK, Types, CallTypes, SockTypes, ConnTypes
<1>4. WaitReachable
  <2> SUFFICES ASSUME NEW f \in Loops, pc[f] = "hold"
               PROVE  /\ f \in Elems(m_fibers) \/ waiting[at[f]] = f
                      /\ Orphan(f) => threads > 1
    BY Zenon DEF WaitReachable
  <2>1. at[f] \in Socks /\ (f \in Elems(m_fibers) \/ waiting[at[f]] = f)
    BY Zenon DEF Places, HoldReached
  <2>2. f # None
    BY Zenon, Kinds
  <2> QED
    BY Zenon, <2>1, <2>2 DEF Orphan, Rounds, WaitOpen
<1> QED
  BY Zenon, <1>3, <1>4 DEF AcceptSound, Rounds

(* The accept side of a server is sound with any number of threads,        *)
(* sockets, loops, calls of bind, start and stop and connections           *)
(* (tcp_server.cc): what start() gives to a loop is open, a failed bind    *)
(* leaves no socket behind, a waiting loop is reached by a connection and  *)
(* by stop() but for the one window that a second thread opens, and a loop *)
(* goes on with a closed socket, or addEvent asserts, only when start()    *)
(* came before the end of what stop() stops.                               *)
THEOREM AcceptIsSound == TcpSpec => []AcceptSound
<1>1. TcpInit => TcpInv
  BY Zenon, TcpStart
<1>2. TcpInv /\ [TcpNext]_tcpVars => TcpInv'
  BY Zenon, TcpStep
<1>3. TcpInv => AcceptSound
  BY Zenon, TcpInvSound
<1> QED
  BY <1>1, <1>2, <1>3, PTL DEF TcpSpec
=============================================================================
