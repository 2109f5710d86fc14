----------------------------- MODULE TcpServer -----------------------------
(***************************************************************************)
(* TcpServer (tcp_server.cc) with the part of Socket it uses (socket.cc):  *)
(* bind, start and stop, and the accept loops and the tasks of stop(),     *)
(* which run as fibers of the accept worker, an IOManager with some        *)
(* threads.  ~TcpServer runs when no loop and no task is left.             *)
(*                                                                         *)
(* accept() is the hooked call: it looks the descriptor up, tries, and     *)
(* registers a READ event when nobody is there (module HookIO, where also  *)
(* the second use of a descriptor number is).  A fiber keeps its thread    *)
(* until it yields or ends: what a thread runs is one fiber's steps.       *)
(***************************************************************************)
EXTENDS Naturals, FiniteSets, Sequences

CONSTANTS
  Threads,           \* the threads an accept worker may have, 1..n
  MaxCalls,          \* bound: calls of bind, start and stop
  MaxSocks,          \* bound: sockets that bind ever makes
  MaxLoops,          \* bound: accept loops that are ever started
  MaxConns,          \* bound: connections that ever come in, per number of threads
  MaxFds,            \* the clients the process has descriptors for
  None

VARIABLES
  threads,           \* the threads of this accept worker
  m_workers,         \* there are other IOManagers for the clients
  calls,             \* calls so far
  m_isStop, m_socks,
  made,              \* sockets made so far: 1..made
  open,              \* the sockets with m_sock # -1
  hooked,            \* the sockets with a descriptor context
  listening,         \* the sockets on which ::listen succeeded
  waiting,           \* per socket: the fiber with its READ event, or None
  backlog,           \* per socket: the connections not accepted yet
  conns,             \* connections so far: 1..conns
  m_fibers,          \* the queue of the accept worker
  on,                \* per thread: the fiber it runs, or None
  pc, at,            \* per fiber: where it is; its socket, or the index into m_socks
  pool,              \* the clients in the queues of m_workers
  aborted,           \* addEvent's assertion failed, or a vector was cleared under a loop over it
  overlap            \* history: start() or stop() came before the end of what a stop() stops

callVars == <<threads, m_workers, calls, m_isStop, m_socks, made, overlap>>
sockVars == <<open, hooked, listening, waiting>>
connVars == <<backlog, conns, pool>>
fiberVars == <<m_fibers, on, pc, at>>
tcpVars == <<callVars, sockVars, connVars, fiberVars, aborted>>

Socks == 1..MaxSocks
Loops == [kind : {"accept"}, id : 1..MaxLoops]
Stops == [kind : {"stop"}, id : 1..MaxCalls]
Clients == [kind : {"client"}, id : UNION {1..MaxConns[n] : n \in Threads}]
Fibers == Loops \cup Stops \cup Clients
Client(c) == [kind |-> "client", id |-> c]

ASSUME TcpAssumption ==
  /\ MaxCalls \in Nat /\ MaxSocks \in Nat /\ MaxLoops \in Nat /\ MaxFds \in Nat
  /\ Threads \subseteq Nat \ {0} /\ \A n \in Threads : 1..n \subseteq Threads
  /\ \A n \in Threads : MaxConns[n] \in Nat
  /\ None \notin Fibers

TcpInit ==
  /\ threads \in Threads /\ m_workers \in BOOLEAN
  /\ calls = 0 /\ m_isStop = TRUE /\ m_socks = <<>> /\ made = 0
  /\ open = {} /\ hooked = {} /\ listening = {} /\ waiting = [s \in Socks |-> None]
  /\ backlog = [s \in Socks |-> {}] /\ conns = 0 /\ pool = {}
  /\ m_fibers = <<>> /\ on = [t \in Threads |-> None]
  /\ pc = [f \in Fibers |-> "none"] /\ at = [f \in Fibers |-> 0]
  /\ aborted = FALSE /\ overlap = FALSE

-----------------------------------------------------------------------------
Elems(q) == {q[i] : i \in 1..Len(q)}
Live(f) == pc[f] \notin {"none", "end"}
Held(s) == \E f \in Loops : Live(f) /\ at[f] = s
StopPending == \E f \in Stops : Live(f)
Idle == {t \in 1..threads : on[t] = None}

(* A call of the user's, by a fiber or by any other thread.                *)
Call == ~aborted /\ calls < MaxCalls /\ calls' = calls + 1

(* Socket::~Socket of the sockets in S: hook close finds no waiter, who    *)
(* would hold a pointer.                                                   *)
Destruct(S) == open' = open \ S /\ hooked' = hooked \ S

(* bind(addrs, fails) for n addresses: for those in bad ::bind fails, for  *)
(* those in deaf ::listen does, of which Socket::listen says nothing.      *)
(* bind changes m_socks, so the user calls it while no task of stop() is   *)
(* walking through it.                                                     *)
bind(n, bad, deaf) ==
  LET new == (made + 1)..(made + n)
  IN  /\ Call /\ ~StopPending /\ made + n <= MaxSocks
      /\ bad \subseteq new /\ deaf \subseteq new \ bad
      /\ made' = made + n /\ listening' = listening \cup (new \ (bad \cup deaf))
      /\ m_socks' = IF bad = {} THEN m_socks \o [i \in 1..n |-> made + i] ELSE <<>>
      /\ LET kept == Elems(m_socks') \cup {s \in Socks : Held(s)}
         IN  open' = (open \cup new) \cap kept /\ hooked' = (hooked \cup new) \cap kept
      /\ UNCHANGED <<threads, m_workers, m_isStop, overlap, waiting, connVars, fiberVars, aborted>>

(* start(): one accept loop for each socket.  The loops are numbered as    *)
(* they are started.                                                       *)
Started(k) == \A f \in Loops : pc[f] = "none" <=> f.id > k
start ==
  LET n == Len(m_socks)
      first == CHOOSE k \in 0..MaxLoops : Started(k)
      loops == [i \in 1..n |-> [kind |-> "accept", id |-> first + i]]
  IN  /\ Call
      /\ IF ~m_isStop THEN UNCHANGED <<m_isStop, m_fibers, pc, at, overlap>>
         ELSE /\ first + n <= MaxLoops
              /\ m_isStop' = FALSE /\ m_fibers' = m_fibers \o loops
              /\ pc' = [f \in Fibers |-> IF f \in Elems(loops) THEN "queued" ELSE pc[f]]
              /\ at' = [f \in Fibers |-> IF f \in Elems(loops) THEN m_socks[f.id - first] ELSE at[f]]
              /\ overlap' = (overlap \/ StopPending \/ \E f \in Loops : Live(f))
      /\ UNCHANGED <<threads, m_workers, m_socks, made, sockVars, connVars, on, aborted>>

(* stop(): the flag now, the sockets in a task.                            *)
stop ==
  /\ Call /\ m_isStop' = TRUE
  /\ LET f == [kind |-> "stop", id |-> calls + 1]
     IN  m_fibers' = Append(m_fibers, f) /\ pc' = [pc EXCEPT ![f] = "queued"]
  /\ overlap' = (overlap \/ StopPending)
  /\ UNCHANGED <<threads, m_workers, m_socks, made, sockVars, connVars, on, at, aborted>>

-----------------------------------------------------------------------------
(* The threads of the accept worker.                                       *)
Entry(f) == CASE f.kind = "accept" -> IF pc[f] = "queued" THEN "test" ELSE "try"
              [] f.kind = "stop" -> "cancelAll" [] f.kind = "client" -> "handle"
run(t) ==
  /\ ~aborted /\ on[t] = None /\ t <= threads /\ m_fibers # <<>>
  /\ LET f == Head(m_fibers) IN
     /\ m_fibers' = Tail(m_fibers) /\ on' = [on EXCEPT ![t] = f]
     /\ pc' = [pc EXCEPT ![f] = Entry(f)]
     /\ at' = IF f.kind = "stop" THEN [at EXCEPT ![f] = 1] ELSE at
  /\ UNCHANGED <<callVars, sockVars, connVars, aborted>>

(* The READ event of s is triggered: its fiber is scheduled again.         *)
trigger(s) ==
  /\ waiting' = [waiting EXCEPT ![s] = None]
  /\ m_fibers' = IF waiting[s] = None THEN m_fibers ELSE Append(m_fibers, waiting[s])

(* idle() on a free thread.                                                *)
Dispatch(s) ==
  /\ ~aborted /\ Idle # {} /\ waiting[s] # None /\ s \in open /\ backlog[s] # {} /\ trigger(s)
  /\ UNCHANGED <<callVars, open, hooked, listening, connVars, on, pc, at, aborted>>

On(t, f, label) == ~aborted /\ on[t] = f /\ pc[f] = label
Goto(f, label) == pc' = [pc EXCEPT ![f] = label]

-----------------------------------------------------------------------------
(* startAccept.  A loop that ends gives its socket back.                   *)
test(t, f) ==
  /\ On(t, f, "test")
  /\ IF m_isStop
     THEN /\ Goto(f, "end") /\ on' = [on EXCEPT ![t] = None]
          /\ IF at[f] \in Elems(m_socks) \/ \E g \in Loops \ {f} : Live(g) /\ at[g] = at[f]
             THEN UNCHANGED <<open, hooked>> ELSE Destruct({at[f]})
     ELSE Goto(f, "accept") /\ UNCHANGED <<on, open, hooked>>
  /\ UNCHANGED <<callVars, listening, waiting, connVars, m_fibers, at, aborted>>

(* Socket::accept calls the hook, which finds the context of m_sock or     *)
(* leaves the call to the kernel.                                          *)
accept(t, f) ==
  /\ On(t, f, "accept")
  /\ Goto(f, IF at[f] \notin open THEN "test" ELSE IF at[f] \in hooked THEN "try" ELSE "direct")
  /\ UNCHANGED <<callVars, sockVars, connVars, m_fibers, on, at, aborted>>

OpenClients == {f \in Clients : Live(f)}

(* Mutant: the client is accepted and handed to nobody.                    *)
handClientDropped(c) == UNCHANGED <<pool, m_fibers>>

(* The accepted client goes to a worker, or back to this one.              *)
handClient(c) ==
  IF m_workers THEN pool' = pool \cup {Client(c)} /\ UNCHANGED m_fibers
  ELSE m_fibers' = Append(m_fibers, Client(c)) /\ UNCHANGED pool

(* accept_f, with the context (label "try") or without; then the body of   *)
(* the loop.  Any failure is logged and the loop goes round.               *)
accept_f(t, f, label) ==
  LET s == at[f] IN
  /\ On(t, f, label)
  /\ \/ /\ s \in open /\ s \in listening /\ backlog[s] # {} /\ Cardinality(OpenClients) < MaxFds
        /\ \E c \in backlog[s] :
             /\ \A d \in backlog[s] : c <= d
             /\ backlog' = [backlog EXCEPT ![s] = @ \ {c}]
             /\ handClient(c) /\ pc' = [pc EXCEPT ![f] = "test", ![Client(c)] = "queued"]
        /\ UNCHANGED conns
     \/ /\ s \notin open \/ s \notin listening \/ (backlog[s] # {} /\ Cardinality(OpenClients) = MaxFds)
        /\ Goto(f, "test") /\ UNCHANGED <<connVars, m_fibers>>
     \/ /\ s \in open /\ s \in listening /\ backlog[s] = {}
        /\ Goto(f, IF label = "try" THEN "add" ELSE "test") /\ UNCHANGED <<connVars, m_fibers>>
  /\ UNCHANGED <<callVars, sockVars, on, at, aborted>>
try(t, f) == accept_f(t, f, "try")
direct(t, f) == accept_f(t, f, "direct")

(* addEvent and the yield; addEvent asserts that nobody waits.             *)
addEvent(t, f) ==
  LET s == at[f] IN
  /\ On(t, f, "add")
  /\ \/ /\ s \notin open /\ Goto(f, "test") /\ UNCHANGED <<waiting, on, aborted>>
     \/ /\ s \in open /\ waiting[s] # None /\ aborted' = TRUE /\ UNCHANGED <<waiting, on, pc>>
     \/ /\ s \in open /\ waiting[s] = None /\ waiting' = [waiting EXCEPT ![s] = f]
        /\ Goto(f, "hold") /\ on' = [on EXCEPT ![t] = None] /\ UNCHANGED aborted
  /\ UNCHANGED <<callVars, open, hooked, listening, connVars, m_fibers, at>>

-----------------------------------------------------------------------------
(* The task of stop(): for each socket cancelAll, and close, which cancels *)
(* once more, drops the context and then closes; at last m_socks.clear().  *)
Sock(f) == m_socks[at[f]]
More(f) == at[f] <= Len(m_socks)

(* Mutant: the waiting loop is forgotten.                                  *)
cancelAllSilent(t, f) ==
  /\ On(t, f, "cancelAll") /\ More(f) /\ waiting' = [waiting EXCEPT ![Sock(f)] = None] /\ Goto(f, "close")
  /\ UNCHANGED <<callVars, open, hooked, listening, connVars, on, at, m_fibers, aborted>>

cancelAll(t, f) ==
  /\ On(t, f, "cancelAll") /\ More(f) /\ trigger(Sock(f)) /\ Goto(f, "close")
  /\ UNCHANGED <<callVars, open, hooked, listening, connVars, on, at, aborted>>

close(t, f) ==
  /\ On(t, f, "close") /\ trigger(Sock(f)) /\ hooked' = hooked \ {Sock(f)} /\ Goto(f, "close_f")
  /\ UNCHANGED <<callVars, open, listening, connVars, on, at, aborted>>

(* The kernel resets the connections that nobody has accepted.             *)
close_f(t, f) ==
  /\ On(t, f, "close_f") /\ open' = open \ {Sock(f)} /\ backlog' = [backlog EXCEPT ![Sock(f)] = {}]
  /\ at' = [at EXCEPT ![f] = @ + 1] /\ Goto(f, "cancelAll")
  /\ UNCHANGED <<callVars, hooked, listening, waiting, conns, pool, m_fibers, on, aborted>>

(* A second task that is inside its loop over m_socks goes on with freed   *)
(* memory; here that is the end of the process.                            *)
Inside(g) == pc[g] \in {"close", "close_f"} \/ (pc[g] = "cancelAll" /\ at[g] > 1)
clear(t, f) ==
  /\ On(t, f, "cancelAll") /\ ~More(f) /\ m_socks' = <<>> /\ Goto(f, "end") /\ on' = [on EXCEPT ![t] = None]
  /\ aborted' = \E g \in Stops \ {f} : Inside(g)
  /\ UNCHANGED <<threads, m_workers, calls, m_isStop, made, overlap, sockVars, connVars, m_fibers, at>>

-----------------------------------------------------------------------------
(* handleClient of a derived server: on a thread of this worker, or on one *)
(* of the others.  Module HttpSession has what it does.                    *)
handleClient(t, f) ==
  /\ On(t, f, "handle") /\ Goto(f, "end") /\ on' = [on EXCEPT ![t] = None]
  /\ UNCHANGED <<callVars, sockVars, connVars, m_fibers, at, aborted>>
workerHandles(f) ==
  /\ ~aborted /\ f \in pool /\ pool' = pool \ {f} /\ Goto(f, "end")
  /\ UNCHANGED <<callVars, sockVars, backlog, conns, m_fibers, on, at, aborted>>

(* A peer connects.                                                        *)
Connect(s) ==
  /\ ~aborted /\ s \in open \cap listening /\ conns < MaxConns[threads] /\ conns' = conns + 1
  /\ backlog' = [backlog EXCEPT ![s] = @ \cup {conns + 1}]
  /\ UNCHANGED <<callVars, sockVars, pool, fiberVars, aborted>>

Step(t, f) ==
  \/ test(t, f) \/ accept(t, f) \/ try(t, f) \/ direct(t, f) \/ addEvent(t, f)
  \/ cancelAll(t, f) \/ close(t, f) \/ close_f(t, f) \/ clear(t, f) \/ handleClient(t, f)
Thread(t) == run(t) \/ \E f \in {on[t]} \ {None} : Step(t, f)
IdleStep == \E s \in Socks : Dispatch(s)
Workers == \E f \in Clients : workerHandles(f)
User ==
  \/ \E n \in 1..MaxSocks : \E bad, deaf \in SUBSET Socks : bind(n, bad, deaf)
  \/ start \/ stop
TcpNext == (\E t \in Threads : Thread(t)) \/ IdleStep \/ Workers \/ User \/ \E s \in Socks : Connect(s)

(* The kernel runs every thread that can run; the user may stop calling    *)
(* and the peers connecting.                                               *)
TcpFairness == (\A t \in Threads : WF_tcpVars(Thread(t))) /\ WF_tcpVars(IdleStep) /\ WF_tcpVars(Workers)
TcpSpec == TcpInit /\ [][TcpNext]_tcpVars /\ TcpFairness
-----------------------------------------------------------------------------
TcpTypeOK ==
  /\ threads \in Threads /\ calls \in 0..MaxCalls /\ Elems(m_socks) \subseteq 1..made /\ made <= MaxSocks
  /\ hooked \subseteq open /\ listening \subseteq 1..made /\ open \subseteq 1..made
  /\ \A s \in Socks : waiting[s] \in Loops \cup {None} /\ backlog[s] \subseteq 1..conns
  /\ \A t \in Threads : on[t] \in Fibers \cup {None}
  /\ Elems(m_fibers) \subseteq Fibers /\ pool \subseteq Clients

(* What start() gives to accept loops is open, until a task of stop() is   *)
(* at work on it; a failed bind leaves no socket behind (bind clears       *)
(* m_socks) except those that loops still use.                             *)
SocksOpen == (\A s \in Elems(m_socks) : s \in open \/ StopPending) /\ \A s \in open : s \in Elems(m_socks) \/ Held(s)

(* A loop that waits in accept() has its event registered on an open       *)
(* socket, or is scheduled: stop() and new connections reach it.  Only     *)
(* with a second thread can it register between the last cancelAll and     *)
(* close_f of the task, and then nothing does.                             *)
Orphan(f) == pc[f] = "hold" /\ waiting[at[f]] = f /\ at[f] \notin open
WaitReachable ==
  \A f \in Loops : pc[f] = "hold" =>
    /\ f \in Elems(m_fibers) \/ waiting[at[f]] = f
    /\ Orphan(f) => threads > 1

(* An accept loop goes on with a closed socket, and two loops meet in      *)
(* addEvent's assertion, only when start() was called before all that the  *)
(* last stop() had to end has ended: m_isStop is the only thing that ends  *)
(* a loop, and start() takes it back.                                      *)
LoopsOnOpen ==
  /\ \A f \in Loops : Live(f) /\ at[f] \notin open /\ ~m_isStop => overlap
  /\ aborted => overlap

(* The accept side of the server: see its four parts.                      *)
AcceptSound == TcpTypeOK /\ SocksOpen /\ WaitReachable /\ LoopsOnOpen

(* After the last stop() every accept loop ends, but for one that is an    *)
(* orphan and one whose socket a later failed bind has dropped from        *)
(* m_socks: that one waits on an open socket which stop() does not know.   *)
Forgotten(f) == pc[f] = "hold" /\ at[f] \in open \ Elems(m_socks)
StopEnds ==
  <>[](m_isStop /\ ~aborted => \A f \in Loops : Live(f) => Forgotten(f) \/ (threads > 1 /\ Orphan(f)))

(* Every client that was accepted is handled.  The exception: without      *)
(* other workers, when all threads are with accept loops that fail and try *)
(* again without a yield, because the socket is closed or does not listen  *)
(* (bind hides that ::listen failed) or no descriptor is left, which the   *)
(* clients in the queue would give back.                                   *)
Hopeless(f) ==
  /\ f \in Loops
  /\ at[f] \notin open \cap listening \/ (backlog[at[f]] # {} /\ Cardinality(OpenClients) = MaxFds)
ClientsServed ==
  <>[](aborted \/ OpenClients = {} \/ (~m_workers /\ \A t \in 1..threads : Hopeless(on[t])))

(* What the accept side comes to when the calls and the peers come to an   *)
(* end: stop() has stopped it and the clients are served.                  *)
AcceptEnds == StopEnds /\ ClientsServed
=============================================================================
