------------------------------- MODULE HookIO -------------------------------
(***************************************************************************)
(* The hooked system calls of hook.cc and the table of descriptor contexts *)
(* of fd_manager.cc.  Fibers call them on the workers of an IOManager; a   *)
(* call that would block registers an event, arms a timer and yields.      *)
(* Descriptors are NUMBERS, which close() gives back to the kernel and     *)
(* socket() receives again, while epoll knows the open socket behind one.  *)
(*                                                                         *)
(* addEvent, cancelEvent, cancelAll and the dispatch of idle() are one     *)
(* step each: module IOManager has their interleavings, and its NoLostEdge *)
(* lets the readiness that epoll reports once be read here as a level.     *)
(* What a fiber does between two of these steps interleaves with whatever  *)
(* runs on other workers; with one worker it does not.                     *)
(***************************************************************************)
EXTENDS Naturals, FiniteSets, Sequences

CONSTANTS
  Fibers, Numbers,   \* the callers; the descriptor numbers, 1..n
  Programs,          \* each a function from fibers to their sequences of calls
  WorkerCounts,      \* how many workers the IOManager may have
  MaxSockets,        \* bound: sockets that are ever opened
  MaxUnits,          \* bound: readable or writable units that ever arrive
  None

Event == {"READ", "WRITE"}
IoCalls == {"read", "accept", "write"}
WaitCalls == IoCalls \cup {"connect"}
Ops == WaitCalls \cup {"socket", "close", "setsockopt", "fcntl", "ioctl", "sleep"}

(* The event a call waits for.                                             *)
event(c) == IF c.op \in {"read", "accept"} THEN "READ" ELSE "WRITE"

(* A call means a number and the socket that its caller believes behind    *)
(* it.  No two fibers wait for the same event of a socket, which addEvent  *)
(* asserts (iomanager.cc:117).                                             *)
Calls == [op : Ops, fd : Numbers, sock : 0..MaxSockets, on : BOOLEAN]
ASSUME HookAssumption ==
  /\ IsFiniteSet(Fibers) /\ None \notin Fibers /\ None \notin Numbers /\ None # "addEvent"
  /\ None \notin [m_isSocket : BOOLEAN, m_userNonblock : BOOLEAN, m_timeout : BOOLEAN]
  /\ Numbers \subseteq Nat \ {0} /\ 1 \in Numbers
  /\ WorkerCounts \subseteq Nat \ {0} /\ MaxSockets \in Nat \ {0}
  /\ Programs \subseteq [Fibers -> Seq(Calls)]
  /\ \A p \in Programs : \A f \in Fibers :
       /\ p[f] # <<>>
       /\ \A i \in DOMAIN p[f] : p[f][i].op \notin {"socket", "sleep"} => p[f][i].sock # 0
ASSUME OneWaiterAssumption ==
  \A p \in Programs : \A f, g \in Fibers : \A i \in DOMAIN p[f], j \in DOMAIN p[g] :
    /\ f # g /\ p[f][i].op \in WaitCalls /\ p[g][j].op \in WaitCalls /\ p[f][i].sock = p[g][j].sock
    => event(p[f][i]) # event(p[g][j])

VARIABLES
  program, workers,
  pos, pc,           \* per fiber: the call it is in, and where
  answer,            \* per fiber: what its last call returned
  queue,             \* the fibers that Scheduler::schedule was called for
  to, cancelled,     \* per fiber: the call has a timeout; tinfo->cancelled
  armed, due,        \* per fiber: the timer is in the set; its callback is queued
  firing,            \* the callbacks that have set cancelled and not yet called cancelEvent
  m_datas,           \* FdManager: the context of each number, or None
  events, waiter,    \* IOManager: per number, the registered events and who waits
  socket,            \* kernel: the socket of each number, 0 when closed
  nonblock, units, conn, interest,  \* kernel: per socket
  newfd,             \* per fiber: the number that socket_f or accept_f returned
  opened, arrived,   \* the sockets ever opened, the units that have arrived (bounded)
  aborted,           \* the assertion that failed, or None
  race               \* per fiber, history: the races its wait was exposed to

fiberVars == <<pos, pc, answer, to, race, newfd>>
timerVars == <<cancelled, armed, due, firing>>
eventVars == <<queue, events, waiter, interest>>
kernelVars == <<socket, nonblock, units, conn, opened, arrived>>
vars == <<program, workers, fiberVars, timerVars, eventVars, kernelVars, m_datas, aborted>>

call(f) == program[f][pos[f]]
Sockets == 1..MaxSockets

(* FdCtx::FdCtx and init, for the socket s behind the number.              *)
FdCtx(s) == [m_isSocket |-> s # 0, m_userNonblock |-> FALSE, m_timeout |-> FALSE]

Init ==
  /\ program \in Programs /\ workers \in WorkerCounts
  /\ pos = [f \in Fibers |-> 1] /\ pc = [f \in Fibers |-> "ready"]
  /\ answer = [f \in Fibers |-> None] /\ race = [f \in Fibers |-> {}]
  /\ queue = Fibers /\ firing = {}
  /\ to = [f \in Fibers |-> FALSE] /\ cancelled = to /\ armed = to /\ due = to
  /\ m_datas = [n \in Numbers |-> IF n = 1 THEN FdCtx(1) ELSE None]
  /\ events = [n \in Numbers |-> {}] /\ waiter = [n \in Numbers |-> [e \in Event |-> None]]
  /\ socket = [n \in Numbers |-> IF n = 1 THEN 1 ELSE 0]
  /\ nonblock = [s \in Sockets |-> s = 1] /\ conn = [s \in Sockets |-> IF s = 1 THEN "up" ELSE "none"]
  /\ units = [s \in Sockets |-> [e \in Event |-> 0]] /\ interest = [s \in Sockets |-> {}]
  /\ newfd = [f \in Fibers |-> None] /\ opened = 1 /\ arrived = 0 /\ aborted = None

-----------------------------------------------------------------------------
(* The workers.  A fiber is on one until it yields or has no more calls, a *)
(* timer callback until it returns; idle() runs on a worker that is free.  *)
OnWorker == {f \in Fibers : pc[f] \notin {"ready", "hold", "end"}}
Free == aborted = None /\ Cardinality(OnWorker) + Cardinality(firing) < workers
Running(f, label) == aborted = None /\ pc[f] = label
Goto(f, label) == pc' = [pc EXCEPT ![f] = label]

Resume(f) ==
  /\ Free /\ f \in queue /\ pc[f] \in {"ready", "hold"}
  /\ queue' = queue \ {f} /\ Goto(f, IF pc[f] = "ready" THEN "begin" ELSE "woken")
  /\ UNCHANGED <<program, workers, pos, answer, to, race, newfd, timerVars, events, waiter, interest, kernelVars, m_datas, aborted>>

(* tinfo dies when do_io or connect returns: what is left of its timer has *)
(* no effect, unless the callback already holds tinfo.                     *)
DropTinfo(f) ==
  /\ armed' = [armed EXCEPT ![f] = FALSE] /\ due' = [due EXCEPT ![f] = FALSE]
  /\ cancelled' = [cancelled EXCEPT ![f] = FALSE] /\ to' = [to EXCEPT ![f] = FALSE]
  /\ race' = [race EXCEPT ![f] = {}]
  /\ UNCHANGED firing

(* A call returns r.                                                       *)
Return(f, r) ==
  /\ answer' = [answer EXCEPT ![f] = [op |-> call(f).op, res |-> r]]
  /\ pos' = [pos EXCEPT ![f] = @ + 1]
  /\ Goto(f, IF pos[f] < Len(program[f]) THEN "begin" ELSE "end")
  /\ DropTinfo(f)

-----------------------------------------------------------------------------
(* Events, as in module IOManager.  epoll_ctl on number n fails unless the *)
(* socket behind n is registered exactly when the context says so.         *)
EpollCtlFails(n) == IF socket[n] = 0 THEN TRUE ELSE (events[n] # {}) # (interest[socket[n]] # {})

(* triggerEvent for the events S of n, and the epoll_ctl before it.        *)
trigger(n, S) ==
  /\ events' = [events EXCEPT ![n] = @ \ S]
  /\ interest' = [interest EXCEPT ![socket[n]] = events[n] \ S]
  /\ waiter' = [waiter EXCEPT ![n] = [e \in Event |-> IF e \in S THEN None ELSE @[e]]]
  /\ queue' = queue \cup {waiter[n][e] : e \in S}

addEvent(f, n, e) ==
  /\ events' = [events EXCEPT ![n] = @ \cup {e}]
  /\ interest' = [interest EXCEPT ![socket[n]] = events[n] \cup {e}]
  /\ waiter' = [waiter EXCEPT ![n][e] = f]
  /\ UNCHANGED queue

Ready(s, e) == units[s][e] > 0 \/ (e = "WRITE" /\ conn[s] = "refused")

(* idle() on a free worker: what is ready of the registered events.        *)
Dispatch(n) ==
  /\ Free /\ socket[n] # 0
  /\ LET S == {e \in interest[socket[n]] \cap events[n] : Ready(socket[n], e)}
     IN  S # {} /\ trigger(n, S)
  /\ UNCHANGED <<program, workers, fiberVars, timerVars, kernelVars, m_datas, aborted>>

-----------------------------------------------------------------------------
(* Timers.  idle() takes an expired timer out of the set and schedules its *)
(* callback: for sleep() the fiber itself, else OnTimer.                   *)
Expire(f) ==
  /\ Free /\ armed[f] /\ armed' = [armed EXCEPT ![f] = FALSE]
  /\ IF call(f).op = "sleep" THEN queue' = queue \cup {f} /\ UNCHANGED due
     ELSE due' = [due EXCEPT ![f] = TRUE] /\ UNCHANGED queue
  /\ UNCHANGED <<program, workers, fiberVars, cancelled, firing, events, waiter, interest, kernelVars, m_datas, aborted>>

(* The callback locks winfo and tests and sets cancelled ...               *)
OnTimer(f) ==
  /\ Free /\ due[f] /\ due' = [due EXCEPT ![f] = FALSE]
  /\ cancelled' = [cancelled EXCEPT ![f] = TRUE]
  /\ firing' = IF cancelled[f] THEN firing ELSE firing \cup {[fiber |-> f, pos |-> pos[f], fd |-> call(f).fd, event |-> event(call(f))]}
  /\ UNCHANGED <<program, workers, fiberVars, armed, eventVars, kernelVars, m_datas, aborted>>

(* The callback k belongs to the call that f is in.                        *)
Same(f, k) == k.fiber = f /\ k.pos = pos[f]

(* Mutant of cancelEvent: the event is dropped and nobody is woken.        *)
cancelEventDrops(k) ==
  /\ aborted = None /\ firing' = firing \ {k}
  /\ events' = [events EXCEPT ![k.fd] = @ \ {k.event}]
  /\ UNCHANGED <<program, workers, fiberVars, cancelled, armed, due, queue, waiter, interest, kernelVars, m_datas, aborted>>

(* ... and then calls cancelEvent, which wakes whoever waits by then.      *)
cancelEvent(k) ==
  /\ aborted = None /\ firing' = firing \ {k}
  /\ IF k.event \in events[k.fd] /\ ~EpollCtlFails(k.fd)
     THEN trigger(k.fd, {k.event}) ELSE UNCHANGED eventVars
  /\ race' = [f \in Fibers |-> race[f] \cup (IF Same(f, k) /\ pc[f] \in {"try", "arm", "add"} THEN {"early"} ELSE {})
                                      \cup (IF ~Same(f, k) /\ waiter[k.fd][k.event] = f THEN {"stale"} ELSE {})]
  /\ UNCHANGED <<program, workers, pos, pc, answer, to, newfd, cancelled, armed, due, kernelVars, m_datas, aborted>>

-----------------------------------------------------------------------------
(* A caller means a socket, call(f).sock.  Class Socket has -1 for the     *)
(* number until socket() or accept() has returned it, and again when it    *)
(* was closed before the call; later do_io has only the number.            *)
Mine(f) == socket[call(f).fd] = call(f).sock
Held(f) == Mine(f) /\ \A g \in Fibers : pc[g] = "get" => newfd[g] # call(f).fd
gone(f) ==
  /\ Running(f, "begin") /\ call(f).op \notin {"socket", "sleep"} /\ ~Held(f) /\ Return(f, "EBADF")
  /\ UNCHANGED <<program, workers, newfd, eventVars, kernelVars, m_datas, aborted>>

(* do_io: a number without a context, or one that the user has made        *)
(* non-blocking, is left to the system call.                               *)
Hooked(n) == m_datas[n] # None /\ m_datas[n].m_isSocket /\ ~m_datas[n].m_userNonblock
do_io(f) ==
  /\ Running(f, "begin") /\ Held(f) /\ call(f).op \in IoCalls
  /\ LET n == call(f).fd IN
     IF Hooked(n) THEN Goto(f, "try") /\ to' = [to EXCEPT ![f] = m_datas[n].m_timeout]
     ELSE Goto(f, "direct") /\ UNCHANGED to
  /\ UNCHANGED <<program, workers, pos, answer, race, newfd, timerVars, eventVars, kernelVars, m_datas, aborted>>

(* The lowest number that is free: what the kernel gives to a new socket.  *)
FreeNumber == {n \in Numbers : opened < MaxSockets /\ socket[n] = 0 /\ \A k \in 1..(n - 1) : socket[k] # 0}
Open(f, n, state) ==
  /\ opened' = opened + 1
  /\ socket' = [socket EXCEPT ![n] = opened + 1] /\ conn' = [conn EXCEPT ![opened + 1] = state]
  /\ newfd' = [newfd EXCEPT ![f] = n] /\ Goto(f, "get")

Take(s, e) == units' = [units EXCEPT ![s][e] = @ - 1]

(* fun(fd, ...), in do_io and without it.  On a socket that the kernel has *)
(* as blocking the step waits for a unit, and the worker with it.          *)
fun(f, label, again) ==
  /\ Running(f, label) /\ call(f).op \in IoCalls
  /\ LET n == call(f).fd   s == socket[n]   e == event(call(f)) IN
     \/ /\ s = 0 /\ Return(f, "EBADF") /\ UNCHANGED <<newfd, kernelVars>>
     \/ /\ s # 0 /\ conn[s] # "up" /\ Return(f, "ENOTCONN") /\ UNCHANGED <<newfd, kernelVars>>
     \/ /\ s # 0 /\ conn[s] = "up" /\ units[s][e] > 0
        /\ UNCHANGED <<nonblock, arrived>>
        /\ \/ /\ call(f).op # "accept" /\ Take(s, e)
              /\ Return(f, "ok") /\ UNCHANGED <<newfd, socket, conn, opened>>
           \/ /\ call(f).op = "accept" /\ Take(s, e) /\ \E k \in FreeNumber : Open(f, k, "up")
              /\ DropTinfo(f) /\ UNCHANGED <<pos, answer>>
           \/ /\ call(f).op = "accept" /\ FreeNumber = {} /\ Return(f, "EMFILE")
              /\ UNCHANGED <<newfd, units, socket, conn, opened>>
     \/ /\ s # 0 /\ conn[s] = "up" /\ units[s][e] = 0 /\ nonblock[s]
        /\ again /\ UNCHANGED <<newfd, kernelVars>>
  /\ UNCHANGED <<program, workers, eventVars, m_datas, aborted>>
direct(f) == fun(f, "direct", Return(f, "EAGAIN"))
try(f) == fun(f, "try", Goto(f, "arm") /\ UNCHANGED <<pos, answer, to, race, timerVars>>)

(* addConditionTimer ...                                                   *)
arm(f) ==
  /\ Running(f, "arm") /\ Goto(f, "add")
  /\ armed' = [armed EXCEPT ![f] = to[f]]
  /\ UNCHANGED <<program, workers, pos, answer, to, race, newfd, cancelled, due, firing, eventVars, kernelVars, m_datas, aborted>>

(* ... and addEvent.  When it fails, do_io returns, but connect goes on as *)
(* if it had been woken.                                                   *)
Closing(n) == \E g \in Fibers : pc[g] \in {"del", "close_f"} /\ call(g).fd = n
add(f) ==
  /\ Running(f, "add")
  /\ LET n == call(f).fd   e == event(call(f)) IN
     \/ /\ e \in events[n] /\ aborted' = "addEvent" /\ UNCHANGED <<fiberVars, timerVars, eventVars>>
     \/ /\ e \notin events[n] /\ EpollCtlFails(n) /\ UNCHANGED <<newfd, eventVars, aborted>>
        /\ IF call(f).op = "connect"
           THEN /\ armed' = [armed EXCEPT ![f] = FALSE] /\ Goto(f, "getsockopt")
                /\ UNCHANGED <<pos, answer, to, race, cancelled, due, firing>>
           ELSE Return(f, "error")
     \/ /\ e \notin events[n] /\ ~EpollCtlFails(n) /\ addEvent(f, n, e) /\ Goto(f, "yield")
        /\ race' = [race EXCEPT ![f] = IF Closing(n) THEN @ \cup {"closing"} ELSE @]
        /\ UNCHANGED <<pos, answer, to, newfd, timerVars, aborted>>
  /\ UNCHANGED <<program, workers, kernelVars, m_datas>>

YieldToHold(f) ==
  /\ Running(f, "yield") /\ Goto(f, "hold")
  /\ UNCHANGED <<program, workers, pos, answer, to, race, newfd, timerVars, eventVars, kernelVars, m_datas, aborted>>

(* Woken: timer->cancel() ...                                              *)
woken(f) ==
  /\ Running(f, "woken")
  /\ IF call(f).op = "sleep" THEN Return(f, "ok")
     ELSE /\ armed' = [armed EXCEPT ![f] = FALSE] /\ Goto(f, "test")
          /\ UNCHANGED <<pos, answer, to, race, cancelled, due, firing>>
  /\ UNCHANGED <<program, workers, newfd, eventVars, kernelVars, m_datas, aborted>>

(* Mutant of test: connect does not look at tinfo->cancelled.              *)
testConnectGoesOn(f) ==
  /\ Running(f, "test")
  /\ IF call(f).op = "connect" \/ ~cancelled[f]
     THEN /\ Goto(f, IF call(f).op = "connect" THEN "getsockopt" ELSE "try")
          /\ UNCHANGED <<pos, answer, to, race, timerVars>>
     ELSE Return(f, "ETIMEDOUT")
  /\ UNCHANGED <<program, workers, newfd, eventVars, kernelVars, m_datas, aborted>>

(* ... and the test of tinfo->cancelled.                                   *)
test(f) ==
  /\ Running(f, "test")
  /\ IF cancelled[f] THEN Return(f, "ETIMEDOUT")
     ELSE /\ Goto(f, IF call(f).op = "connect" THEN "getsockopt" ELSE "try")
          /\ UNCHANGED <<pos, answer, to, race, timerVars>>
  /\ UNCHANGED <<program, workers, newfd, eventVars, kernelVars, m_datas, aborted>>

-----------------------------------------------------------------------------
(* connect_with_timeout, which has a timeout of its own: connected at once *)
(* or in progress.  A program connects a socket once, as Socket does.      *)
connect(f) ==
  /\ Running(f, "begin") /\ Held(f) /\ call(f).op = "connect"
  /\ LET n == call(f).fd   s == socket[n] IN
     \/ /\ m_datas[n] = None /\ Return(f, "EBADF") /\ UNCHANGED conn
     \/ /\ m_datas[n] # None /\ Return(f, "ok") /\ conn' = [conn EXCEPT ![s] = "up"]
     \/ /\ Hooked(n) /\ Goto(f, "arm") /\ conn' = [conn EXCEPT ![s] = "progress"]
        /\ to' = [to EXCEPT ![f] = TRUE] /\ UNCHANGED <<pos, answer, race, timerVars>>
  /\ UNCHANGED <<program, workers, newfd, eventVars, socket, nonblock, units, opened, arrived, m_datas, aborted>>

(* getsockopt(SO_ERROR) is 0 while the connection is being made.           *)
getsockopt(f) ==
  /\ Running(f, "getsockopt")
  /\ LET s == socket[call(f).fd] IN
     Return(f, IF s = 0 THEN "EBADF" ELSE IF conn[s] = "refused" THEN "ECONNREFUSED" ELSE "ok")
  /\ UNCHANGED <<program, workers, newfd, eventVars, kernelVars, m_datas, aborted>>

-----------------------------------------------------------------------------
(* socket(), and with accept() the context of the new number: FdManager    *)
(* keeps one that is there already, else FdCtx::init looks at the socket   *)
(* and makes it non-blocking.                                              *)
socket_f(f) ==
  /\ Running(f, "begin") /\ call(f).op = "socket"
  /\ \/ \E n \in FreeNumber : Open(f, n, "none") /\ UNCHANGED <<pos, answer, to, race, timerVars>>
     \/ FreeNumber = {} /\ Return(f, "EMFILE") /\ UNCHANGED <<newfd, socket, conn, opened>>
  /\ UNCHANGED <<program, workers, eventVars, nonblock, units, arrived, m_datas, aborted>>
get(f) ==
  /\ Running(f, "get")
  /\ LET n == newfd[f] IN
     IF m_datas[n] # None THEN UNCHANGED <<m_datas, nonblock>>
     ELSE /\ m_datas' = [m_datas EXCEPT ![n] = FdCtx(socket[n])]
          /\ nonblock' = [s \in Sockets |-> nonblock[s] \/ s = socket[n]]
  /\ Return(f, "ok") /\ newfd' = [newfd EXCEPT ![f] = None]
  /\ UNCHANGED <<program, workers, eventVars, socket, units, conn, opened, arrived, aborted>>

(* Mutant of close: cancelAll is not called.                               *)
closeNoCancel(f) ==
  /\ Running(f, "begin") /\ Held(f) /\ call(f).op = "close"
  /\ Goto(f, IF m_datas[call(f).fd] = None THEN "close_f" ELSE "del")
  /\ UNCHANGED <<program, workers, pos, answer, to, race, newfd, timerVars, eventVars, kernelVars, m_datas, aborted>>

(* close(): cancelAll, FdManager::del and close_f, one after the other.    *)
(* cancelAll triggers READ in its branch for WRITE (iomanager.cc:247),     *)
(* which fails the assertion of triggerEvent.                              *)
close(f) ==
  /\ Running(f, "begin") /\ Held(f) /\ call(f).op = "close"
  /\ LET n == call(f).fd IN
     IF m_datas[n] = None THEN Goto(f, "close_f") /\ UNCHANGED <<eventVars, aborted>>
     ELSE /\ Goto(f, "del")
          /\ IF events[n] = {} \/ EpollCtlFails(n) THEN UNCHANGED <<eventVars, aborted>>
             ELSE /\ trigger(n, events[n])
                  /\ aborted' = IF "WRITE" \in events[n] THEN "triggerEvent" ELSE None
  /\ UNCHANGED <<program, workers, pos, answer, to, race, newfd, timerVars, kernelVars, m_datas>>
del(f) ==
  /\ Running(f, "del") /\ Goto(f, "close_f")
  /\ m_datas' = [m_datas EXCEPT ![call(f).fd] = None]
  /\ UNCHANGED <<program, workers, pos, answer, to, race, newfd, timerVars, eventVars, kernelVars, aborted>>
close_f(f) ==
  /\ Running(f, "close_f")
  /\ LET n == call(f).fd IN
     /\ Return(f, IF socket[n] = 0 THEN "EBADF" ELSE "ok")
     /\ socket' = [socket EXCEPT ![n] = 0]
     /\ interest' = [s \in Sockets |-> IF s = socket[n] THEN {} ELSE interest[s]]
  /\ UNCHANGED <<program, workers, newfd, queue, events, waiter, nonblock, units, conn, opened, arrived, m_datas, aborted>>

(* setsockopt(SO_RCVTIMEO), fcntl(F_SETFL) and ioctl(FIONBIO).  fcntl lets *)
(* the kernel's flag stand, ioctl passes the user's on.                    *)
setsockopt(f) ==
  /\ Running(f, "begin") /\ Held(f) /\ call(f).op = "setsockopt" /\ Return(f, "ok")
  /\ m_datas' = [n \in Numbers |-> IF n = call(f).fd /\ m_datas[n] # None
                                    THEN [m_datas[n] EXCEPT !.m_timeout = TRUE] ELSE m_datas[n]]
  /\ UNCHANGED <<program, workers, newfd, eventVars, kernelVars, aborted>>
SetNonblock(f, op, kernel) ==
  /\ Running(f, "begin") /\ Held(f) /\ call(f).op = op /\ Return(f, "ok")
  /\ LET n == call(f).fd   sock == m_datas[n] # None /\ m_datas[n].m_isSocket IN
     /\ m_datas' = IF sock THEN [m_datas EXCEPT ![n].m_userNonblock = call(f).on] ELSE m_datas
     /\ nonblock' = [s \in Sockets |-> IF s # socket[n] THEN nonblock[s] ELSE IF sock THEN kernel ELSE call(f).on]
  /\ UNCHANGED <<program, workers, newfd, eventVars, socket, units, conn, opened, arrived, aborted>>
fcntl(f) == SetNonblock(f, "fcntl", TRUE)
ioctl(f) == SetNonblock(f, "ioctl", call(f).on)

(* sleep(), usleep() and nanosleep(): the timer schedules the fiber.       *)
sleep(f) ==
  /\ Running(f, "begin") /\ call(f).op = "sleep"
  /\ armed' = [armed EXCEPT ![f] = TRUE] /\ Goto(f, "yield")
  /\ UNCHANGED <<program, workers, pos, answer, to, race, newfd, cancelled, due, firing, eventVars, kernelVars, m_datas, aborted>>

-----------------------------------------------------------------------------
(* The peers: bytes or connections arrive, space becomes free, a           *)
(* connection attempt ends.                                                *)
Wanted(e) == \E f \in Fibers : \E i \in pos[f]..Len(program[f]) : program[f][i].op \in IoCalls /\ event(program[f][i]) = e
Arrive(s, e) ==
  /\ aborted = None /\ Wanted(e) /\ arrived < MaxUnits /\ conn[s] = "up" /\ \E n \in Numbers : socket[n] = s
  /\ arrived' = arrived + 1 /\ units' = [units EXCEPT ![s][e] = @ + 1]
  /\ UNCHANGED <<program, workers, fiberVars, timerVars, eventVars, socket, nonblock, conn, opened, m_datas, aborted>>
Establish(s, r) ==
  /\ aborted = None /\ conn[s] = "progress" /\ conn' = [conn EXCEPT ![s] = r]
  /\ units' = [units EXCEPT ![s]["WRITE"] = IF r = "up" THEN 1 ELSE 0]
  /\ UNCHANGED <<program, workers, fiberVars, timerVars, eventVars, socket, nonblock, opened, arrived, m_datas, aborted>>

Step(f) ==
  \/ gone(f) \/ do_io(f) \/ direct(f) \/ try(f) \/ arm(f) \/ add(f) \/ YieldToHold(f) \/ woken(f) \/ test(f)
  \/ connect(f) \/ getsockopt(f) \/ socket_f(f) \/ get(f) \/ close(f) \/ del(f) \/ close_f(f)
  \/ setsockopt(f) \/ fcntl(f) \/ ioctl(f) \/ sleep(f)
System ==
  \/ \E f \in Fibers : Step(f) \/ Resume(f) \/ Expire(f) \/ OnTimer(f)
  \/ \E k \in firing : cancelEvent(k)
  \/ \E n \in Numbers : Dispatch(n)
Next ==
  \/ System
  \/ \E s \in Sockets, e \in Event : Arrive(s, e)
  \/ \E s \in Sockets, r \in {"up", "refused"} : Establish(s, r)

(* run() and idle() go on while there is anything to run, to dispatch or   *)
(* to expire.  A program is finite, so nothing more is needed: whatever    *)
(* can go on in the end does.                                              *)
Fairness == WF_vars(System)
Spec == Init /\ [][Next]_vars /\ Fairness
-----------------------------------------------------------------------------
HookTypeOK ==
  /\ pc \in [Fibers -> {"ready", "begin", "direct", "try", "arm", "add", "yield", "hold", "woken", "test",
                        "getsockopt", "get", "del", "close_f", "end"}]
  /\ queue \subseteq Fibers /\ events \in [Numbers -> SUBSET Event] /\ interest \in [Sockets -> SUBSET Event]
  /\ race \in [Fibers -> SUBSET {"early", "stale", "closing"}]
  /\ Cardinality(OnWorker) + Cardinality(firing) <= workers

(* A fiber that waits is the waiter of its event, on an open socket that   *)
(* epoll watches, and if its call has a timeout the timer or its callback  *)
(* is still to come.  With one worker nothing else happens.  With two, a   *)
(* fiber may be left to itself in two ways: it registered while another    *)
(* was between cancelAll and close_f ("closing": neither epoll nor the     *)
(* timer can wake it then), or the callback ran while it was between its   *)
(* test of cancelled and its addEvent ("early": the callback of every      *)
(* later timer of the call finds cancelled set and does nothing).          *)
Waits(f) == pc[f] = "hold" /\ f \notin queue
Watched(n, e) == socket[n] # 0 /\ e \in interest[socket[n]]
TimerPending(f) == armed[f] \/ due[f] \/ \E k \in firing : Same(f, k)
WaitsEnd ==
  aborted = None => \A f \in Fibers : Waits(f) =>
    IF call(f).op = "sleep" THEN armed[f]
    ELSE LET n == call(f).fd   e == event(call(f)) IN
         /\ waiter[n][e] = f
         /\ Watched(n, e) \/ "closing" \in race[f]
         /\ to[f] => TimerPending(f) \/ race[f] \cap {"early", "closing"} # {}
         /\ workers = 1 => race[f] \subseteq {"stale"}

(* The assertion of addEvent (iomanager.cc:117) fails only when a call     *)
(* goes on with a number whose socket was closed under it: woken by the    *)
(* close, do_io retries with the number, which may be somebody else's now. *)
AbortOnlyWhenStale ==
  aborted = "addEvent" => \E f \in Fibers : pc[f] \in {"add", "yield", "hold"} /\ ~Mine(f)

(* No hooked call blocks its worker in the kernel, unless ioctl(FIONBIO)   *)
(* has passed the user's flag on, or, with two workers, the number is      *)
(* being closed or opened by somebody else.                                *)
Blocked(f) ==
  /\ aborted = None /\ pc[f] \in {"try", "direct"}
  /\ LET s == socket[call(f).fd] IN
     IF s = 0 THEN FALSE ELSE conn[s] = "up" /\ units[s][event(call(f))] = 0 /\ ~nonblock[s]
NeverBlocked ==
  \A f \in Fibers : Blocked(f) =>
    \/ \E g \in Fibers : \E i \in 1..(pos[g] - 1) : program[g][i].op = "ioctl"
    \/ workers > 1 /\ (~Mine(f) \/ Closing(call(f).fd) \/ \E g \in Fibers : pc[g] = "get")

(* Hooked calls wait as they should: the type invariant and the three      *)
(* statements above about do_io, connect and close.                        *)
WaitsSound == HookTypeOK /\ WaitsEnd /\ AbortOnlyWhenStale /\ NeverBlocked

(* What a call returns is true.  connect answers 0 only when the           *)
(* connection is made; with two workers also when the callback of an       *)
(* earlier call woke it, or when a fiber that is left on the number made   *)
(* addEvent fail.  A blocking socket never answers EAGAIN with one worker. *)
AnswersRight ==
  [][\A f \in Fibers : pos'[f] # pos[f] =>
       LET r == answer'[f]   n == call(f).fd IN
       /\ r.op = "connect" /\ r.res = "ok" =>
            \/ conn'[socket[n]] = "up"
            \/ workers > 1 /\ ("stale" \in race[f] \/ \E g \in Fibers : "closing" \in race[g] /\ call(g).fd = n)
       /\ r.res = "EAGAIN" /\ workers = 1 => m_datas[n] # None /\ m_datas[n].m_userNonblock]_vars

(* Every call that has a timeout, and every sleep, returns in the end,     *)
(* whatever the peers do, unless it is exposed to one of the two races of  *)
(* WaitsEnd, an assertion fails or a worker is blocked.                    *)
TimedCallReturns ==
  <>[](\/ aborted # None \/ \E f \in Fibers : Blocked(f)
       \/ \A f \in Fibers : pc[f] = "hold" /\ (to[f] \/ call(f).op = "sleep") => race[f] \cap {"early", "closing"} # {})
=============================================================================
