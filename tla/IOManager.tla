----------------------------- MODULE IOManager -----------------------------
(***************************************************************************)
(* The event side of civan::IOManager (civan/iomanager.cc): the per-fd     *)
(* contexts, their registration with epoll, and the wake-ups that idle()   *)
(* and the cancelling calls produce.                                       *)
(*                                                                         *)
(* Every worker thread of the IOManager does two things: it runs fibers,   *)
(* which call addEvent / delEvent / cancelEvent / cancelAll, and, when it  *)
(* has nothing to run, it sits in idle() and dispatches what epoll_wait    *)
(* returned.  The body of each call runs under the mutex of one fd context *)
(* and is one step here; what happens outside that mutex (the test that    *)
(* precedes it, the time between epoll_wait and the dispatch of each of    *)
(* its events) is a step of its own.                                       *)
(*                                                                         *)
(* A task stands for what an event context holds, a suspended fiber or a   *)
(* callback; the scheduler's queue is the set of tasks that were handed to *)
(* Scheduler::schedule and have not run yet.  A failed CIVAN_ASSERT ends   *)
(* the process: "aborted" then names it and nothing happens any more.      *)
(***************************************************************************)
EXTENDS Integers, FiniteSets

CONSTANTS
  Threads,  \* worker threads of the IOManager
  Fds,      \* open descriptors, all below the initial 64 contexts
  Tasks,    \* fibers and callbacks that wait for events
  Use,      \* Use[k] = <<fd, event>>: the event task k waits for
  Calls,    \* the delEvent / cancelEvent / cancelAll calls the program makes
  None      \* a null pointer

READ == "READ"
WRITE == "WRITE"
NONE == "NONE"
Event == {READ, WRITE}

Call == [name : {"delEvent", "cancelEvent"}, fd : Fds, event : Event]
          \cup [name : {"cancelAll"}, fd : Fds, event : {NONE}]

(* The CIVAN_ASSERTs of iomanager.cc whose condition is not obvious.       *)
Assertion == {"triggerEvent: event not registered",
              "addEvent: event already registered",
              "addEvent: context in use"}

ASSUME UseAssumption == Use \in [Tasks -> Fds \X Event]
ASSUME CallsAssumption == Calls \subseteq Call
ASSUME NoneAssumption == None \notin Tasks /\ None \notin Call /\ None \notin Assertion
ASSUME FiniteAssumption == IsFiniteSet(Fds)

VARIABLES
  events,    \* FdContext::events, the registered events of each fd
  ctx,       \* FdContext::read / write: the task of each event, or None
  m_pendingEventCount,
  queue,     \* tasks handed to Scheduler::schedule
  call,      \* call[t]: a call of t that passed its unlocked test, or None
  batch,     \* batch[t]: what epoll_wait gave t, not yet dispatched
  aborted,   \* the assertion that failed, or None
  interest,  \* epoll: the interest mask of each fd, {} when not added
  listed,    \* epoll: fds on the ready list (edge triggered)
  ready,     \* kernel: events each fd is ready for
  hup        \* kernel: fds with EPOLLERR or EPOLLHUP

ctxVars == <<events, ctx, m_pendingEventCount, queue>>
kernelVars == <<interest, listed>>
deviceVars == <<ready, hup>>
vars == <<ctxVars, call, batch, aborted, kernelVars, deviceVars>>

Report == [fd : Fds, mask : SUBSET Event, hup : BOOLEAN]

Registered == {u \in Fds \X Event : u[2] \in events[u[1]]}

(* Neither waiting nor queued: k runs, or sleeps on something else.        *)
Running(k) == k \notin queue /\ \A fd \in Fds, e \in Event : ctx[fd][e] # k

Free(t) == call[t] = None /\ batch[t] = {}

-----------------------------------------------------------------------------
(* epoll.  ADD needs the fd absent, MOD and DEL need it present; ADD and   *)
(* MOD put the fd back on the ready list, so that a level that is already  *)
(* there is reported once more.                                            *)

EpollCtl(fd, mask) ==
  /\ interest' = [interest EXCEPT ![fd] = mask]
  /\ listed' = IF mask = {} THEN listed \ {fd} ELSE listed \cup {fd}

EpollAddFails(fd) == (events[fd] = {}) # (interest[fd] = {})

EpollModFails(fd) == interest[fd] = {}

-----------------------------------------------------------------------------
(* FdContext                                                               *)

(* Variants with a bug, which the properties below reject.                 *)
triggerEventKeepsContext(fd, S) ==
  /\ events' = [events EXCEPT ![fd] = @ \ S]
  /\ queue' = queue \cup {ctx[fd][e] : e \in S}
  /\ m_pendingEventCount' = m_pendingEventCount - Cardinality(S)
  /\ UNCHANGED ctx

triggerEventLeavesBit(fd, S) ==
  /\ ctx' = [ctx EXCEPT ![fd] = [e \in Event |-> IF e \in S THEN None ELSE @[e]]]
  /\ queue' = queue \cup {ctx[fd][e] : e \in S}
  /\ m_pendingEventCount' = m_pendingEventCount - Cardinality(S)
  /\ UNCHANGED events

(* triggerEvent for each event of S, with the decrement its callers add.   *)
triggerEvent(fd, S) ==
  /\ events' = [events EXCEPT ![fd] = @ \ S]
  /\ ctx' = [ctx EXCEPT ![fd] = [e \in Event |-> IF e \in S THEN None ELSE @[e]]]
  /\ queue' = queue \cup {ctx[fd][e] : e \in S}
  /\ m_pendingEventCount' = m_pendingEventCount - Cardinality(S)

Abort(assertion) ==
  /\ aborted' = assertion
  /\ UNCHANGED <<ctxVars, kernelVars>>

-----------------------------------------------------------------------------
(* The calls of a running fiber                                            *)

addEventNoCount(t, k) ==
  LET fd == Use[k][1]
      e == Use[k][2]
  IN /\ aborted = None
     /\ Free(t) /\ Running(k)
     /\ e \notin events[fd]
     /\ EpollCtl(fd, events[fd] \cup {e})
     /\ events' = [events EXCEPT ![fd] = @ \cup {e}]
     /\ ctx' = [ctx EXCEPT ![fd][e] = k]
     /\ UNCHANGED <<m_pendingEventCount, queue, aborted, call, batch, deviceVars>>

addEventNoEpoll(t, k) ==
  LET fd == Use[k][1]
      e == Use[k][2]
  IN /\ aborted = None
     /\ Free(t) /\ Running(k)
     /\ e \notin events[fd]
     /\ m_pendingEventCount' = m_pendingEventCount + 1
     /\ events' = [events EXCEPT ![fd] = @ \cup {e}]
     /\ ctx' = [ctx EXCEPT ![fd][e] = k]
     /\ UNCHANGED <<queue, aborted, call, batch, kernelVars, deviceVars>>

addEvent(t, k) ==
  LET fd == Use[k][1]
      e == Use[k][2]
  IN /\ aborted = None
     /\ Free(t) /\ Running(k)
     /\ IF e \in events[fd]
          THEN Abort("addEvent: event already registered")
        ELSE IF EpollAddFails(fd)
          THEN UNCHANGED <<ctxVars, kernelVars, aborted>>
        ELSE IF ctx[fd][e] # None
          THEN Abort("addEvent: context in use")
        ELSE /\ EpollCtl(fd, events[fd] \cup {e})
             /\ m_pendingEventCount' = m_pendingEventCount + 1
             /\ events' = [events EXCEPT ![fd] = @ \cup {e}]
             /\ ctx' = [ctx EXCEPT ![fd][e] = k]
             /\ UNCHANGED <<queue, aborted>>
     /\ UNCHANGED <<call, batch, deviceVars>>

(* The test each cancelling call makes before it takes the fd mutex.       *)
BeginCall(t, c) ==
  /\ aborted = None
  /\ Free(t)
  /\ IF c.name = "cancelAll" THEN events[c.fd] # {} ELSE c.event \in events[c.fd]
  /\ call' = [call EXCEPT ![t] = c]
  /\ UNCHANGED <<ctxVars, batch, aborted, kernelVars, deviceVars>>

delEvent(t) ==
  LET fd == call[t].fd
      new_event == events[fd] \ {call[t].event}
  IN /\ aborted = None
     /\ call[t] # None /\ call[t].name = "delEvent"
     /\ IF EpollModFails(fd)
          THEN UNCHANGED <<ctxVars, kernelVars>>
          ELSE /\ EpollCtl(fd, new_event)
               /\ m_pendingEventCount' = m_pendingEventCount - 1
               /\ events' = [events EXCEPT ![fd] = new_event]
               /\ ctx' = [ctx EXCEPT ![fd][call[t].event] = None]
               /\ UNCHANGED queue
     /\ call' = [call EXCEPT ![t] = None]
     /\ UNCHANGED <<batch, aborted, deviceVars>>

cancelEventDrops(t) ==
  LET fd == call[t].fd
      e == call[t].event
  IN /\ aborted = None
     /\ call[t] # None /\ call[t].name = "cancelEvent"
     /\ e \in events[fd]
     /\ EpollCtl(fd, events[fd] \ {e})
     /\ m_pendingEventCount' = m_pendingEventCount - 1
     /\ events' = [events EXCEPT ![fd] = @ \ {e}]
     /\ ctx' = [ctx EXCEPT ![fd][e] = None]
     /\ call' = [call EXCEPT ![t] = None]
     /\ UNCHANGED <<queue, aborted, batch, deviceVars>>

cancelEvent(t) ==
  LET fd == call[t].fd
      e == call[t].event
  IN /\ aborted = None
     /\ call[t] # None /\ call[t].name = "cancelEvent"
     /\ IF EpollModFails(fd)
          THEN UNCHANGED <<ctxVars, kernelVars, aborted>>
        ELSE IF e \notin events[fd]
          THEN Abort("triggerEvent: event not registered")
        ELSE /\ EpollCtl(fd, events[fd] \ {e})
             /\ triggerEvent(fd, {e})
             /\ UNCHANGED aborted
     /\ call' = [call EXCEPT ![t] = None]
     /\ UNCHANGED <<batch, deviceVars>>

(* The second branch of cancelAll, for WRITE, triggers READ, which is no   *)
(* longer registered at that point: its assertion fails whenever a WRITE   *)
(* event is registered.                                                    *)
cancelAll(t) ==
  LET fd == call[t].fd
  IN /\ aborted = None
     /\ call[t] # None /\ call[t].name = "cancelAll"
     /\ IF EpollModFails(fd)
          THEN UNCHANGED <<ctxVars, kernelVars, aborted>>
        ELSE IF WRITE \in events[fd]
          THEN Abort("triggerEvent: event not registered")
        ELSE /\ EpollCtl(fd, {})
             /\ triggerEvent(fd, events[fd] \cap {READ})
             /\ UNCHANGED aborted
     /\ call' = [call EXCEPT ![t] = None]
     /\ UNCHANGED <<batch, deviceVars>>

-----------------------------------------------------------------------------
(* idle()                                                                  *)

Reports == {r \in {[fd |-> fd, mask |-> ready[fd] \cap interest[fd], hup |-> fd \in hup] :
                     fd \in {f \in listed : interest[f] # {}}} :
              r.mask # {} \/ r.hup}

(* epoll_wait takes the whole ready list: 64 events hold all of Fds.       *)
epoll_wait(t) ==
  /\ aborted = None
  /\ Free(t)
  /\ Reports # {}
  /\ batch' = [batch EXCEPT ![t] = Reports]
  /\ listed' = {}
  /\ UNCHANGED <<ctxVars, call, aborted, interest, deviceVars>>

dispatchTrigger(t, r, real) ==
  /\ EpollCtl(r.fd, events[r.fd] \ real)
  /\ triggerEvent(r.fd, real)
  /\ UNCHANGED aborted

(* One iteration of the loop over epoll_wait's events.  real_events is not *)
(* masked with the events still registered before the two triggers.        *)
idle(t, r) ==
  LET real_events == r.mask \cup (IF r.hup THEN events[r.fd] ELSE {})
  IN /\ aborted = None
     /\ r \in batch[t]
     /\ batch' = [batch EXCEPT ![t] = @ \ {r}]
     /\ IF events[r.fd] \cap real_events = {} \/ EpollModFails(r.fd)
          THEN UNCHANGED <<ctxVars, kernelVars, aborted>>
        ELSE IF ~(real_events \subseteq events[r.fd])
          THEN Abort("triggerEvent: event not registered")
        ELSE dispatchTrigger(t, r, real_events)
     /\ UNCHANGED <<call, deviceVars>>

-----------------------------------------------------------------------------
(* The environment: the scheduler runs a woken task, whose I/O may use up  *)
(* the readiness it was woken for; the peer of an fd makes it ready.       *)

RunTask(t, k) ==
  LET fd == Use[k][1]
  IN /\ aborted = None
     /\ Free(t) /\ k \in queue
     /\ queue' = queue \ {k}
     /\ \/ ready' = [ready EXCEPT ![fd] = @ \ {Use[k][2]}]
        \/ UNCHANGED ready
     /\ UNCHANGED <<events, ctx, m_pendingEventCount, call, batch, aborted, kernelVars, hup>>

BecomeReady(fd, e) ==
  /\ aborted = None
  /\ e \notin ready[fd]
  /\ ready' = [ready EXCEPT ![fd] = @ \cup {e}]
  /\ listed' = IF interest[fd] = {} THEN listed ELSE listed \cup {fd}
  /\ UNCHANGED <<ctxVars, call, batch, aborted, interest, hup>>

HangUp(fd) ==
  /\ aborted = None
  /\ fd \notin hup
  /\ hup' = hup \cup {fd}
  /\ listed' = IF interest[fd] = {} THEN listed ELSE listed \cup {fd}
  /\ UNCHANGED <<ctxVars, call, batch, aborted, interest, ready>>

-----------------------------------------------------------------------------
Init ==
  /\ events = [fd \in Fds |-> {}]
  /\ ctx = [fd \in Fds |-> [e \in Event |-> None]]
  /\ m_pendingEventCount = 0
  /\ queue = {}
  /\ call = [t \in Threads |-> None]
  /\ batch = [t \in Threads |-> {}]
  /\ aborted = None
  /\ interest = [fd \in Fds |-> {}]
  /\ listed = {}
  /\ ready = [fd \in Fds |-> {}]
  /\ hup = {}

Dispatch(t) == epoll_wait(t) \/ \E r \in batch[t] : idle(t, r)

FinishCall(t) == delEvent(t) \/ cancelEvent(t) \/ cancelAll(t)

Next ==
  \/ \E t \in Threads, k \in Tasks : addEvent(t, k) \/ RunTask(t, k)
  \/ \E t \in Threads, c \in Calls : BeginCall(t, c)
  \/ \E t \in Threads : FinishCall(t) \/ Dispatch(t)
  \/ \E fd \in Fds : HangUp(fd) \/ \E e \in Event : BecomeReady(fd, e)

Spec == Init /\ [][Next]_vars

(* Worker threads keep running: one inside a call finishes it, and one     *)
(* that is between two tasks again and again enters idle() at some time,   *)
(* as run() does whenever the queue is empty, and dispatches its batch.    *)
(* The second half is an assumption about the load: the queue runs empty.  *)
FairSpec ==
  Spec /\ \A t \in Threads : SF_vars(Dispatch(t)) /\ WF_vars(FinishCall(t))

-----------------------------------------------------------------------------
(* The types of the variables: only real tasks are ever scheduled, never   *)
(* the empty content of a context (iomanager.cc:37-43).                    *)
TypeOK ==
  /\ events \in [Fds -> SUBSET Event]
  /\ ctx \in [Fds -> [Event -> Tasks \cup {None}]]
  /\ m_pendingEventCount \in Int
  /\ queue \subseteq Tasks
  /\ call \in [Threads -> Calls \cup {None}]
  /\ batch \in [Threads -> SUBSET Report]
  /\ aborted \in Assertion \cup {None}
  /\ interest \in [Fds -> SUBSET Event]
  /\ listed \subseteq Fds
  /\ ready \in [Fds -> SUBSET Event]
  /\ hup \subseteq Fds

(* The kernel's interest mask is FdContext::events: no registered event is *)
(* unknown to epoll, and epoll reports nothing nobody waits for.           *)
EpollMatchesEvents == \A fd \in Fds : interest[fd] = events[fd]

(* An event context holds a task exactly while its event is registered, so *)
(* triggerEvent never schedules an empty context (iomanager.cc:33-45) and  *)
(* the assertion that addEvent finds it empty holds (iomanager.cc:134).    *)
ContextMatchesEvents ==
  \A fd \in Fds, e \in Event : ctx[fd][e] # None <=> e \in events[fd]

(* The contexts, epoll and the types of both agree (iomanager.cc:118-146). *)
Consistent == TypeOK /\ EpollMatchesEvents /\ ContextMatchesEvents

(* A task waits in at most one context, its own, and not while it is also  *)
(* queued: whatever calls and dispatches race, it is woken once per wait.  *)
WokenOncePerWait ==
  \A k \in Tasks, fd \in Fds, e \in Event :
    ctx[fd][e] = k => Use[k] = <<fd, e>> /\ k \notin queue

(* m_pendingEventCount counts the registered events, which is what lets    *)
(* stopping() (iomanager.cc:271-277) use it to decide that no fiber waits. *)
PendingCountExact == m_pendingEventCount = Cardinality(Registered)

(* Edge-triggered epoll reports a level once.  While a registered event is *)
(* ready, the fd is on epoll's ready list or a thread holds a report that  *)
(* will wake the waiter: no path of idle() or of a cancelling call drops   *)
(* the only report there is.                                               *)
NoLostEdge ==
  aborted = None =>
    \A fd \in Fds : \A e \in events[fd] :
      (e \in ready[fd] \/ fd \in hup) =>
        \/ fd \in listed
        \/ \E t \in Threads : \E r \in batch[t] :
             r.fd = fd /\ (e \in r.mask \/ r.hup)

(* The assertions of triggerEvent (iomanager.cc:34) and addEvent (:115,    *)
(* :134) hold.                                                             *)
AssertionsHold == aborted = None

(* triggerEvent is called only for a registered event, as its first line   *)
(* asserts (iomanager.cc:34).                                              *)
TriggerAssertion == aborted # "triggerEvent: event not registered"

WaiterScheduledOrDeleted ==
  \A fd \in Fds, e \in Event :
    (ctx[fd][e] # None /\ ctx'[fd][e] = None) =>
      \/ ctx[fd][e] \in queue'
      \/ \E t \in Threads : delEvent(t) /\ call[t].fd = fd /\ call[t].event = e

(* A waiting task leaves its context only by being scheduled, except when  *)
(* delEvent removes it on purpose: no wake-up is lost.                     *)
NoWaiterDropped == [][WaiterScheduledOrDeleted]_vars

(* A waiter whose fd is ready leaves its context, without any new edge     *)
(* from the peer; by NoWaiterDropped it is then scheduled, or delEvent took*)
(* it away.                                                                *)
ReadyWaiterWoken ==
  \A k \in Tasks :
    LET fd == Use[k][1]
        e == Use[k][2]
    IN (ctx[fd][e] = k /\ e \in ready[fd]) ~> (ctx[fd][e] # k)

=============================================================================
