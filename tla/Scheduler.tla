----------------------------- MODULE Scheduler -----------------------------
(***************************************************************************)
(* Fibers and the scheduler that runs them: civan::Fiber (fiber.cc), the   *)
(* run loop, schedule() and stop() of civan::Scheduler (scheduler.cc,      *)
(* scheduler.h), and the part of IOManager that they meet: stopping(),     *)
(* and the wake-up of a fiber that waits for an event (iomanager.cc).      *)
(*                                                                         *)
(* Every worker thread executes run().  A step is what happens under       *)
(* m_mutex, or one access to state that other threads share without it:    *)
(* m_state of a fiber, m_activeThreadCount, m_pendingEventCount.           *)
(*                                                                         *)
(* A callback gets a Fiber of its own when run() takes it, and what run()  *)
(* does with it afterwards is what it does with a fiber (compare           *)
(* scheduler.cc:203-216 and 217-238), so a task is named by its fiber.     *)
(***************************************************************************)
EXTENDS Integers, Sequences, FiniteSets, FiniteSetsExt

CONSTANTS
  Workers,    \* the threads that execute run()
  Root,       \* the one that is the caller's thread (use_caller), or None
  Fibers,     \* the fibers the program makes
  Pins,       \* the threads the program pins a task to, and ANY
  ANY,        \* no pin: thread == -1
  Acts,       \* what fibers do besides returning
  MaxYields,  \* bound on the yields of each fiber
  None

ASSUME WorkersAssumption == IsFiniteSet(Workers) /\ Workers # {}
ASSUME RootAssumption == Root \in Workers \cup {None} /\ None \notin Workers \cup Fibers
ASSUME PinsAssumption == Pins \subseteq Workers \cup {ANY} /\ ANY \notin Workers
ASSUME ActsAssumption == Acts \subseteq {"hold", "ready", "throw", "schedule"}
ASSUME MaxYieldsAssumption == MaxYields \in Nat

VARIABLES
  m_fibers,             \* the queue: a sequence of [fiber, thread]
  m_activeThreadCount,
  m_pendingEventCount,
  m_autoStops, m_stopping,
  m_state,              \* Fiber::m_state
  saved,                \* fibers whose m_ctx is what swapcontext last saved
  waiting,              \* fibers in an event context of the IOManager
  registered,           \* fibers that called addEvent since they were resumed
  yields,               \* how often each fiber yielded
  spawned,              \* fibers that were scheduled for the first time
  pc, cur,              \* of each worker: where it is, and ft.fiber
  idleTerm,             \* workers whose idle fiber has returned
  stop,                 \* where the thread that calls stop() is
  aborted               \* the assertion that failed or the context misused

queueVars == <<m_fibers, m_activeThreadCount>>
stopVars == <<m_autoStops, m_stopping, stop>>
eventVars == <<m_pendingEventCount, waiting, registered>>
fiberVars == <<m_state, saved, yields, spawned>>
workerVars == <<pc, cur, idleTerm>>
vars == <<queueVars, stopVars, eventVars, fiberVars, workerVars, aborted>>

State == {"INIT", "HOLD", "EXEC", "TERM", "READY", "EXCEPT"}

PC == {"off", "run", "run_stopping", "scan", "swapIn", "fiber", "swapOut", "back", "isReady",
       "isTerm", "setHold", "idle", "idle_stopping", "epoll_wait", "triggered", "exit"}

Task == [fiber : Fibers, thread : Workers \cup {ANY}]

Ended(f) == m_state[f] \in {"TERM", "EXCEPT"}

Goto(w, to) == pc' = [pc EXCEPT ![w] = to]

(* Back to the head of the loop, with ft.reset().                          *)
Loop(w) ==
  /\ Goto(w, "run")
  /\ cur' = [cur EXCEPT ![w] = None]

scheduleNoLock(f, thread) == m_fibers' = Append(m_fibers, [fiber |-> f, thread |-> thread])

(* Mutant of Scheduler_stopping: the queue is not tested.                  *)
stoppingIgnoresQueue == m_autoStops /\ m_stopping /\ m_activeThreadCount = 0

(* Scheduler::stopping, evaluated under m_mutex.                           *)
Scheduler_stopping ==
  m_autoStops /\ m_stopping /\ m_fibers = <<>> /\ m_activeThreadCount = 0

-----------------------------------------------------------------------------
(* run()                                                                   *)

(* IOManager::stopping reads m_pendingEventCount before Scheduler::stopping*)
(* takes the mutex.                                                        *)
ReadPending(w, from, to, busy) ==
  /\ pc[w] = from
  /\ Goto(w, IF m_pendingEventCount = 0 THEN to ELSE busy)
  /\ UNCHANGED <<queueVars, stopVars, eventVars, fiberVars, cur, idleTerm, aborted>>

run(w) == ReadPending(w, "run", "run_stopping", "scan")

run_stopping(w) ==
  /\ pc[w] = "run_stopping"
  /\ Goto(w, IF Scheduler_stopping THEN "exit" ELSE "scan")
  /\ UNCHANGED <<queueVars, stopVars, eventVars, fiberVars, cur, idleTerm, aborted>>

(* The positions of the queue that w may take: not pinned to another       *)
(* thread, and not running.                                                *)
Takable(w) ==
  {i \in DOMAIN m_fibers : /\ m_fibers[i].thread \in {ANY, w}
                           /\ m_state[m_fibers[i].fiber] # "EXEC"}

(* std::list::erase.                                                       *)
erase(s, i) == SubSeq(s, 1, i - 1) \o SubSeq(s, i + 1, Len(s))

scan(w) ==
  /\ pc[w] = "scan"
  /\ IF Takable(w) # {}
       THEN LET i == Min(Takable(w))
            IN /\ m_fibers' = erase(m_fibers, i)
               /\ m_activeThreadCount' = m_activeThreadCount + 1
               /\ cur' = [cur EXCEPT ![w] = m_fibers[i].fiber]
               /\ Goto(w, "swapIn")
       ELSE /\ Goto(w, IF w \in idleTerm THEN "exit" ELSE "idle")
            /\ UNCHANGED <<queueVars, cur>>
  /\ UNCHANGED <<stopVars, eventVars, fiberVars, idleTerm, aborted>>

(* A fiber that has ended meanwhile is dropped; another one is resumed.    *)
swapIn(w) ==
  LET f == cur[w]
  IN /\ pc[w] = "swapIn"
     /\ IF Ended(f)
          THEN /\ m_activeThreadCount' = m_activeThreadCount - 1
               /\ Loop(w)
               /\ UNCHANGED <<m_fibers, m_state, saved, registered, aborted>>
        ELSE IF m_state[f] = "EXEC"
          THEN /\ aborted' = "swapIn_running"
               /\ UNCHANGED <<queueVars, m_state, saved, registered, pc, cur>>
        ELSE IF f \notin saved
          THEN /\ aborted' = "swapIn_unsaved"
               /\ UNCHANGED <<queueVars, m_state, saved, registered, pc, cur>>
        ELSE /\ m_state' = [m_state EXCEPT ![f] = "EXEC"]
             /\ saved' = saved \ {f}
             /\ registered' = registered \ {f}
             /\ Goto(w, "fiber")
             /\ UNCHANGED <<queueVars, cur, aborted>>
     /\ UNCHANGED <<stopVars, m_pendingEventCount, waiting, yields, spawned, idleTerm>>

(* swapcontext returns in run().                                           *)
swapOut(w) ==
  /\ pc[w] = "swapOut"
  /\ saved' = saved \cup {cur[w]}
  /\ Goto(w, "back")
  /\ UNCHANGED <<queueVars, stopVars, eventVars, m_state, yields, spawned, cur, idleTerm, aborted>>

(* Mutant of back: --m_activeThreadCount is missing.                       *)
backUncounted(w) ==
  /\ pc[w] = "back"
  /\ Goto(w, "isReady")
  /\ UNCHANGED <<queueVars, stopVars, eventVars, fiberVars, cur, idleTerm, aborted>>

back(w) ==
  /\ pc[w] = "back"
  /\ m_activeThreadCount' = m_activeThreadCount - 1
  /\ Goto(w, "isReady")
  /\ UNCHANGED <<m_fibers, stopVars, eventVars, fiberVars, cur, idleTerm, aborted>>

(* Mutant of isReady: the fiber is not queued again.                       *)
isReadyDropped(w) ==
  /\ pc[w] = "isReady"
  /\ IF m_state[cur[w]] = "READY"
       THEN Loop(w)
       ELSE Goto(w, "isTerm") /\ UNCHANGED cur
  /\ UNCHANGED <<queueVars, stopVars, eventVars, fiberVars, idleTerm, aborted>>

(* A fiber that yielded to READY is queued again, without its pin.         *)
isReady(w) ==
  /\ pc[w] = "isReady"
  /\ IF m_state[cur[w]] = "READY"
       THEN scheduleNoLock(cur[w], ANY) /\ Loop(w)
       ELSE Goto(w, "isTerm") /\ UNCHANGED <<m_fibers, cur>>
  /\ UNCHANGED <<m_activeThreadCount, stopVars, eventVars, fiberVars, idleTerm, aborted>>

isTerm(w) ==
  /\ pc[w] = "isTerm"
  /\ IF Ended(cur[w]) THEN Loop(w) ELSE Goto(w, "setHold") /\ UNCHANGED cur
  /\ UNCHANGED <<queueVars, stopVars, eventVars, fiberVars, idleTerm, aborted>>

setHold(w) ==
  /\ pc[w] = "setHold"
  /\ m_state' = [m_state EXCEPT ![cur[w]] = "HOLD"]
  /\ Loop(w)
  /\ UNCHANGED <<queueVars, stopVars, eventVars, saved, yields, spawned, idleTerm, aborted>>

-----------------------------------------------------------------------------
(* The idle fiber: IOManager::idle.                                        *)

idle(w) == ReadPending(w, "idle", "idle_stopping", "epoll_wait")

idle_stopping(w) ==
  /\ pc[w] = "idle_stopping"
  /\ IF Scheduler_stopping
       THEN idleTerm' = idleTerm \cup {w} /\ Goto(w, "run")
       ELSE Goto(w, "epoll_wait") /\ UNCHANGED idleTerm
  /\ UNCHANGED <<queueVars, stopVars, eventVars, fiberVars, cur, aborted>>

(* An event of f: triggerEvent schedules it, and the count follows.        *)
triggerEvent(w, f) ==
  /\ pc[w] = "epoll_wait" /\ f \in waiting
  /\ waiting' = waiting \ {f}
  /\ scheduleNoLock(f, ANY)
  /\ Goto(w, "triggered")
  /\ UNCHANGED <<m_activeThreadCount, stopVars, m_pendingEventCount, registered, fiberVars, cur,
                 idleTerm, aborted>>

(* Mutant of triggered: --m_pendingEventCount is missing.                  *)
triggeredUncounted(w) ==
  /\ pc[w] = "triggered"
  /\ Goto(w, "epoll_wait")
  /\ UNCHANGED <<queueVars, stopVars, eventVars, fiberVars, cur, idleTerm, aborted>>

triggered(w) ==
  /\ pc[w] = "triggered"
  /\ m_pendingEventCount' = m_pendingEventCount - 1
  /\ Goto(w, "epoll_wait")
  /\ UNCHANGED <<queueVars, stopVars, waiting, registered, fiberVars, cur, idleTerm, aborted>>

(* epoll_wait's events are done, or it timed out: idle() swaps out.        *)
leaveIdle(w) ==
  /\ pc[w] = "epoll_wait"
  /\ Goto(w, "run")
  /\ UNCHANGED <<queueVars, stopVars, eventVars, fiberVars, cur, idleTerm, aborted>>

-----------------------------------------------------------------------------
(* What a running fiber does.                                              *)

addEvent(w) ==
  LET f == cur[w]
  IN /\ "hold" \in Acts /\ pc[w] = "fiber" /\ f \notin registered /\ yields[f] < MaxYields
     /\ IF m_state[f] # "EXEC"
          THEN /\ aborted' = "addEvent_notRunning"
               /\ UNCHANGED eventVars
          ELSE /\ waiting' = waiting \cup {f}
               /\ registered' = registered \cup {f}
               /\ m_pendingEventCount' = m_pendingEventCount + 1
               /\ UNCHANGED aborted
     /\ UNCHANGED <<queueVars, stopVars, fiberVars, workerVars>>

(* The yield functions write m_state before swapOut saves the context.     *)
Yield(w, to) ==
  /\ pc[w] = "fiber"
  /\ m_state' = [m_state EXCEPT ![cur[w]] = to]
  /\ Goto(w, "swapOut")
  /\ UNCHANGED <<queueVars, stopVars, eventVars, saved, spawned, cur, idleTerm, aborted>>

YieldToHold(w) ==
  /\ cur[w] \in registered
  /\ yields' = [yields EXCEPT ![cur[w]] = @ + 1]
  /\ Yield(w, "HOLD")

(* Mutant of YieldToReady: the fiber queues itself before it swaps out.    *)
YieldToReadyEarly(w) ==
  /\ "ready" \in Acts /\ cur[w] \notin registered /\ pc[w] = "fiber"
  /\ yields[cur[w]] < MaxYields
  /\ yields' = [yields EXCEPT ![cur[w]] = @ + 1]
  /\ m_state' = [m_state EXCEPT ![cur[w]] = "READY"]
  /\ scheduleNoLock(cur[w], ANY)
  /\ Goto(w, "swapOut")
  /\ UNCHANGED <<m_activeThreadCount, stopVars, eventVars, saved, spawned, cur, idleTerm, aborted>>

YieldToReady(w) ==
  /\ "ready" \in Acts /\ cur[w] \notin registered /\ pc[w] = "fiber"
  /\ yields[cur[w]] < MaxYields
  /\ yields' = [yields EXCEPT ![cur[w]] = @ + 1]
  /\ Yield(w, "READY")

(* The fiber's function returns or throws.                                 *)
MainFunc(w) ==
  /\ cur[w] \notin registered
  /\ \E to \in {"TERM"} \cup (IF "throw" \in Acts THEN {"EXCEPT"} ELSE {}) : Yield(w, to)
  /\ UNCHANGED yields

Schedule(w, f, thread) ==
  /\ "schedule" \in Acts /\ pc[w] = "fiber" /\ f \notin spawned
  /\ spawned' = spawned \cup {f}
  /\ scheduleNoLock(f, thread)
  /\ UNCHANGED <<m_activeThreadCount, stopVars, eventVars, m_state, saved, yields, workerVars,
                 aborted>>

-----------------------------------------------------------------------------
(* The thread that owns the scheduler: it schedules, then calls stop().    *)

Submit(f, thread) ==
  /\ stop = "no" /\ f \notin spawned
  /\ spawned' = spawned \cup {f}
  /\ scheduleNoLock(f, thread)
  /\ UNCHANGED <<m_activeThreadCount, stopVars, eventVars, m_state, saved, yields, workerVars,
                 aborted>>

(* stop() sets m_autoStops, then m_stopping, neither under the mutex.  The *)
(* early return of a scheduler with no thread but the caller's             *)
(* (scheduler.cc:76-86) is the test that StopTests makes: nothing changes  *)
(* in between.                                                             *)
BeginStop ==
  /\ stop = "no"
  /\ m_autoStops' = TRUE
  /\ stop' = "autoStops"
  /\ UNCHANGED <<m_stopping, queueVars, eventVars, fiberVars, workerVars, aborted>>

(* Mutant of SetStopping: m_stopping is not set.                           *)
SetStoppingMissing ==
  /\ stop = "autoStops"
  /\ stop' = IF Root = None THEN "join" ELSE "pending"
  /\ UNCHANGED <<m_autoStops, m_stopping, queueVars, eventVars, fiberVars, workerVars, aborted>>

SetStopping ==
  /\ stop = "autoStops"
  /\ m_stopping' = TRUE
  /\ stop' = IF Root = None THEN "join" ELSE "pending"
  /\ UNCHANGED <<m_autoStops, queueVars, eventVars, fiberVars, workerVars, aborted>>

(* With use_caller, the caller runs the root fiber unless stopping().      *)
StopReadsPending ==
  /\ stop = "pending"
  /\ stop' = IF m_pendingEventCount = 0 THEN "root" ELSE "call"
  /\ UNCHANGED <<m_autoStops, m_stopping, queueVars, eventVars, fiberVars, workerVars, aborted>>

StopTests ==
  /\ stop = "root"
  /\ stop' = IF Scheduler_stopping THEN "join" ELSE "call"
  /\ UNCHANGED <<m_autoStops, m_stopping, queueVars, eventVars, fiberVars, workerVars, aborted>>

CallRoot ==
  /\ stop = "call"
  /\ Goto(Root, "run")
  /\ stop' = "join"
  /\ UNCHANGED <<m_autoStops, m_stopping, queueVars, eventVars, fiberVars, cur, idleTerm, aborted>>

(* Root's own run() has to return before stop() joins the threads.         *)
Join ==
  /\ stop = "join"
  /\ \A w \in Workers : pc[w] \in {"off", "exit"}
  /\ stop' = "stopped"
  /\ UNCHANGED <<m_autoStops, m_stopping, queueVars, eventVars, fiberVars, workerVars, aborted>>

-----------------------------------------------------------------------------
(* start() has made the threads.                                           *)
Init ==
  /\ m_fibers = <<>>
  /\ m_activeThreadCount = 0 /\ m_pendingEventCount = 0
  /\ m_autoStops = FALSE /\ m_stopping = FALSE
  /\ m_state = [f \in Fibers |-> "INIT"]
  /\ saved = Fibers
  /\ waiting = {} /\ registered = {} /\ spawned = {}
  /\ yields = [f \in Fibers |-> 0]
  /\ pc = [w \in Workers |-> IF w = Root THEN "off" ELSE "run"]
  /\ cur = [w \in Workers |-> None]
  /\ idleTerm = {}
  /\ stop = "no"
  /\ aborted = None

RunLoop(w) ==
  \/ run(w) \/ run_stopping(w) \/ scan(w) \/ swapIn(w)
  \/ swapOut(w) \/ back(w) \/ isReady(w) \/ isTerm(w) \/ setHold(w)

IdleLoop(w) ==
  \/ idle(w) \/ idle_stopping(w) \/ triggered(w) \/ leaveIdle(w)
  \/ \E f \in Fibers : triggerEvent(w, f)

FiberStep(w) ==
  \/ addEvent(w) \/ YieldToHold(w) \/ YieldToReady(w) \/ MainFunc(w)
  \/ \E f \in Fibers, p \in Pins : Schedule(w, f, p)

StopStep == SetStopping \/ StopReadsPending \/ StopTests \/ CallRoot \/ Join

Next ==
  /\ aborted = None
  /\ \/ \E w \in Workers : RunLoop(w) \/ IdleLoop(w) \/ FiberStep(w)
     \/ \E f \in Fibers, p \in Pins : Submit(f, p)
     \/ BeginStop \/ StopStep

Spec == Init /\ [][Next]_vars

(* Threads and fibers that can go on do so, stop() included, and an event  *)
(* somebody waits for happens: IOManager!NoLostEdge is why it then reaches *)
(* its fiber.                                                              *)
FairSpec ==
  /\ Spec
  /\ \A w \in Workers : /\ WF_vars(Next /\ RunLoop(w))
                        /\ WF_vars(Next /\ IdleLoop(w))
                        /\ WF_vars(Next /\ FiberStep(w))
  /\ \A f \in Fibers : SF_vars(Next /\ \E w \in Workers : triggerEvent(w, f))
  /\ WF_vars(Next /\ StopStep)

-----------------------------------------------------------------------------
Assertion == {"swapIn_running", "swapIn_unsaved", "addEvent_notRunning"}

(* The types of the variables; a worker has a fiber while it handles one.  *)
TypeOK ==
  /\ m_fibers \in Seq(Task)
  /\ m_activeThreadCount \in 0 .. Cardinality(Workers)
  /\ m_pendingEventCount \in Nat
  /\ m_autoStops \in BOOLEAN /\ m_stopping \in BOOLEAN
  /\ m_state \in [Fibers -> State] /\ saved \subseteq Fibers
  /\ waiting \subseteq Fibers /\ registered \subseteq Fibers /\ spawned \subseteq Fibers
  /\ yields \in [Fibers -> 0 .. MaxYields]
  /\ pc \in [Workers -> PC] /\ cur \in [Workers -> Fibers \cup {None}]
  /\ \A w \in Workers : cur[w] = None <=>
       pc[w] \in {"off", "run", "run_stopping", "scan", "idle", "idle_stopping", "epoll_wait",
                  "triggered", "exit"}
  /\ idleTerm \subseteq Workers
  /\ stop \in {"no", "autoStops", "pending", "root", "call", "join", "stopped"}
  /\ aborted \in Assertion \cup {None}

(* m_activeThreadCount is the number of workers between taking a task and  *)
(* getting it back: the two decrements of run() (scheduler.cc:207, 241)    *)
(* match the one increment, on every path.                                 *)
ActiveExact ==
  m_activeThreadCount =
    Cardinality({w \in Workers : pc[w] \in {"swapIn", "fiber", "swapOut", "back"}})

(* m_pendingEventCount is the number of waiting fibers, plus one while a   *)
(* worker is between triggerEvent and the decrement: it is never less, so  *)
(* stopping() does not overlook a fiber that is not in the queue yet.      *)
PendingCovers ==
  m_pendingEventCount = Cardinality(waiting) + Cardinality({w \in Workers : pc[w] = "triggered"})

(* No fiber is on two threads, or on one thread and resumable by another:  *)
(* while a worker has a fiber on its stack, no other worker has taken it.  *)
OneRunner ==
  \A w, v \in Workers :
    (w # v /\ {pc[w], pc[v]} \subseteq {"swapIn", "fiber", "swapOut"}) => cur[w] # cur[v]

(* A fiber whose m_state is not an ended one is in the queue, waits for an *)
(* event, or is handled by a worker.  Otherwise nobody can resume it; and  *)
(* if it had ended, its last reference goes in a state that the assertion  *)
(* of ~Fiber (fiber.cc:61) forbids.                                        *)
NoFiberLost ==
  \A f \in Fibers : m_state[f] \in {"HOLD", "READY", "EXEC"} =>
    \/ \E i \in DOMAIN m_fibers : m_fibers[i].fiber = f
    \/ f \in waiting
    \/ \E w \in Workers : cur[w] = f

(* The assertions of Fiber::swapIn (fiber.cc:117) and of addEvent          *)
(* (iomanager.cc:142) hold, and a context is resumed only after swapcontext*)
(* has saved it.                                                           *)
AssertionsHold == aborted = None

(* No fiber is run twice at a time, resumed half saved or lost             *)
(* (scheduler.cc:171-249, fiber.cc:115-131).                               *)
FibersSound == TypeOK /\ OneRunner /\ NoFiberLost /\ AssertionsHold

(* addEvent is called by a fiber in state EXEC, as it asserts              *)
(* (iomanager.cc:142).                                                     *)
AddEventAssertion == aborted # "addEvent_notRunning"

(* When stop() returns no task is left behind, in the queue or in an event *)
(* context, where nobody would resume it any more.  A worker may leave     *)
(* early, because stopping() read the event count before the mutex or      *)
(* because a fiber that yielded was between m_activeThreadCount and the    *)
(* queue; the last one may not.                                            *)
StopDrains == stop = "stopped" => m_fibers = <<>> /\ waiting = {}

(* stop() returns (tests/test_scheduler.cc:21-22).                         *)
StopReturns == (stop = "autoStops") ~> (stop = "stopped")

(* Every task that was scheduled is run to its end.                        *)
EveryTaskEnds == \A f \in Fibers : (f \in spawned) ~> Ended(f)
=============================================================================
