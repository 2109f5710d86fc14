---------------------------- MODULE TimerManager ----------------------------
(***************************************************************************)
(* civan::Timer and civan::TimerManager (civan/timer.cc), with the part of *)
(* IOManager::idle() (civan/iomanager.cc) that sleeps until the first      *)
(* timer and schedules the callbacks of the expired ones.                  *)
(*                                                                         *)
(* Worker threads run tasks, and enter idle() when there are none; outside *)
(* threads only call the timer operations, as tasks do too.  What runs     *)
(* under m_mutex is one step.  The construction of a Timer, which reads    *)
(* the clock, the tickle that follows an insertion, and the two locked     *)
(* sections of listExpiredCb are steps of their own.                       *)
(*                                                                         *)
(* m_timers is a std::set ordered by m_next, then by address: its members  *)
(* are pairs <<key, timer>>, the key being the m_next the timer had when   *)
(* it was inserted, because that is where the tree keeps it.               *)
(***************************************************************************)
EXTENDS Integers, FiniteSets

CONSTANTS
  Workers,      \* the threads of the IOManager
  Outside,      \* other threads that use its timers
  Timers,       \* Timer objects, named by their addresses
  Ms,           \* the periods the program asks for
  Ops,          \* the operations the program calls on a timer it holds
  MaxClock,     \* bound on the clock
  MaxBehind,    \* bound on how far the wall clock is set back
  ROLLOVER,     \* one hour in the code
  MAX_TIMEOUT   \* ten seconds in the code

Threads == Workers \cup Outside

ASSUME ThreadsAssumption == Workers # {} /\ Workers \cap Outside = {}
ASSUME TimersAssumption == Timers \subseteq Nat
ASSUME MsAssumption == Ms \subseteq Nat
ASSUME OpsAssumption == Ops \subseteq {"cancel", "refresh", "reset"}
ASSUME BoundsAssumption ==
  /\ MaxClock \in Nat /\ MaxBehind \in Nat
  /\ ROLLOVER \in Nat /\ MAX_TIMEOUT \in Nat \ {0}

VARIABLES
  clock,           \* the time that passes, which epoll_wait measures
  behind,          \* how far the wall clock was set back from it
  m_timers,        \* set of <<key, timer>>
  m_next, m_ms, m_recurring,
  m_cb,            \* whether the timer still has its callback
  made,            \* timers that were constructed
  held,            \* timers that addTimer has returned to the program
  m_tickled,
  m_previousTime,
  pc,              \* where each thread is
  arg,             \* the timer (and new period) a thread is working on
  deadline,        \* when the epoll_wait of a sleeping worker times out
  now_ms,          \* the clock a worker read in listExpiredCb
  cbs,             \* callbacks a worker took out of m_timers
  m_fibers,        \* callbacks in the scheduler's queue
  pipe,            \* m_tickleFds holds a byte
  edge,            \* epoll has the pipe on its ready list
  tickled,         \* the worker's epoll_wait reported the pipe
  crashed          \* *m_timers.begin() of an empty set

timerVars == <<m_timers, m_next, m_ms, m_recurring, m_cb, made>>
pipeVars == <<pipe, edge, tickled>>
clockVars == <<clock, behind>>
vars == <<clockVars, timerVars, held, m_tickled, m_previousTime, pc, arg, deadline, now_ms,
          cbs, m_fibers, pipeVars, crashed>>

PC == {"run", "insert", "tickle", "reset", "scan",
       "idle", "epoll_wait", "listExpiredCb", "nonempty", "schedule", "drain"}

(* The steps of idle(), during which m_idleThreadCount counts the worker.  *)
InIdle == {"idle", "epoll_wait", "listExpiredCb", "nonempty", "schedule", "drain"}

hasIdleThreads == \E w \in Workers : pc[w] \in InIdle

GetCurrentMs == clock - behind

Keys == {u[1] : u \in m_timers}

Armed(t) == \E u \in m_timers : u[2] = t

(* Timer::Comparator                                                       *)
Less(u, v) == u[1] < v[1] \/ (u[1] = v[1] /\ u[2] < v[2])

IsFirst(u, S) == \A v \in S : v = u \/ Less(u, v)

(* The values of local variables are forgotten when they are dead.         *)
NoArg == [timer |-> 0, ms |-> 0, from_now |-> FALSE]

Goto(th, to) == pc' = [pc EXCEPT ![th] = to]

-----------------------------------------------------------------------------
(* Timer operations, called by tasks and by outside threads.               *)

(* Timer::Timer reads the clock before addTimer takes the mutex.           *)
newTimer(th, t, ms, recurring) ==
  /\ pc[th] = "run" /\ t \notin made
  /\ made' = made \cup {t}
  /\ m_next' = [m_next EXCEPT ![t] = GetCurrentMs + ms]
  /\ m_ms' = [m_ms EXCEPT ![t] = ms]
  /\ m_recurring' = [m_recurring EXCEPT ![t] = recurring]
  /\ m_cb' = [m_cb EXCEPT ![t] = TRUE]
  /\ arg' = [arg EXCEPT ![th].timer = t]
  /\ Goto(th, "insert")
  /\ UNCHANGED <<clockVars, m_timers, held, m_tickled, m_previousTime, deadline, now_ms, cbs,
                 m_fibers, pipeVars, crashed>>

insertTimerQuietly(th, S, u) ==
  LET at_front == S = {} /\ ~m_tickled
  IN /\ m_timers' = S \cup {u}
     /\ m_tickled' = (m_tickled \/ at_front)
     /\ held' = IF at_front THEN held ELSE held \cup {u[2]}
     /\ arg' = [arg EXCEPT ![th] = IF at_front THEN @ ELSE NoArg]
     /\ Goto(th, IF at_front THEN "tickle" ELSE "run")

(* addTimer(timer, lock): insert, then decide whether to tickle.           *)
insertTimer(th, S, u) ==
  LET at_front == IsFirst(u, S) /\ ~m_tickled
  IN /\ m_timers' = S \cup {u}
     /\ m_tickled' = (m_tickled \/ at_front)
     /\ held' = IF at_front THEN held ELSE held \cup {u[2]}
     /\ arg' = [arg EXCEPT ![th] = IF at_front THEN @ ELSE NoArg]
     /\ Goto(th, IF at_front THEN "tickle" ELSE "run")

addTimer(th) ==
  LET t == arg[th].timer
  IN /\ pc[th] = "insert"
     /\ insertTimer(th, m_timers, <<m_next[t], t>>)
     /\ UNCHANGED <<clockVars, m_next, m_ms, m_recurring, m_cb, made, m_previousTime, deadline,
                    now_ms, cbs, m_fibers, pipeVars, crashed>>

(* onTimerInsertAtFront, then the return of addTimer or reset.             *)
tickle(th) ==
  /\ pc[th] = "tickle"
  /\ Goto(th, "run")
  /\ held' = held \cup {arg[th].timer}
  /\ arg' = [arg EXCEPT ![th] = NoArg]
  /\ pipe' = (pipe \/ hasIdleThreads)
  /\ edge' = (edge \/ hasIdleThreads)
  /\ UNCHANGED <<clockVars, timerVars, m_tickled, m_previousTime, deadline, now_ms, cbs,
                 m_fibers, tickled, crashed>>

(* A call with a null m_cb returns false and changes nothing.              *)
cancel(th, t) ==
  /\ "cancel" \in Ops /\ pc[th] = "run" /\ t \in held
  /\ m_cb[t]
  /\ m_cb' = [m_cb EXCEPT ![t] = FALSE]
  /\ m_timers' = m_timers \ {<<m_next[t], t>>}
  /\ UNCHANGED <<clockVars, m_next, m_ms, m_recurring, made, held, m_tickled, m_previousTime,
                 pc, arg, deadline, now_ms, cbs, m_fibers, pipeVars, crashed>>

refreshInPlace(th, t) ==
  /\ "refresh" \in Ops /\ pc[th] = "run" /\ t \in held
  /\ m_cb[t] /\ <<m_next[t], t>> \in m_timers
  /\ m_next' = [m_next EXCEPT ![t] = GetCurrentMs + m_ms[t]]
  /\ UNCHANGED <<clockVars, m_timers, m_ms, m_recurring, m_cb, made, held, m_tickled,
                 m_previousTime, pc, arg, deadline, now_ms, cbs, m_fibers, pipeVars, crashed>>

refreshUntested(th, t) ==
  /\ "refresh" \in Ops /\ pc[th] = "run" /\ t \in held
  /\ m_next' = [m_next EXCEPT ![t] = GetCurrentMs + m_ms[t]]
  /\ m_timers' = (m_timers \ {<<m_next[t], t>>}) \cup {<<m_next'[t], t>>}
  /\ UNCHANGED <<clockVars, m_ms, m_recurring, m_cb, made, held, m_tickled, m_previousTime,
                 pc, arg, deadline, now_ms, cbs, m_fibers, pipeVars, crashed>>

refresh(th, t) ==
  /\ "refresh" \in Ops /\ pc[th] = "run" /\ t \in held
  /\ m_cb[t] /\ <<m_next[t], t>> \in m_timers
  /\ m_next' = [m_next EXCEPT ![t] = GetCurrentMs + m_ms[t]]
  /\ m_timers' = (m_timers \ {<<m_next[t], t>>}) \cup {<<m_next'[t], t>>}
  /\ UNCHANGED <<clockVars, m_ms, m_recurring, m_cb, made, held, m_tickled, m_previousTime,
                 pc, arg, deadline, now_ms, cbs, m_fibers, pipeVars, crashed>>

(* reset compares ms with m_ms before it takes the mutex.                  *)
BeginReset(th, t, ms, from_now) ==
  /\ "reset" \in Ops /\ pc[th] = "run" /\ t \in held
  /\ ms # m_ms[t] \/ from_now
  /\ arg' = [arg EXCEPT ![th] = [timer |-> t, ms |-> ms, from_now |-> from_now]]
  /\ Goto(th, "reset")
  /\ UNCHANGED <<clockVars, timerVars, held, m_tickled, m_previousTime, deadline, now_ms, cbs,
                 m_fibers, pipeVars, crashed>>

reset(th) ==
  LET t == arg[th].timer
      ms == arg[th].ms
      start == IF arg[th].from_now THEN GetCurrentMs ELSE m_next[t] - m_ms[t]
  IN /\ pc[th] = "reset"
     /\ IF m_cb[t] /\ <<m_next[t], t>> \in m_timers
          THEN /\ m_ms' = [m_ms EXCEPT ![t] = ms]
               /\ m_next' = [m_next EXCEPT ![t] = ms + start]
               /\ insertTimer(th, m_timers \ {<<m_next[t], t>>}, <<ms + start, t>>)
          ELSE /\ Goto(th, "run")
               /\ arg' = [arg EXCEPT ![th] = NoArg]
               /\ UNCHANGED <<m_ms, m_next, m_timers, m_tickled, held>>
     /\ UNCHANGED <<clockVars, m_recurring, m_cb, made, m_previousTime, deadline, now_ms, cbs,
                    m_fibers, pipeVars, crashed>>

-----------------------------------------------------------------------------
(* idle()                                                                  *)

(* The head of the loop of run(): stopping() calls getNextTimer, which     *)
(* resets m_tickled although nobody sleeps on what it returns here.        *)
run(w) ==
  /\ pc[w] = "run"
  /\ m_tickled' = FALSE
  /\ Goto(w, "scan")
  /\ UNCHANGED <<clockVars, timerVars, held, m_previousTime, arg, deadline, now_ms, cbs,
                 m_fibers, pipeVars, crashed>>

(* A worker finds no task to run.                                          *)
EnterIdle(w) ==
  /\ pc[w] = "scan" /\ m_fibers = {}
  /\ Goto(w, "idle")
  /\ UNCHANGED <<clockVars, timerVars, held, m_tickled, m_previousTime, arg, deadline, now_ms,
                 cbs, m_fibers, pipeVars, crashed>>

(* The time to wait, and with it the end of the wait: the moment between   *)
(* getNextTimer and epoll_wait is not modelled.                            *)
NextTimeout ==
  IF Keys = {} THEN MAX_TIMEOUT
  ELSE LET next == CHOOSE n \in Keys : \A k \in Keys : n <= k
           ms == IF GetCurrentMs >= next THEN 0 ELSE next - GetCurrentMs
       IN IF ms > MAX_TIMEOUT THEN MAX_TIMEOUT ELSE ms

getNextTimer(w) ==
  /\ pc[w] = "idle"
  /\ m_tickled' = FALSE
  /\ deadline' = [deadline EXCEPT ![w] = clock + NextTimeout]
  /\ Goto(w, "epoll_wait")
  /\ UNCHANGED <<clockVars, timerVars, held, m_previousTime, arg, now_ms, cbs, m_fibers,
                 pipeVars, crashed>>

(* epoll_wait returns; listExpiredCb reads the clock first of all.         *)
Wake(w, byPipe) ==
  /\ pc[w] = "epoll_wait"
  /\ tickled' = [tickled EXCEPT ![w] = byPipe]
  /\ edge' = (edge /\ ~byPipe)
  /\ now_ms' = [now_ms EXCEPT ![w] = GetCurrentMs]
  /\ deadline' = [deadline EXCEPT ![w] = 0]
  /\ Goto(w, "listExpiredCb")
  /\ UNCHANGED <<clockVars, timerVars, held, m_tickled, m_previousTime, arg, cbs, m_fibers,
                 pipe, crashed>>

WakeOnTimeout(w) == clock >= deadline[w] /\ Wake(w, FALSE)

WakeOnTickle(w) == edge /\ pipe /\ Wake(w, TRUE)

(* A descriptor, which this module does not model, becomes ready.          *)
WakeOnEvent(w) == Wake(w, FALSE)

testNothing(w) ==
  /\ pc[w] = "listExpiredCb"
  /\ Goto(w, "nonempty")
  /\ UNCHANGED <<clockVars, timerVars, held, m_tickled, m_previousTime, arg, deadline, now_ms,
                 cbs, m_fibers, pipeVars, crashed>>

(* The first, read-locked section of listExpiredCb.                        *)
testEmpty(w) ==
  /\ pc[w] = "listExpiredCb"
  /\ Goto(w, IF m_timers = {} THEN "drain" ELSE "nonempty")
  /\ UNCHANGED <<clockVars, timerVars, held, m_tickled, m_previousTime, arg, deadline, now_ms,
                 cbs, m_fibers, pipeVars, crashed>>

detectClockRollover(w) == now_ms[w] < m_previousTime - ROLLOVER

ExpiredTooSoon(w) ==
  IF detectClockRollover(w) THEN m_timers ELSE {u \in m_timers : u[1] <= now_ms[w] + 1}

ExpiredBefore(w) ==
  IF detectClockRollover(w) THEN m_timers ELSE {u \in m_timers : u[1] < now_ms[w]}

Expired(w) ==
  IF detectClockRollover(w) THEN m_timers ELSE {u \in m_timers : u[1] <= now_ms[w]}

(* The second, write-locked section.  It reads *m_timers.begin() without   *)
(* testing again that there is one.                                        *)
listExpiredCb(w) ==
  LET expired == {u[2] : u \in Expired(w)}
      again == {t \in expired : m_recurring[t]}
  IN /\ pc[w] = "nonempty"
     /\ m_previousTime' = now_ms[w]
     /\ IF m_timers = {} /\ ~detectClockRollover(w)
          THEN /\ crashed' = TRUE
               /\ UNCHANGED <<timerVars, cbs, pc>>
          ELSE /\ m_next' = [t \in Timers |-> IF t \in again THEN now_ms[w] + m_ms[t]
                                              ELSE m_next[t]]
               /\ m_timers' = (m_timers \ Expired(w)) \cup {<<m_next'[t], t>> : t \in again}
               /\ m_cb' = [t \in Timers |-> m_cb[t] /\ t \notin expired \ again]
               /\ cbs' = [cbs EXCEPT ![w] = expired]
               /\ Goto(w, IF expired = {} THEN "drain" ELSE "schedule")
               /\ UNCHANGED <<m_ms, m_recurring, made, crashed>>
     /\ UNCHANGED <<clockVars, held, m_tickled, arg, deadline, now_ms, m_fibers, pipeVars>>

(* schedule(cbs) tickles when the queue was empty.  The worker itself is   *)
(* an idle thread.                                                         *)
schedule(w) ==
  /\ pc[w] = "schedule"
  /\ m_fibers' = m_fibers \cup cbs[w]
  /\ cbs' = [cbs EXCEPT ![w] = {}]
  /\ pipe' = (pipe \/ m_fibers = {})
  /\ edge' = (edge \/ m_fibers = {})
  /\ Goto(w, "drain")
  /\ UNCHANGED <<clockVars, timerVars, held, m_tickled, m_previousTime, arg, deadline, now_ms,
                 tickled, crashed>>

(* The loop over the events empties the pipe if it was reported.           *)
drain(w) ==
  /\ pc[w] = "drain"
  /\ pipe' = (pipe /\ ~tickled[w])
  /\ tickled' = [tickled EXCEPT ![w] = FALSE]
  /\ now_ms' = [now_ms EXCEPT ![w] = 0]
  /\ Goto(w, "run")
  /\ UNCHANGED <<clockVars, timerVars, held, m_tickled, m_previousTime, arg, deadline, cbs,
                 m_fibers, edge, crashed>>

-----------------------------------------------------------------------------
(* The scheduler takes a callback and runs it.                             *)
RunCallback(w, t) ==
  /\ pc[w] = "scan" /\ t \in m_fibers
  /\ m_fibers' = m_fibers \ {t}
  /\ Goto(w, "run")
  /\ UNCHANGED <<clockVars, timerVars, held, m_tickled, m_previousTime, arg, deadline, now_ms,
                 cbs, pipeVars, crashed>>

Tick ==
  /\ clock < MaxClock
  /\ clock' = clock + 1
  /\ UNCHANGED <<behind, timerVars, held, m_tickled, m_previousTime, pc, arg, deadline, now_ms,
                 cbs, m_fibers, pipeVars, crashed>>

(* The wall clock that GetCurrentMs reads is set back.                     *)
SetBack ==
  /\ behind' \in (behind + 1) .. MaxBehind
  /\ behind' <= clock
  /\ UNCHANGED <<clock, timerVars, held, m_tickled, m_previousTime, pc, arg, deadline, now_ms,
                 cbs, m_fibers, pipeVars, crashed>>

-----------------------------------------------------------------------------
Init ==
  /\ clock = 0 /\ behind = 0
  /\ m_timers = {}
  /\ m_next = [t \in Timers |-> 0]
  /\ m_ms = [t \in Timers |-> 0]
  /\ m_recurring = [t \in Timers |-> FALSE]
  /\ m_cb = [t \in Timers |-> FALSE]
  /\ made = {} /\ held = {}
  /\ m_tickled = FALSE
  /\ m_previousTime = 0
  /\ pc = [th \in Threads |-> "run"]
  /\ arg = [th \in Threads |-> [timer |-> 0, ms |-> 0, from_now |-> FALSE]]
  /\ deadline = [w \in Workers |-> 0]
  /\ now_ms = [w \in Workers |-> 0]
  /\ cbs = [w \in Workers |-> {}]
  /\ m_fibers = {}
  /\ pipe = FALSE /\ edge = FALSE
  /\ tickled = [w \in Workers |-> FALSE]
  /\ crashed = FALSE

Call(th) ==
  \E t \in Timers :
    \/ \E ms \in Ms, b \in BOOLEAN : newTimer(th, t, ms, b) \/ BeginReset(th, t, ms, b)
    \/ cancel(th, t) \/ refresh(th, t)

FinishCall(th) == addTimer(th) \/ tickle(th) \/ reset(th)

idle(w) ==
  \/ run(w) \/ EnterIdle(w) \/ getNextTimer(w)
  \/ WakeOnTimeout(w) \/ WakeOnTickle(w)
  \/ testEmpty(w) \/ listExpiredCb(w) \/ schedule(w) \/ drain(w)

Run(w) == \E t \in Timers : RunCallback(w, t)

Next ==
  /\ ~crashed
  /\ \/ \E th \in Threads : Call(th) \/ FinishCall(th)
     \/ \E w \in Workers : idle(w) \/ Run(w) \/ WakeOnEvent(w)
     \/ Tick \/ SetBack

Spec == Init /\ [][Next]_vars

(* Threads that can run do run, and time passes.  A descriptor need never  *)
(* become ready, and the program need never make a call.                   *)
FairSpec ==
  /\ Spec
  /\ WF_vars(Next /\ Tick)
  /\ \A th \in Threads : WF_vars(Next /\ FinishCall(th))
  /\ \A w \in Workers : WF_vars(Next /\ (idle(w) \/ Run(w)))

-----------------------------------------------------------------------------
(* The types of the variables; a worker sleeps MAX_TIMEOUT at most, and a  *)
(* thread works on a timer that was constructed.                           *)
TypeOK ==
  /\ clock \in Nat /\ behind \in 0 .. clock
  /\ m_timers \subseteq Nat \X Timers
  /\ m_next \in [Timers -> Nat] /\ m_ms \in [Timers -> Nat]
  /\ m_recurring \in [Timers -> BOOLEAN] /\ m_cb \in [Timers -> BOOLEAN]
  /\ made \subseteq Timers /\ held \subseteq made
  /\ m_tickled \in BOOLEAN /\ m_previousTime \in Nat
  /\ pc \in [Threads -> PC] /\ \A o \in Outside : pc[o] \notin InIdle
  /\ arg \in [Threads -> [timer : Int, ms : Nat, from_now : BOOLEAN]]
  /\ \A th \in Threads : pc[th] \in {"insert", "tickle", "reset"} => arg[th].timer \in made
  /\ deadline \in [Workers -> Nat] /\ now_ms \in [Workers -> Nat]
  /\ \A w \in Workers : deadline[w] <= clock + MAX_TIMEOUT
  /\ cbs \in [Workers -> SUBSET Timers] /\ m_fibers \subseteq Timers
  /\ pipe \in BOOLEAN /\ edge \in BOOLEAN /\ tickled \in [Workers -> BOOLEAN]
  /\ crashed \in BOOLEAN

(* A timer sits in m_timers under its current m_next: no operation changes *)
(* the key of a member in place, so find() in cancel, refresh and reset    *)
(* finds it (timer.cc:46, 58, 78), and each timer is there once.           *)
KeysMatch == \A u \in m_timers : u[1] = m_next[u[2]]

Inserting(t) == \E th \in Threads : pc[th] = "insert" /\ arg[th].timer = t

(* A timer has its callback exactly while it is in m_timers or about to be *)
(* inserted.  cancel erases what find() returns without testing it         *)
(* (timer.cc:46-47), which is sound because a held timer with a callback   *)
(* is in the set.                                                          *)
CbIffArmed == \A t \in Timers : m_cb[t] <=> (Armed(t) \/ Inserting(t))

(* The set of timers, its keys and the callbacks agree, so that find() in  *)
(* cancel, refresh and reset (timer.cc:46, 58, 78) finds what it should.   *)
TimersConsistent == TypeOK /\ KeysMatch /\ CbIffArmed

(* m_tickled suppresses the tickle of an insertion at the front            *)
(* (timer.cc:182) only while some worker is sure to call getNextTimer      *)
(* again: one that is awake, or one that a pending tickle will wake.       *)
TickledMeansAwake ==
  m_tickled =>
    \/ \E w \in Workers : pc[w] # "epoll_wait"
    \/ edge /\ pipe
    \/ \E th \in Threads : pc[th] = "tickle"

(* While there is a timer, some worker is awake, is about to be woken, or  *)
(* sleeps no longer than until the first timer: no insertion, reset,       *)
(* refresh or expiry leaves all workers asleep past a timer's time, as     *)
(* long as the wall clock is not set back.                                 *)
NoOversleep ==
  (m_timers # {} /\ behind = 0) =>
    \/ \E w \in Workers : pc[w] # "epoll_wait"
    \/ edge /\ pipe
    \/ \E th \in Threads : pc[th] = "tickle"
    \/ \E w \in Workers : \A n \in Keys : deadline[w] <= n \/ deadline[w] <= clock

(* The suppressed tickles (timer.cc:182) and the sleeps of idle()          *)
(* (iomanager.cc:293) never let a timer be overslept.                      *)
SleepSound == TickledMeansAwake /\ NoOversleep

(* listExpiredCb never reads the first element of an empty set             *)
(* (timer.cc:156).                                                         *)
NoEmptyDereference == ~crashed

FiresWhenDue ==
  \A w \in Workers : \A t \in cbs'[w] \ cbs[w] :
    \/ m_next[t] <= clock
    \/ now_ms[w] < m_previousTime - ROLLOVER

(* A callback is taken only when its time has come, or when the clock was  *)
(* set back by more than an hour since the last call (timer.cc:155-160).   *)
NotEarly == [][FiresWhenDue]_vars

StaysDead ==
  \A t \in held : ~m_cb[t] =>
    /\ ~m_cb'[t]
    /\ \A w \in Workers : t \in cbs'[w] => t \in cbs[w]

(* Once cancel has returned true, or a one-shot timer has fired, no        *)
(* operation brings the timer back and its callback is not taken again.    *)
DeadStaysDead == [][StaysDead]_vars

(* A timer that nobody cancels or moves fires: its callback reaches the    *)
(* scheduler's queue once its time has come, which the bounds on the clock *)
(* allow.  sleep() and the timeouts of hook.cc depend on it.               *)
TimerFires ==
  \A t \in Timers, n \in 0 .. (MaxClock - MaxBehind) : (<<n, t>> \in m_timers) ~> (t \in m_fibers)
=============================================================================
