-------------------------- MODULE SchedulerProofs --------------------------
(* What holds of the scheduler for any number of workers and fibers.       *)
EXTENDS Scheduler, FiniteSetTheorems, WellFoundedInduction, TLAPS

(* There is one worker: nobody but the thread that runs a fiber can resume *)
(* it.                                                                     *)
OneWorker == \A w, v \in Workers : w = v

(* No fiber waits for events: they only yield to READY, return or throw.   *)
NoHold == "hold" \notin Acts

Active == {"swapIn", "fiber", "swapOut", "back"}
Handling == Active \cup {"isReady", "isTerm", "setHold"}
Away == {"off", "exit"}

-----------------------------------------------------------------------------
(* A fiber is in one place: in the queue once, in an event context, or     *)
(* with one worker.  While it is with a worker it may be in an event       *)
(* context too, when it has registered and is on its way out.              *)
QueueOnce ==
  \A i, j \in DOMAIN m_fibers : m_fibers[i].fiber = m_fibers[j].fiber => i = j
QueueAlone ==
  \A i \in DOMAIN m_fibers :
    LET f == m_fibers[i].fiber
    IN  /\ f \in spawned /\ f \in saved /\ f \notin waiting
        /\ m_state[f] \in {"INIT", "HOLD", "READY"}
        /\ \A w \in Workers : cur[w] # f
HeldOnce == \A w, v \in Workers : cur[w] = cur[v] /\ cur[w] # None => w = v
Waiting ==
  \A f \in waiting :
    /\ f \in spawned /\ f \in registered
    /\ \/ m_state[f] = "HOLD" /\ f \in saved
       \/ \E w \in Workers : cur[w] = f /\ pc[w] \in {"fiber", "swapOut"}

(* What is known of a fiber by the place its worker is at.                 *)
Held(w) ==
  LET f == cur[w]
  IN  /\ f \in spawned
      /\ pc[w] = "swapIn" => m_state[f] \in {"INIT", "HOLD", "READY"} /\ f \in saved /\ f \notin waiting
      /\ pc[w] = "fiber" =>
           /\ m_state[f] = "EXEC"
           /\ f \in registered => f \in waiting /\ yields[f] < MaxYields
      /\ pc[w] \in {"swapOut", "back", "isReady", "isTerm", "setHold"} =>
           /\ m_state[f] \in {"HOLD", "READY", "TERM", "EXCEPT"}
           /\ f \in waiting <=> m_state[f] = "HOLD"
      /\ pc[w] \in {"back", "isReady", "isTerm", "setHold"} => f \in saved
      /\ pc[w] \in {"isTerm", "setHold"} => m_state[f] # "READY"
      /\ pc[w] = "setHold" => m_state[f] = "HOLD"
AllHeld == \A w \in Workers : pc[w] \in Handling => Held(w)

(* A fiber that was scheduled and has not ended is somewhere.              *)
Queued(f) == \E i \in DOMAIN m_fibers : m_fibers[i].fiber = f
Somewhere ==
  \A f \in Fibers :
    IF f \in spawned THEN Ended(f) \/ Queued(f) \/ f \in waiting \/ \E w \in Workers : cur[w] = f
    ELSE m_state[f] = "INIT" /\ f \in saved

Places == QueueOnce /\ QueueAlone /\ HeldOnce /\ Waiting /\ AllHeld /\ Somewhere

-----------------------------------------------------------------------------
(* What leads to stop() returning.  Nobody leaves before m_stopping is set,*)
(* only the caller's thread may not have started, and who is the last to   *)
(* leave leaves nothing behind.                                            *)
Unpinned == \A i \in DOMAIN m_fibers : m_fibers[i].thread = ANY
Quiet == m_fibers = <<>> /\ waiting = {}
Stopping ==
  /\ (idleTerm # {} \/ \E w \in Workers : pc[w] = "exit") => m_stopping
  /\ m_stopping => stop \notin {"no", "autoStops"}
  /\ \A w \in Workers : pc[w] = "off" => w = Root
  /\ stop = "stopped" => \A w \in Workers : pc[w] \in Away

(* A single worker's view: what it read before it takes the mutex is still *)
(* true, and once its idle fiber has returned there is nothing to do.      *)
Alone ==
  \A w \in Workers :
    /\ pc[w] \in {"run_stopping", "idle_stopping"} => m_pendingEventCount = 0
    /\ pc[w] = "off" => waiting = {}
    /\ w \in idleTerm => Quiet /\ cur[w] = None
Drained ==
  (\A w \in Workers : pc[w] \in Away) /\ (stop \in {"join", "stopped"} \/ \E w \in Workers : pc[w] = "exit")
     => Quiet

NoHoldWaits == NoHold => waiting = {} /\ registered = {}

-----------------------------------------------------------------------------
Busy == {w \in Workers : pc[w] \in Active}
ActiveInv ==
  /\ pc \in [Workers -> PC]
  /\ stop \notin {"join", "stopped"} => \A w \in Workers : w = Root => pc[w] = "off"
  /\ ActiveExact

(* A step of w alone, that keeps m_activeThreadCount's account.            *)
Moves(w) == pc' = [pc EXCEPT ![w] = pc'[w]] /\ pc'[w] \in PC
Counted(w) ==
  /\ Moves(w)
  /\ stop' \in {"join", "stopped"} \/ (UNCHANGED stop /\ pc[w] # "off")
  /\ m_activeThreadCount' =
       m_activeThreadCount + (IF pc'[w] \in Active THEN 1 ELSE 0) - (IF pc[w] \in Active THEN 1 ELSE 0)

(* There are finitely many workers, so finitely many are between taking a  *)
(* task and getting it back.                                               *)
LEMMA BusyFinite ==
  /\ IsFiniteSet(Busy) /\ Cardinality(Busy) \in Nat
  /\ IsFiniteSet(Busy') /\ Cardinality(Busy') \in Nat
  BY Zenon, WorkersAssumption, FS_Subset, FS_CardinalityType DEF Busy

(* A step of one worker adds it to those workers, takes it from them, or   *)
(* leaves the set alone.                                                   *)
LEMMA BusyMoves ==
  ASSUME NEW w \in Workers, pc \in [Workers -> PC], Moves(w)
  PROVE  /\ pc' \in [Workers -> PC]
         /\ (pc[w] \in Active <=> pc'[w] \in Active) => Busy' = Busy
         /\ pc[w] \notin Active /\ pc'[w] \in Active => Cardinality(Busy') = Cardinality(Busy) + 1
         /\ pc[w] \in Active /\ pc'[w] \notin Active => Cardinality(Busy') = Cardinality(Busy) - 1
<1>1. /\ pc' \in [Workers -> PC]
      /\ (pc[w] \in Active <=> pc'[w] \in Active) => Busy' = Busy
  BY Zenon DEF Moves, Busy
<1>2. pc[w] \notin Active /\ pc'[w] \in Active => w \notin Busy /\ Busy' = Busy \cup {w}
  BY Zenon DEF Moves, Busy
<1>3. pc[w] \in Active /\ pc'[w] \notin Active => w \in Busy /\ Busy' = Busy \ {w}
  BY Zenon DEF Moves, Busy
<1> QED
  BY <1>1, <1>2, <1>3, BusyFinite, FS_AddElement, FS_RemoveElement

(* At the start nobody has a task and the caller's thread is not in run(). *)
LEMMA ActiveInit == Init => ActiveInv
<1> SUFFICES ASSUME Init PROVE ActiveInv
  OBVIOUS
<1>1. Busy = {} /\ pc \in [Workers -> PC]
  BY Zenon DEF Init, Busy, Active, PC
<1> QED
  BY Zenon, <1>1, FS_EmptySet DEF ActiveInv, ActiveExact, Busy, Active, Init

(* A worker's step that adjusts m_activeThreadCount when it enters or      *)
(* leaves that part of run() keeps the count exact.                        *)
LEMMA ActiveMoves ==
  ASSUME ActiveInv, NEW w \in Workers, Counted(w)
  PROVE  ActiveInv'
<1>1. pc \in [Workers -> PC] /\ m_activeThreadCount = Cardinality(Busy)
  BY Zenon DEF ActiveInv, ActiveExact, Busy, Active
<1>2. pc' \in [Workers -> PC] /\ m_activeThreadCount' = Cardinality(Busy')
  BY <1>1, BusyMoves, BusyFinite DEF Counted
<1>3. stop' \notin {"join", "stopped"} => \A v \in Workers : v = Root => pc'[v] = "off"
  BY Zenon DEF ActiveInv, Moves, Counted
<1> QED
  BY Zenon, <1>2, <1>3 DEF ActiveInv, ActiveExact, Busy, Active

(* So does a step that touches neither the count nor a worker's place.     *)
LEMMA ActiveStays ==
  ASSUME ActiveInv, UNCHANGED <<pc, m_activeThreadCount>>,
         stop \notin {"join", "stopped"} \/ stop' \in {"join", "stopped"}
  PROVE  ActiveInv'
  BY Zenon DEF ActiveInv, ActiveExact

(* Every step of the scheduler keeps m_activeThreadCount exact.            *)
LEMMA ActiveNext == ActiveInv /\ [Next]_vars => ActiveInv'
<1> SUFFICES ASSUME ActiveInv, [Next]_vars PROVE ActiveInv'
  OBVIOUS
<1> USE DEF queueVars, stopVars, eventVars, fiberVars, workerVars
<1>1. pc \in [Workers -> PC] /\ m_activeThreadCount \in Nat
  BY Zenon, BusyFinite DEF ActiveInv, ActiveExact, Busy, Active
<1>2. ASSUME NEW w \in Workers, RunLoop(w) PROVE ActiveInv'
  <2>1. CASE run(w)
    <3>1. Counted(w)
      BY <1>1, <2>1 DEF run, ReadPending, Counted, Moves, Goto, PC, Active
    <3> QED
      BY Zenon, <3>1, ActiveMoves
  <2>2. CASE run_stopping(w)
    <3>1. Counted(w)
      BY <1>1, <2>2 DEF run_stopping, Counted, Moves, Goto, PC, Active
    <3> QED
      BY Zenon, <3>1, ActiveMoves
  <2>3. CASE scan(w)
    <3>1. Counted(w)
      BY <1>1, <2>3 DEF scan, Counted, Moves, Goto, PC, Active
    <3> QED
      BY Zenon, <3>1, ActiveMoves
  <2>4. CASE swapIn(w)
    <3>1. CASE UNCHANGED <<pc, m_activeThreadCount, stop>>
      BY Zenon, <3>1, ActiveStays
    <3>2. CASE ~UNCHANGED <<pc, m_activeThreadCount, stop>>
      <4>1. Counted(w)
        BY <1>1, <2>4, <3>2 DEF swapIn, Loop, Counted, Moves, Goto, PC, Active
      <4> QED
        BY Zenon, <4>1, ActiveMoves
    <3> QED
      BY Zenon, <3>1, <3>2
  <2>5. CASE swapOut(w)
    <3>1. Counted(w)
      BY <1>1, <2>5 DEF swapOut, Counted, Moves, Goto, PC, Active
    <3> QED
      BY Zenon, <3>1, ActiveMoves
  <2>6. CASE back(w)
    <3>1. Counted(w)
      BY <1>1, <2>6 DEF back, Counted, Moves, Goto, PC, Active
    <3> QED
      BY Zenon, <3>1, ActiveMoves
  <2>7. CASE isReady(w)
    <3>1. Counted(w)
      BY <1>1, <2>7 DEF isReady, Loop, Counted, Moves, Goto, PC, Active
    <3> QED
      BY Zenon, <3>1, ActiveMoves
  <2>8. CASE isTerm(w)
    <3>1. Counted(w)
      BY <1>1, <2>8 DEF isTerm, Loop, Counted, Moves, Goto, PC, Active
    <3> QED
      BY Zenon, <3>1, ActiveMoves
  <2>9. CASE setHold(w)
    <3>1. Counted(w)
      BY <1>1, <2>9 DEF setHold, Loop, Counted, Moves, Goto, PC, Active
    <3> QED
      BY Zenon, <3>1, ActiveMoves
  <2> QED
    BY ZenonT(60), <1>2, <2>1, <2>2, <2>3, <2>4, <2>5, <2>6, <2>7, <2>8, <2>9 DEF RunLoop
<1>3. ASSUME NEW w \in Workers, IdleLoop(w) PROVE ActiveInv'
  <2>1. CASE idle(w)
    <3>1. Counted(w)
      BY SMTT(60), <1>1, <2>1 DEF idle, ReadPending, Counted, Moves, Goto, PC, Active
    <3> QED
      BY Zenon, <3>1, ActiveMoves
  <2>2. CASE idle_stopping(w)
    <3>1. Counted(w)
      BY <1>1, <2>2 DEF idle_stopping, Counted, Moves, Goto, PC, Active
    <3> QED
      BY Zenon, <3>1, ActiveMoves
  <2>3. CASE triggered(w)
    <3>1. Counted(w)
      BY <1>1, <2>3 DEF triggered, Counted, Moves, Goto, PC, Active
    <3> QED
      BY Zenon, <3>1, ActiveMoves
  <2>4. CASE leaveIdle(w)
    <3>1. Counted(w)
      BY SMTT(60), <1>1, <2>4 DEF leaveIdle, Counted, Moves, Goto, PC, Active
    <3> QED
      BY Zenon, <3>1, ActiveMoves
  <2>5. CASE \E f \in Fibers : triggerEvent(w, f)
    <3>1. Counted(w)
      BY <1>1, <2>5 DEF triggerEvent, Counted, Moves, Goto, PC, Active
    <3> QED
      BY Zenon, <3>1, ActiveMoves
  <2> QED
    BY ZenonT(60), <1>3, <2>1, <2>2, <2>3, <2>4, <2>5 DEF IdleLoop
<1>4. ASSUME NEW w \in Workers, FiberStep(w) PROVE ActiveInv'
  <2>1. CASE YieldToHold(w)
    <3>1. Counted(w)
      BY SMTT(60), <1>1, <2>1 DEF YieldToHold, Yield, Counted, Moves, Goto, PC, Active
    <3> QED
      BY Zenon, <3>1, ActiveMoves
  <2>2. CASE YieldToReady(w)
    <3>1. Counted(w)
      BY SMTT(60), <1>1, <2>2 DEF YieldToReady, Yield, Counted, Moves, Goto, PC, Active
    <3> QED
      BY Zenon, <3>1, ActiveMoves
  <2>3. CASE MainFunc(w)
    <3>1. Counted(w)
      BY <1>1, <2>3 DEF MainFunc, Yield, Counted, Moves, Goto, PC, Active
    <3> QED
      BY Zenon, <3>1, ActiveMoves
  <2>4. CASE addEvent(w) \/ \E f \in Fibers, p \in Pins : Schedule(w, f, p)
    BY Zenon, <2>4, ActiveStays DEF addEvent, Schedule
  <2> QED
    BY ZenonT(60), <1>4, <2>1, <2>2, <2>3, <2>4 DEF FiberStep
<1>5. CASE \E f \in Fibers, p \in Pins : Submit(f, p)
  BY Zenon, <1>5, ActiveStays DEF Submit
<1>6. CASE BeginStop \/ SetStopping
  BY Zenon, <1>6, ActiveStays, RootAssumption DEF BeginStop, SetStopping
<1>7. CASE StopReadsPending \/ StopTests \/ Join
  BY Zenon, <1>7, ActiveStays DEF StopReadsPending, StopTests, Join
<1>8. CASE CallRoot
  <2>1. CASE Root \in Workers
    <3>1. Counted(Root)
      BY <1>1, <1>8, <2>1 DEF ActiveInv, CallRoot, Counted, Moves, Goto, PC, Active
    <3> QED
      BY Zenon, <2>1, <3>1, ActiveMoves
  <2>2. CASE Root \notin Workers
    <3>1. UNCHANGED pc
      BY Zenon, <1>1, <1>8, <2>2 DEF CallRoot, Goto
    <3> QED
      BY Zenon, <1>8, <3>1, ActiveStays DEF CallRoot
  <2> QED
    BY Zenon, <2>1, <2>2
<1>9. CASE UNCHANGED vars
  BY Zenon, <1>9, ActiveStays DEF vars
<1> QED
  BY Zenon, <1>2, <1>3, <1>4, <1>5, <1>6, <1>7, <1>8, <1>9 DEF Next, StopStep

(* m_activeThreadCount is the number of workers that have a task, for any  *)
(* number of workers and whatever the fibers do: the increment of run()    *)
(* (scheduler.cc:193) is matched by one decrement on every path            *)
(* (scheduler.cc:207, 228, 241).                                           *)
THEOREM ActiveCount == Spec => []ActiveExact
<1>1. ActiveInv => ActiveExact
  BY Zenon DEF ActiveInv
<1> QED
  BY <1>1, ActiveInit, ActiveNext, PTL DEF Spec

-----------------------------------------------------------------------------
(* The types, with what the counters count left to ActiveExact and         *)
(* PendingCovers, and no assertion has failed.                             *)
Typed ==
  /\ m_fibers \in Seq(Task)
  /\ m_autoStops \in BOOLEAN /\ m_stopping \in BOOLEAN
  /\ m_state \in [Fibers -> State] /\ saved \subseteq Fibers
  /\ waiting \subseteq Fibers /\ registered \subseteq Fibers /\ spawned \subseteq Fibers
  /\ yields \in [Fibers -> 0 .. MaxYields]
  /\ pc \in [Workers -> PC] /\ cur \in [Workers -> Fibers \cup {None}]
  /\ \A w \in Workers : cur[w] = None <=> pc[w] \notin Handling
  /\ idleTerm \subseteq Workers
  /\ stop \in {"no", "autoStops", "pending", "root", "call", "join", "stopped"}
  /\ aborted = None

(* One part of a queue behind another.                                     *)
LEMMA Joined ==
  ASSUME NEW S, NEW a \in Seq(S), NEW b \in Seq(S)
  PROVE  /\ a \o b \in Seq(S) /\ Len(a \o b) = Len(a) + Len(b)
         /\ \A j \in 1 .. (Len(a) + Len(b)) : (a \o b)[j] = IF j <= Len(a) THEN a[j] ELSE b[j - Len(a)]
OBVIOUS

(* What erase does to the queue: every other task stays, in its order.  *)
LEMMA RemoveOne ==
  ASSUME NEW s \in Seq(Task), NEW i \in DOMAIN s
  PROVE  /\ erase(s, i) \in Seq(Task)
         /\ DOMAIN erase(s, i) = 1 .. (Len(s) - 1)
         /\ \A j \in 1 .. (Len(s) - 1) : erase(s, i)[j] = IF j < i THEN s[j] ELSE s[j + 1]
<1> DEFINE a == SubSeq(s, 1, i - 1)
           b == SubSeq(s, i + 1, Len(s))
<1>1. Len(s) \in Nat /\ i \in 1 .. Len(s)
  OBVIOUS
<1>2. /\ a \in Seq(Task) /\ Len(a) = i - 1
      /\ \A j \in 1 .. (i - 1) : a[j] = s[j]
  BY <1>1
<1>3. /\ b \in Seq(Task) /\ Len(b) = Len(s) - i
      /\ \A j \in 1 .. (Len(s) - i) : b[j] = s[i + j]
  BY <1>1
<1>4. erase(s, i) = a \o b
  BY Zenon DEF erase
<1> HIDE DEF a, b
<1>5. /\ a \o b \in Seq(Task) /\ Len(a \o b) = Len(s) - 1
      /\ \A j \in 1 .. (Len(s) - 1) : (a \o b)[j] = IF j < i THEN a[j] ELSE b[j - (i - 1)]
  <2>1. /\ a \o b \in Seq(Task) /\ Len(a \o b) = Len(a) + Len(b)
        /\ \A j \in 1 .. (Len(a) + Len(b)) : (a \o b)[j] = IF j <= Len(a) THEN a[j] ELSE b[j - Len(a)]
    BY Zenon, <1>2, <1>3, Joined
  <2>2. Len(a) + Len(b) = Len(s) - 1
    BY <1>1, <1>2, <1>3
  <2>3. ASSUME NEW j \in 1 .. (Len(s) - 1) PROVE j <= i - 1 <=> j < i
    BY <1>1
  <2> QED
    BY Zenon, <1>2, <2>1, <2>2, <2>3
<1>6. ASSUME NEW j \in 1 .. (Len(s) - 1), ~(j < i)
      PROVE  j - (i - 1) \in 1 .. (Len(s) - i) /\ i + (j - (i - 1)) = j + 1
  BY <1>1, <1>6
<1>7. ASSUME NEW j \in 1 .. (Len(s) - 1)
      PROVE  (a \o b)[j] = IF j < i THEN s[j] ELSE s[j + 1]
  <2>1. CASE j < i
    BY <1>1, <1>2, <1>5, <2>1
  <2>2. CASE ~(j < i)
    BY Zenon, <1>3, <1>5, <1>6, <2>2
  <2> QED
    BY Zenon, <2>1, <2>2
<1> QED
  BY <1>4, <1>5, <1>7

(* What scheduleNoLock does to the queue: one task more, at the end.       *)
LEMMA AppendOne ==
  ASSUME NEW s \in Seq(Task), NEW x \in Task
  PROVE  /\ Append(s, x) \in Seq(Task)
         /\ DOMAIN Append(s, x) = DOMAIN s \cup {Len(s) + 1}
         /\ Len(s) + 1 \notin DOMAIN s
         /\ Append(s, x)[Len(s) + 1] = x
         /\ \A j \in DOMAIN s : Append(s, x)[j] = s[j]
  OBVIOUS

(* std::list is scanned from its head: the first position that qualifies.  *)
LEMMA LeastTakable ==
  ASSUME NEW w \in Workers, Typed, Takable(w) # {}
  PROVE  Min(Takable(w)) \in Takable(w)
<1> DEFINE Smaller == {p \in Nat \X Nat : p[1] < p[2]}
<1>1. Takable(w) \in SUBSET Nat
  BY DEF Takable, Typed
<1>2. IsWellFoundedOn(Smaller, Nat)
  BY Zenon, NatLessThanWellFounded DEF OpToRel
<1>3. ASSUME NEW k \in Nat, NEW n \in Nat, ~(<<k, n>> \in Smaller) PROVE n <= k
  BY <1>3
<1> HIDE DEF Smaller
<1>4. \E n \in Takable(w) : \A k \in Takable(w) : ~(<<k, n>> \in Smaller)
  BY Zenon, <1>1, <1>2, WFMin
<1>5. \E n \in Takable(w) : \A k \in Takable(w) : n <= k
  BY Zenon, <1>1, <1>3, <1>4
<1> QED
  BY Zenon, <1>5 DEF Min

-----------------------------------------------------------------------------
(* A step of worker w that changes no fiber but the one it handles.        *)
Local(w) ==
  /\ Moves(w)
  /\ cur' = [cur EXCEPT ![w] = cur'[w]]
  /\ UNCHANGED <<m_fibers, spawned>>
  /\ \A g \in Fibers : g # cur[w] =>
       /\ m_state'[g] = m_state[g] /\ yields'[g] = yields[g]
       /\ g \in saved' <=> g \in saved
       /\ g \in waiting' <=> g \in waiting
       /\ g \in registered' <=> g \in registered

(* Such a step keeps every fiber in its place when it does so for the one  *)
(* it handles.                                                             *)
LEMMA LocalStep ==
  ASSUME Typed, Typed', Places, NEW w \in Workers, pc[w] \in Handling, Local(w),
         pc'[w] \in Handling => cur'[w] = cur[w] /\ Held(w)',
         pc'[w] \notin Handling => m_state'[cur[w]] \in {"TERM", "EXCEPT"} \/ cur[w] \in waiting',
         cur[w] \in waiting' =>
           /\ cur[w] \in registered'
           /\ \/ m_state'[cur[w]] = "HOLD" /\ cur[w] \in saved'
              \/ pc'[w] \in {"fiber", "swapOut"}
  PROVE  Places'
<1> DEFINE f == cur[w]
<1>1. f \in Fibers /\ f # None /\ f \in spawned
  BY Zenon, RootAssumption DEF Typed, Places, AllHeld, Held
<1>2. cur'[w] = f \/ cur'[w] = None
  BY Zenon DEF Typed
<1>3. \A v \in Workers : v # w => cur'[v] = cur[v] /\ pc'[v] = pc[v] /\ cur[v] # f
  BY ZenonT(60), <1>1 DEF Typed, Places, HeldOnce, Local, Moves
<1>4. \A i \in DOMAIN m_fibers : m_fibers[i].fiber \in Fibers /\ m_fibers[i].fiber # f
  BY Zenon, <1>1 DEF Typed, Places, QueueAlone, Task
<1>5. QueueOnce'
  BY Zenon DEF Places, QueueOnce, Local
<1>6. QueueAlone'
  BY SMTT(60), <1>1, <1>2, <1>3, <1>4, RootAssumption DEF Places, QueueAlone, Local
<1>7. HeldOnce'
  BY ZenonT(60), <1>1, <1>2, <1>3 DEF Places, HeldOnce
<1>8. Waiting'
  <2> SUFFICES ASSUME NEW g \in waiting'
               PROVE  /\ g \in spawned /\ g \in registered'
                      /\ \/ m_state'[g] = "HOLD" /\ g \in saved'
                         \/ \E v \in Workers : cur'[v] = g /\ pc'[v] \in {"fiber", "swapOut"}
    BY Zenon DEF Waiting, Local
  <2>1. CASE g = f
    BY Zenon, <1>1, <2>1 DEF Handling, Active
  <2>2. CASE g # f
    <3>1. g \in Fibers /\ g \in waiting
      BY Zenon, <2>2 DEF Typed, Local
    <3> QED
      BY SMTT(60), <1>3, <2>2, <3>1 DEF Places, Waiting, Local
  <2> QED
    BY Zenon, <2>1, <2>2
<1>9. AllHeld'
  <2> SUFFICES ASSUME NEW v \in Workers, pc'[v] \in Handling PROVE Held(v)'
    BY Zenon DEF AllHeld
  <2>1. CASE v = w
    BY Zenon, <2>1
  <2>2. CASE v # w
    <3>1. pc[v] \in Handling /\ cur[v] \in Fibers /\ cur[v] # f /\ Held(v)
      BY Zenon, <1>3, <2>2 DEF Typed, Places, AllHeld
    <3> QED
      BY ZenonT(60), <1>3, <2>2, <3>1 DEF Held, Local
  <2> QED
    BY Zenon, <2>1, <2>2
<1>10. Somewhere'
  <2> SUFFICES ASSUME NEW g \in Fibers
               PROVE  IF g \in spawned
                        THEN Ended(g)' \/ Queued(g) \/ g \in waiting' \/ \E v \in Workers : cur'[v] = g
                        ELSE m_state'[g] = "INIT" /\ g \in saved'
    BY Zenon DEF Somewhere, Local, Queued
  <2>1. CASE g = f
    BY Zenon, <1>1, <2>1 DEF Ended
  <2>2. CASE g # f
    <3>1. /\ m_state'[g] = m_state[g]
          /\ g \in saved' <=> g \in saved
          /\ g \in waiting' <=> g \in waiting
      BY Zenon, <2>2 DEF Local
    <3>2. \A v \in Workers : cur[v] = g => cur'[v] = g
      BY Zenon, <1>3, <2>2
    <3> QED
      BY Zenon, <3>1, <3>2 DEF Places, Somewhere, Ended
  <2> QED
    BY Zenon, <2>1, <2>2
<1> QED
  BY ZenonT(60), <1>5, <1>6, <1>7, <1>8, <1>9, <1>10 DEF Places

(* A step of a worker that handles no fiber.                               *)
LEMMA FreeStep ==
  ASSUME Typed, Places, NEW w \in Workers, pc[w] \notin Handling, Moves(w), pc'[w] \notin Handling,
         UNCHANGED <<m_fibers, cur, m_state, saved, yields, waiting, registered, spawned>>
  PROVE  Places'
<1>1. \A v \in Workers : v # w => pc'[v] = pc[v]
  BY Zenon DEF Typed, Moves
<1>2. QueueOnce' /\ QueueAlone' /\ HeldOnce' /\ Somewhere'
  BY Zenon DEF Places, QueueOnce, QueueAlone, HeldOnce, Somewhere, Queued, Ended
<1>3. Waiting'
  BY SMTT(60), <1>1 DEF Places, Waiting, Handling, Active
<1>4. AllHeld'
  BY ZenonT(60), <1>1 DEF Places, AllHeld, Held
<1> QED
  BY Zenon, <1>2, <1>3, <1>4 DEF Places

(* A worker takes a task from the queue.                                   *)
LEMMA TakeStep ==
  ASSUME Typed, Typed', Places, NEW w \in Workers, pc[w] = "scan", NEW i \in DOMAIN m_fibers,
         m_fibers' = erase(m_fibers, i),
         cur' = [cur EXCEPT ![w] = m_fibers[i].fiber], Goto(w, "swapIn"),
         UNCHANGED <<m_state, saved, yields, waiting, registered, spawned>>
  PROVE  Places'
<1> DEFINE f == m_fibers[i].fiber
<1>1. /\ f \in Fibers /\ f # None /\ f \in spawned /\ f \in saved /\ f \notin waiting
      /\ m_state[f] \in {"INIT", "HOLD", "READY"}
      /\ \A v \in Workers : cur[v] # f
  BY ZenonT(60), RootAssumption DEF Typed, Places, QueueAlone, Task
<1>2. cur'[w] = f /\ pc'[w] = "swapIn" /\ cur[w] = None
  BY ZenonT(60) DEF Typed, Goto, Handling, Active
<1>3. \A v \in Workers : v # w => cur'[v] = cur[v] /\ pc'[v] = pc[v]
  BY Zenon DEF Typed, Goto
<1>4. /\ DOMAIN m_fibers' = 1 .. (Len(m_fibers) - 1)
      /\ \A j \in DOMAIN m_fibers' : m_fibers'[j] = IF j < i THEN m_fibers[j] ELSE m_fibers[j + 1]
      /\ DOMAIN m_fibers = 1 .. Len(m_fibers) /\ Len(m_fibers) \in Nat
  <2>1. m_fibers \in Seq(Task)
    BY Zenon DEF Typed
  <2>2. /\ DOMAIN m_fibers' = 1 .. (Len(m_fibers) - 1)
        /\ \A j \in 1 .. (Len(m_fibers) - 1) :
             m_fibers'[j] = IF j < i THEN m_fibers[j] ELSE m_fibers[j + 1]
    BY Zenon, <2>1, RemoveOne
  <2> QED
    BY <2>1, <2>2
<1>5. \A j \in DOMAIN m_fibers' : \E k \in DOMAIN m_fibers :
        k # i /\ m_fibers'[j] = m_fibers[k] /\ m_fibers'[j].fiber # f
  BY SMTT(60), <1>4 DEF Places, QueueOnce
<1>6. \A k \in DOMAIN m_fibers : k # i => \E j \in DOMAIN m_fibers' : m_fibers'[j] = m_fibers[k]
  <2> SUFFICES ASSUME NEW k \in DOMAIN m_fibers, k # i
               PROVE  \E j \in DOMAIN m_fibers' : m_fibers'[j] = m_fibers[k]
    OBVIOUS
  <2>1. CASE k < i
    BY SMTT(60), <1>4, <2>1
  <2>2. CASE k > i
    <3>1. k - 1 \in DOMAIN m_fibers' /\ m_fibers'[k - 1] = m_fibers[k]
      BY SMTT(60), <1>4, <2>2
    <3> QED
      BY Zenon, <3>1
  <2> QED
    BY SMTT(60), <1>4, <2>1, <2>2
<1>7. QueueOnce'
  BY SMTT(60), <1>4 DEF Places, QueueOnce
<1>8. QueueAlone'
  BY SMTT(60), <1>2, <1>3, <1>5 DEF Places, QueueAlone
<1>9. HeldOnce'
  BY SMTT(60), <1>1, <1>2, <1>3 DEF Places, HeldOnce
<1>10. Waiting'
  BY SMTT(60), <1>3 DEF Places, Waiting
<1>11. AllHeld'
  <2> SUFFICES ASSUME NEW v \in Workers, pc'[v] \in Handling PROVE Held(v)'
    BY ZenonT(60) DEF AllHeld
  <2>1. CASE v = w
    BY SMTT(60), <1>1, <1>2, <2>1 DEF Held
  <2>2. CASE v # w
    BY SMTT(60), <1>3, <2>2 DEF Held, Places, AllHeld
  <2> QED
    BY Zenon, <2>1, <2>2
<1>12. Somewhere'
  <2> SUFFICES ASSUME NEW g \in Fibers
               PROVE  IF g \in spawned
                        THEN Ended(g) \/ Queued(g)' \/ g \in waiting \/ \E v \in Workers : cur'[v] = g
                        ELSE m_state[g] = "INIT" /\ g \in saved
    BY Zenon DEF Somewhere, Ended
  <2>1. CASE g = f
    BY Zenon, <1>1, <1>2, <2>1
  <2>2. CASE g # f
    <3>1. Queued(g) => Queued(g)'
      BY Zenon, <1>6, <2>2 DEF Queued
    <3>2. \A v \in Workers : cur[v] = g => cur'[v] = g
      BY ZenonT(60), <1>2, <1>3, RootAssumption
    <3> QED
      BY Zenon, <3>1, <3>2 DEF Places, Somewhere
  <2> QED
    BY Zenon, <2>1, <2>2
<1> QED
  BY Zenon, <1>7, <1>8, <1>9, <1>10, <1>11, <1>12 DEF Places

(* scheduleNoLock of a fiber that is nowhere else: an event's, one that    *)
(* yielded to READY, or a new one.                                         *)
LEMMA QueueStep ==
  ASSUME Typed, Typed', Places, NEW f \in Fibers, NEW p \in Workers \cup {ANY}, scheduleNoLock(f, p),
         f \in saved, m_state[f] \in {"INIT", "HOLD", "READY"}, ~Queued(f),
         \A v \in Workers : cur'[v] # f,
         \A v \in Workers : /\ cur'[v] \in {cur[v], None}
                            /\ cur'[v] # cur[v] => cur[v] = f
                            /\ cur'[v] # None => pc'[v] = pc[v],
         spawned' = spawned \cup {f}, waiting' = waiting \ {f},
         UNCHANGED <<m_state, saved, yields, registered>>
  PROVE  Places'
<1> DEFINE n == Len(m_fibers) + 1
<1>1. [fiber |-> f, thread |-> p] \in Task
  BY ZenonT(60) DEF Task
<1>2. /\ DOMAIN m_fibers' = DOMAIN m_fibers \cup {n} /\ n \notin DOMAIN m_fibers
      /\ m_fibers'[n].fiber = f
      /\ \A j \in DOMAIN m_fibers : m_fibers'[j] = m_fibers[j] /\ m_fibers[j].fiber # f
  BY SMTT(60), <1>1, AppendOne DEF Typed, scheduleNoLock, Queued
<1>3. QueueOnce'
  BY ZenonT(60), <1>2 DEF Places, QueueOnce
<1>4. QueueAlone'
  <2> SUFFICES ASSUME NEW i \in DOMAIN m_fibers'
               PROVE  LET g == m_fibers'[i].fiber
                      IN  /\ g \in spawned' /\ g \in saved' /\ g \notin waiting'
                          /\ m_state'[g] \in {"INIT", "HOLD", "READY"}
                          /\ \A w \in Workers : cur'[w] # g
    BY Zenon DEF QueueAlone
  <2>1. CASE i = n
    BY ZenonT(60), <1>2, <2>1
  <2>2. CASE i \in DOMAIN m_fibers
    <3>1. m_fibers[i] \in Task
      BY SMTT(60), <2>2 DEF Typed
    <3>2. m_fibers[i].fiber # None
      BY Zenon, <3>1, RootAssumption DEF Task
    <3> QED
      BY SMTT(60), <1>2, <2>2, <3>2 DEF Places, QueueAlone
  <2> QED
    BY Zenon, <1>2, <2>1, <2>2
<1>5. HeldOnce'
  BY ZenonT(60) DEF Places, HeldOnce
<1>6. Waiting'
  <2> SUFFICES ASSUME NEW g \in waiting, g # f
               PROVE  /\ g \in spawned' /\ g \in registered'
                      /\ \/ m_state'[g] = "HOLD" /\ g \in saved'
                         \/ \E v \in Workers : cur'[v] = g /\ pc'[v] \in {"fiber", "swapOut"}
    BY Zenon DEF Waiting
  <2>1. g # None
    BY SMTT(60), RootAssumption DEF Typed
  <2> QED
    BY SMTT(60), <2>1 DEF Places, Waiting
<1>7. AllHeld'
  <2> SUFFICES ASSUME NEW v \in Workers, pc'[v] \in Handling PROVE Held(v)'
    BY ZenonT(60) DEF AllHeld
  <2>1. cur'[v] # None /\ cur'[v] = cur[v] /\ pc'[v] = pc[v] /\ cur[v] # f
    BY ZenonT(60) DEF Typed
  <2>2. Held(v)
    BY ZenonT(60), <2>1 DEF Places, AllHeld
  <2> QED
    BY ZenonT(60), <2>1, <2>2 DEF Held
<1>8. Somewhere'
  <2> SUFFICES ASSUME NEW g \in Fibers
               PROVE  IF g \in spawned'
                        THEN Ended(g) \/ Queued(g)' \/ g \in waiting' \/ \E v \in Workers : cur'[v] = g
                        ELSE m_state[g] = "INIT" /\ g \in saved
    BY Zenon DEF Somewhere, Ended
  <2>1. Queued(f)' /\ (Queued(g) => Queued(g)')
    BY Zenon, <1>2 DEF Queued
  <2> QED
    BY ZenonT(60), <2>1 DEF Places, Somewhere
<1> QED
  BY ZenonT(60), <1>3, <1>4, <1>5, <1>6, <1>7, <1>8 DEF Places

-----------------------------------------------------------------------------
(* The steps of the scheduler, one kind after the other: what each does to *)
(* the places of the fibers.                                               *)

(* What is known of the fiber that a worker handles.                       *)
LEMMA HeldFiber ==
  ASSUME Typed, Places, NEW w \in Workers, pc[w] \in Handling
  PROVE  cur[w] \in Fibers /\ cur[w] # None /\ Held(w)
  BY Zenon DEF Typed, Places, AllHeld

(* A worker that handles no fiber moves: run(), run_stopping, a scan that  *)
(* finds nothing, and the idle loop but triggerEvent.                      *)
FreeMove(w) ==
  /\ pc[w] \notin Handling /\ pc'[w] \notin Handling /\ Moves(w)
  /\ idleTerm' \subseteq Workers
  /\ UNCHANGED <<m_fibers, stopVars, waiting, registered, fiberVars, cur, aborted>>

(* These moves disturb no fiber.                                           *)
LEMMA FreeMoves ==
  ASSUME Typed, Places, NoHoldWaits, NEW w \in Workers, FreeMove(w)
  PROVE  Typed' /\ Places' /\ NoHoldWaits'
<1> USE DEF stopVars, fiberVars
<1>1. Typed'
  BY Zenon DEF Typed, FreeMove, Moves, State
<1>2. Places'
  BY Zenon, FreeStep DEF FreeMove
<1> QED
  BY Zenon, <1>1, <1>2 DEF FreeMove, NoHoldWaits

(* They are what those actions do.                                         *)
LEMMA FreeActions ==
  ASSUME Typed, NEW w \in Workers,
         \/ run(w) \/ run_stopping(w) \/ (scan(w) /\ Takable(w) = {})
         \/ idle(w) \/ idle_stopping(w) \/ triggered(w) \/ leaveIdle(w)
  PROVE  FreeMove(w)
<1> USE DEF queueVars, stopVars, eventVars, fiberVars, Typed, FreeMove, Moves, Goto, PC, Handling, Active
<1>1. CASE run(w) \/ run_stopping(w)
  BY ZenonT(60), <1>1 DEF run, run_stopping, ReadPending
<1>2. CASE scan(w) /\ Takable(w) = {}
  BY ZenonT(60), <1>2 DEF scan
<1>3. CASE idle(w) \/ idle_stopping(w)
  BY ZenonT(60), <1>3 DEF idle, idle_stopping, ReadPending
<1>4. CASE triggered(w) \/ leaveIdle(w)
  BY ZenonT(60), <1>4 DEF triggered, leaveIdle
<1> QED
  BY Zenon, <1>1, <1>2, <1>3, <1>4

(* scan takes a task.                                                      *)
LEMMA ScanTakes ==
  ASSUME Typed, Places, NoHoldWaits, NEW w \in Workers, scan(w), Takable(w) # {}
  PROVE  Typed' /\ Places' /\ NoHoldWaits'
<1> DEFINE i == Min(Takable(w))
<1>1. i \in DOMAIN m_fibers /\ m_fibers[i] \in Task /\ m_fibers[i].fiber \in Fibers
  <2>1. i \in Takable(w)
    BY Zenon, LeastTakable
  <2> HIDE DEF i
  <2>2. i \in DOMAIN m_fibers /\ m_fibers[i] \in Task
    BY <2>1 DEF Takable, Typed
  <2> QED
    BY Zenon, <2>2 DEF Task
<1>2. /\ m_fibers' = erase(m_fibers, i)
      /\ cur' = [cur EXCEPT ![w] = m_fibers[i].fiber]
      /\ pc[w] = "scan" /\ Goto(w, "swapIn")
      /\ UNCHANGED <<m_autoStops, m_stopping, stop, m_state, saved, yields, waiting, registered, spawned,
                     idleTerm, aborted>>
  BY Zenon DEF scan, stopVars, eventVars, fiberVars
<1> HIDE DEF i
<1>3. m_fibers' \in Seq(Task)
  BY Zenon, <1>1, <1>2, RemoveOne DEF Typed
<1>4. pc' \in [Workers -> PC] /\ cur' \in [Workers -> Fibers \cup {None}]
  BY Zenon, <1>1, <1>2 DEF Typed, Goto, PC
<1>5. \A v \in Workers : cur'[v] = None <=> pc'[v] \notin Handling
  BY Zenon, <1>1, <1>2, RootAssumption DEF Typed, Goto, Handling, Active
<1>6. Typed'
  BY Zenon, <1>2, <1>3, <1>4, <1>5 DEF Typed
<1>7. Places'
  BY Zenon, <1>1, <1>2, <1>6, TakeStep
<1> QED
  BY Zenon, <1>2, <1>6, <1>7 DEF NoHoldWaits

(* A worker's step on the fiber it handles.                                *)
LEMMA SwapIns ==
  ASSUME Typed, Places, NoHoldWaits, NEW w \in Workers, swapIn(w)
  PROVE  Typed' /\ Places' /\ NoHoldWaits'
<1> DEFINE f == cur[w]
<1> USE DEF queueVars, stopVars, eventVars, fiberVars
<1>1. /\ f \in Fibers /\ f # None /\ f \in spawned /\ pc[w] = "swapIn" /\ pc[w] \in Handling
      /\ m_state[f] \in {"INIT", "HOLD", "READY"} /\ f \in saved /\ f \notin waiting
  BY Zenon, HeldFiber DEF swapIn, Held, Handling, Active
<1>2. /\ m_state' = [m_state EXCEPT ![f] = "EXEC"]
      /\ saved' = saved \ {f} /\ registered' = registered \ {f} /\ Goto(w, "fiber")
      /\ UNCHANGED <<m_fibers, cur, aborted, m_autoStops, m_stopping, stop, waiting, yields, spawned, idleTerm>>
  BY Zenon, <1>1 DEF swapIn, Ended
<1>3. pc'[w] = "fiber" /\ m_state'[f] = "EXEC" /\ m_state' \in [Fibers -> State]
  BY Zenon, <1>1, <1>2 DEF Typed, Goto, State
<1>4. pc' \in [Workers -> PC] /\ \A v \in Workers : cur'[v] = None <=> pc'[v] \notin Handling
  BY Zenon, <1>1, <1>2 DEF Typed, Goto, PC, Handling, Active
<1>5. Typed'
  BY Zenon, <1>2, <1>3, <1>4 DEF Typed
<1>6. Local(w)
  BY Zenon, <1>2, <1>3 DEF Local, Moves, Goto, Typed, PC
<1>7. Held(w)'
  BY Zenon, <1>1, <1>2, <1>3 DEF Held
<1>8. Places'
  BY Zenon, <1>1, <1>2, <1>3, <1>5, <1>6, <1>7, LocalStep DEF Handling, Active
<1> QED
  BY Zenon, <1>2, <1>5, <1>8 DEF NoHoldWaits

(* swapcontext has saved the fiber's context.                              *)
LEMMA SwapOuts ==
  ASSUME Typed, Places, NoHoldWaits, NEW w \in Workers, swapOut(w)
  PROVE  Typed' /\ Places' /\ NoHoldWaits'
<1> DEFINE f == cur[w]
<1> USE DEF queueVars, stopVars, eventVars, fiberVars
<1>1. f \in Fibers /\ f # None /\ Held(w) /\ pc[w] = "swapOut" /\ pc[w] \in Handling
  BY Zenon, HeldFiber DEF swapOut, Handling, Active
<1>2. /\ saved' = saved \cup {f} /\ Goto(w, "back")
      /\ UNCHANGED <<m_fibers, m_state, registered, cur, aborted, m_autoStops, m_stopping, stop, waiting,
                     yields, spawned, idleTerm>>
  BY Zenon DEF swapOut
<1>3. pc'[w] = "back" /\ pc' \in [Workers -> PC]
  BY Zenon, <1>2 DEF Typed, Goto, PC
<1>4. \A v \in Workers : cur'[v] = None <=> pc'[v] \notin Handling
  BY Zenon, <1>1, <1>2 DEF Typed, Goto, Handling, Active
<1>5. Typed'
  BY Zenon, <1>1, <1>2, <1>3, <1>4 DEF Typed
<1>6. Local(w)
  BY Zenon, <1>2, <1>3 DEF Local, Moves, Goto, Typed, PC
<1>7. Held(w)' /\ (f \in waiting => m_state[f] = "HOLD" /\ f \in registered)
  BY Zenon, <1>1, <1>2, <1>3 DEF Held, Places, Waiting
<1>8. Places'
  BY ZenonT(60), <1>1, <1>2, <1>3, <1>5, <1>6, <1>7, LocalStep DEF Handling, Active
<1> QED
  BY Zenon, <1>2, <1>5, <1>8 DEF NoHoldWaits

(* The steps of run() after a fiber came back that leave the fibers and    *)
(* the queue alone: the decrement, the two tests and setHold, which finds  *)
(* m_state HOLD already.                                                   *)
LEMMA ComesBack ==
  ASSUME Typed, Places, NoHoldWaits, NEW w \in Workers,
         \/ back(w) \/ (isReady(w) /\ m_state[cur[w]] # "READY")
         \/ isTerm(w) \/ setHold(w)
  PROVE  Typed' /\ Places' /\ NoHoldWaits'
<1> DEFINE f == cur[w]
<1> USE DEF queueVars, stopVars, eventVars, fiberVars
<1>1. pc[w] \in {"back", "isReady", "isTerm", "setHold"} /\ pc[w] \in Handling
  BY Zenon DEF back, isReady, isTerm, setHold, Handling, Active
<1>2. f \in Fibers /\ f # None /\ Held(w)
  BY Zenon, <1>1, HeldFiber
<1>3. /\ f \in saved /\ (f \in waiting <=> m_state[f] = "HOLD") /\ (f \in waiting => f \in registered)
      /\ m_state[f] \in {"HOLD", "READY", "TERM", "EXCEPT"} /\ f \in spawned
      /\ pc[w] \in {"isTerm", "setHold"} => m_state[f] # "READY"
      /\ pc[w] = "setHold" => m_state[f] = "HOLD"
  BY Zenon, <1>1, <1>2 DEF Held, Places, Waiting
<1>4. UNCHANGED <<m_fibers, m_state, saved, registered, aborted, m_autoStops, m_stopping, stop, waiting,
                  yields, spawned, idleTerm>>
  <2>1. CASE setHold(w)
    BY Zenon, <1>3, <2>1 DEF setHold, Typed
  <2>2. CASE ~setHold(w)
    BY Zenon, <2>2 DEF back, isReady, isTerm
  <2> QED
    BY Zenon, <2>1, <2>2
<1>5. \/ /\ cur' = cur
         /\ \/ pc[w] = "back" /\ Goto(w, "isReady")
            \/ pc[w] = "isReady" /\ m_state[f] # "READY" /\ Goto(w, "isTerm")
            \/ pc[w] = "isTerm" /\ m_state[f] \notin {"TERM", "EXCEPT"} /\ Goto(w, "setHold")
      \/ /\ cur' = [cur EXCEPT ![w] = None] /\ Goto(w, "run")
         /\ pc[w] \in {"isTerm", "setHold"}
         /\ m_state[f] \in {"TERM", "EXCEPT"} \/ f \in waiting
  BY Zenon, <1>3 DEF back, isReady, isTerm, setHold, Loop, Ended
<1>6. pc' \in [Workers -> PC] /\ cur' \in [Workers -> Fibers \cup {None}]
  BY Zenon, <1>5 DEF Typed, Goto, PC
<1>7. \A v \in Workers : cur'[v] = None <=> pc'[v] \notin Handling
  BY ZenonT(60), <1>1, <1>2, <1>5 DEF Typed, Goto, Handling, Active
<1>8. Typed'
  BY Zenon, <1>4, <1>6, <1>7 DEF Typed
<1>9. Local(w)
  BY ZenonT(60), <1>4, <1>5 DEF Local, Moves, Goto, Typed, PC
<1>10. /\ pc'[w] \in Handling => cur'[w] = f /\ Held(w)'
       /\ pc'[w] \notin Handling => m_state[f] \in {"TERM", "EXCEPT"} \/ f \in waiting
  <2>1. CASE cur' = cur
    <3>1. /\ cur'[w] = f
          /\ \/ pc[w] = "back" /\ pc'[w] = "isReady"
             \/ pc[w] = "isReady" /\ pc'[w] = "isTerm" /\ m_state[f] # "READY"
             \/ pc[w] = "isTerm" /\ pc'[w] = "setHold" /\ m_state[f] = "HOLD"
      BY Zenon, <1>2, <1>3, <1>5, <2>1 DEF Typed, Goto
    <3> QED
      BY ZenonT(60), <1>3, <1>4, <3>1 DEF Held, Handling, Active
  <2>2. CASE cur' # cur
    BY Zenon, <1>5, <2>2 DEF Typed, Goto, Handling, Active
  <2> QED
    BY Zenon, <2>1, <2>2
<1>11. Places'
  BY ZenonT(60), <1>1, <1>3, <1>4, <1>8, <1>9, <1>10, LocalStep
<1> QED
  BY Zenon, <1>4, <1>8, <1>11 DEF NoHoldWaits

(* A fiber that yielded to READY goes back to the queue.                   *)
LEMMA Requeues ==
  ASSUME Typed, Places, NoHoldWaits, NEW w \in Workers, isReady(w), m_state[cur[w]] = "READY"
  PROVE  Typed' /\ Places' /\ NoHoldWaits'
<1> DEFINE f == cur[w]
<1> USE DEF queueVars, stopVars, eventVars, fiberVars
<1>1. f \in Fibers /\ f # None /\ Held(w) /\ pc[w] = "isReady" /\ pc[w] \in Handling
  BY Zenon, HeldFiber DEF isReady, Handling, Active
<1>2. /\ scheduleNoLock(f, ANY) /\ Goto(w, "run") /\ cur' = [cur EXCEPT ![w] = None]
      /\ UNCHANGED <<m_state, saved, registered, aborted, m_autoStops, m_stopping, stop, waiting, yields,
                     spawned, idleTerm>>
  BY Zenon DEF isReady, Loop
<1>3. f \in saved /\ f \in spawned /\ f \notin waiting /\ ~Queued(f)
  BY Zenon, <1>1 DEF Held, Places, QueueAlone, Queued
<1>4. m_fibers' \in Seq(Task)
  BY SMTT(60), <1>1, <1>2 DEF scheduleNoLock, Typed, Task
<1>5. pc' \in [Workers -> PC] /\ cur' \in [Workers -> Fibers \cup {None}]
  BY Zenon, <1>2 DEF Typed, Goto, PC
<1>6. \A v \in Workers : cur'[v] = None <=> pc'[v] \notin Handling
  BY Zenon, <1>1, <1>2 DEF Typed, Goto, Handling, Active
<1>7. Typed'
  BY Zenon, <1>2, <1>4, <1>5, <1>6 DEF Typed
<1>8. \A v \in Workers : /\ cur'[v] # f /\ cur'[v] \in {cur[v], None}
                         /\ cur'[v] # cur[v] => cur[v] = f
                         /\ cur'[v] # None => pc'[v] = pc[v]
  BY Zenon, <1>1, <1>2 DEF Typed, Places, HeldOnce, Goto
<1>9. spawned' = spawned \cup {f} /\ waiting' = waiting \ {f}
  BY Zenon, <1>2, <1>3
<1>10. Places'
  BY ZenonT(60), <1>1, <1>2, <1>3, <1>7, <1>8, <1>9, QueueStep
<1> QED
  BY Zenon, <1>2, <1>7, <1>10 DEF NoHoldWaits

(* triggerEvent: the fiber is nowhere else, because the only worker is in  *)
(* its idle loop, or because no fiber waits at all.                        *)
LEMMA Triggers ==
  ASSUME OneWorker \/ NoHold, Typed, Places, NoHoldWaits,
         NEW w \in Workers, NEW f \in Fibers, triggerEvent(w, f)
  PROVE  Typed' /\ Places' /\ NoHoldWaits'
<1> USE DEF queueVars, stopVars, eventVars, fiberVars
<1>1. /\ pc[w] = "epoll_wait" /\ f \in waiting /\ waiting' = waiting \ {f}
      /\ scheduleNoLock(f, ANY) /\ Goto(w, "triggered")
      /\ UNCHANGED <<m_state, saved, registered, aborted, m_autoStops, m_stopping, stop, yields, spawned,
                     cur, idleTerm>>
  BY Zenon DEF triggerEvent
<1>2. OneWorker /\ cur[w] = None
  BY Zenon, <1>1 DEF NoHoldWaits, Typed, Handling, Active
<1>3. \A v \in Workers : cur[v] # f
  BY Zenon, <1>2, RootAssumption DEF OneWorker
<1>4. f \in spawned /\ f \in saved /\ m_state[f] = "HOLD" /\ ~Queued(f)
  BY ZenonT(60), <1>1, <1>3 DEF Places, Waiting, QueueAlone, Queued
<1>5. m_fibers' \in Seq(Task)
  BY <1>1 DEF scheduleNoLock, Typed, Task
<1>6. pc' \in [Workers -> PC] /\ \A v \in Workers : cur'[v] = None <=> pc'[v] \notin Handling
  BY Zenon, <1>1, <1>2 DEF Typed, Goto, PC, Handling, Active
<1>7. Typed'
  BY Zenon, <1>1, <1>5, <1>6 DEF Typed
<1>8. \A v \in Workers : cur'[v] # None => pc'[v] = pc[v]
  BY Zenon, <1>1, <1>2 DEF Typed, Goto
<1>9. spawned' = spawned \cup {f}
  BY Zenon, <1>1, <1>4
<1>10. Places'
  BY ZenonT(60), <1>1, <1>3, <1>4, <1>7, <1>8, <1>9, QueueStep
<1> QED
  BY Zenon, <1>1, <1>7, <1>10 DEF NoHoldWaits

(* addEvent, called by the running fiber.                                  *)
LEMMA Registers ==
  ASSUME Typed, Places, NoHoldWaits, NEW w \in Workers, addEvent(w)
  PROVE  Typed' /\ Places' /\ NoHoldWaits'
<1> DEFINE f == cur[w]
<1> USE DEF queueVars, stopVars, eventVars, fiberVars, workerVars
<1>1. f \in Fibers /\ f # None /\ Held(w) /\ pc[w] = "fiber" /\ pc[w] \in Handling
  BY Zenon, HeldFiber DEF addEvent, Handling, Active
<1>2. m_state[f] = "EXEC" /\ f \in spawned
  BY Zenon, <1>1 DEF Held
<1>3. /\ waiting' = waiting \cup {f} /\ registered' = registered \cup {f}
      /\ yields[f] < MaxYields /\ ~NoHold
      /\ UNCHANGED <<m_fibers, m_state, saved, aborted, m_autoStops, m_stopping, stop, yields, spawned, pc,
                     cur, idleTerm>>
  BY Zenon, <1>2 DEF addEvent, NoHold
<1>4. Typed'
  BY Zenon, <1>1, <1>3 DEF Typed
<1>5. Local(w) /\ pc'[w] = "fiber"
  BY Zenon, <1>1, <1>3 DEF Local, Moves, Typed, PC
<1>6. Held(w)'
  BY ZenonT(60), <1>1, <1>2, <1>3, <1>5 DEF Held
<1>7. Places'
  BY ZenonT(60), <1>1, <1>3, <1>4, <1>5, <1>6, LocalStep
<1> QED
  BY Zenon, <1>3, <1>4, <1>7 DEF NoHoldWaits

(* The fiber yields or ends: its m_state tells whether it waits.           *)
LEMMA Yields ==
  ASSUME Typed, Places, NoHoldWaits, NEW w \in Workers,
         YieldToHold(w) \/ YieldToReady(w) \/ MainFunc(w)
  PROVE  Typed' /\ Places' /\ NoHoldWaits'
<1> DEFINE f == cur[w]
<1> USE DEF queueVars, stopVars, eventVars, fiberVars
<1>1. f \in Fibers /\ f # None /\ Held(w) /\ pc[w] = "fiber" /\ pc[w] \in Handling
  BY Zenon, HeldFiber DEF YieldToHold, YieldToReady, MainFunc, Yield, Handling, Active
<1>2. f \in spawned /\ (f \in registered <=> f \in waiting) /\ (f \in registered => yields[f] < MaxYields)
  BY Zenon, <1>1 DEF Held, Places, Waiting
<1>3. PICK to \in {"HOLD", "READY", "TERM", "EXCEPT"} :
        /\ m_state' = [m_state EXCEPT ![f] = to]
        /\ to = "HOLD" <=> f \in registered
        /\ yields' \in {yields, [yields EXCEPT ![f] = @ + 1]}
        /\ yields' # yields => yields[f] < MaxYields
        /\ Goto(w, "swapOut")
        /\ UNCHANGED <<m_fibers, saved, registered, aborted, m_autoStops, m_stopping, stop, waiting, spawned,
                       cur, idleTerm>>
  <2>1. CASE YieldToHold(w)
    BY Zenon, <1>2, <2>1 DEF YieldToHold, Yield
  <2>2. CASE YieldToReady(w)
    BY Zenon, <2>2 DEF YieldToReady, Yield
  <2>3. CASE MainFunc(w)
    BY Zenon, <2>3 DEF MainFunc, Yield
  <2> QED
    BY Zenon, <2>1, <2>2, <2>3
<1>4. /\ m_state' \in [Fibers -> State] /\ m_state'[f] = to
      /\ \A g \in Fibers : g # f => m_state'[g] = m_state[g] /\ yields'[g] = yields[g]
  BY ZenonT(60), <1>1, <1>3 DEF Typed, State
<1>5. yields' \in [Fibers -> 0 .. MaxYields]
  BY SMTT(60), <1>1, <1>3, MaxYieldsAssumption DEF Typed
<1>6. pc' \in [Workers -> PC] /\ pc'[w] = "swapOut"
  BY Zenon, <1>1, <1>3 DEF Typed, Goto, PC
<1>7. \A v \in Workers : cur'[v] = None <=> pc'[v] \notin Handling
  BY Zenon, <1>1, <1>3 DEF Typed, Goto, Handling, Active
<1>8. Typed'
  BY Zenon, <1>3, <1>4, <1>5, <1>6, <1>7 DEF Typed
<1>9. Local(w)
  BY Zenon, <1>3, <1>4, <1>6 DEF Local, Moves, Goto, Typed, PC
<1>10. Held(w)'
  BY ZenonT(60), <1>1, <1>2, <1>3, <1>4, <1>6 DEF Held
<1>11. Places'
  <2>1. pc'[w] \in Handling /\ cur'[w] = f
    BY ZenonT(60), <1>3, <1>6 DEF Handling, Active
  <2>2. f \in waiting' => f \in registered' /\ pc'[w] \in {"fiber", "swapOut"}
    BY Zenon, <1>2, <1>3, <1>6
  <2> QED
    BY ZenonT(60), <1>1, <1>8, <1>9, <1>10, <2>1, <2>2, LocalStep
<1> QED
  BY Zenon, <1>3, <1>8, <1>11 DEF NoHoldWaits

(* A new task, from a fiber or from the owner's thread.                    *)
LEMMA Spawns ==
  ASSUME Typed, Places, NoHoldWaits, NEW f \in Fibers, NEW p \in Pins,
         Submit(f, p) \/ \E w \in Workers : Schedule(w, f, p)
  PROVE  Typed' /\ Places' /\ NoHoldWaits'
<1>1. /\ f \notin spawned /\ spawned' = spawned \cup {f} /\ scheduleNoLock(f, p)
      /\ UNCHANGED <<m_state, saved, registered, aborted, m_autoStops, m_stopping, stop, yields, waiting, pc,
                     cur, idleTerm>>
  BY Zenon DEF Submit, Schedule, stopVars, eventVars, workerVars
<1>2. p \in Workers \cup {ANY}
  BY Zenon, PinsAssumption
<1>3. f \in saved /\ m_state[f] = "INIT" /\ f \notin waiting /\ ~Queued(f)
  BY Zenon, <1>1 DEF Places, Somewhere, Waiting, QueueAlone, Queued
<1>4. \A v \in Workers : cur[v] # f
  BY ZenonT(60), <1>1, RootAssumption DEF Typed, Places, AllHeld, Held
<1>5. m_fibers' \in Seq(Task)
  BY SMTT(60), <1>1, <1>2 DEF scheduleNoLock, Typed, Task
<1>6. Typed'
  BY Zenon, <1>1, <1>5 DEF Typed
<1>7. waiting' = waiting \ {f}
  BY Zenon, <1>1, <1>3
<1>8. Places'
  BY Zenon, <1>1, <1>2, <1>3, <1>4, <1>6, <1>7, QueueStep
<1> QED
  BY Zenon, <1>1, <1>6, <1>8 DEF NoHoldWaits
-----------------------------------------------------------------------------
(* Every step of the scheduler keeps the fibers in their places,            *)
(* m_pendingEventCount counts those that wait, and when Scheduler::stop     *)
(* returns nothing is left to run.                                          *)

(* What holds of the fibers in every state.                                *)
FiberInv == Typed /\ Places /\ NoHoldWaits

(* At the start no fiber has been scheduled.                               *)
LEMMA FiberInit == Init => FiberInv
<1> SUFFICES ASSUME Init PROVE FiberInv
  OBVIOUS
<1>1. Typed
  <2>1. m_fibers \in Seq(Task)
    BY DEF Init
  <2>2. m_state \in [Fibers -> State] /\ yields \in [Fibers -> 0 .. MaxYields]
    BY MaxYieldsAssumption DEF Init, State
  <2>3. pc \in [Workers -> PC] /\ cur \in [Workers -> Fibers \cup {None}]
    BY Zenon DEF Init, PC
  <2>4. \A w \in Workers : cur[w] = None <=> pc[w] \notin Handling
    BY Zenon DEF Init, Handling, Active
  <2> QED
    BY ZenonT(60), <2>1, <2>2, <2>3, <2>4 DEF Init, Typed
<1>2. DOMAIN m_fibers = {} /\ (\A w \in Workers : cur[w] = None /\ pc[w] \notin Handling)
  BY DEF Init, Handling, Active
<1>3. QueueOnce /\ QueueAlone
  BY Zenon, <1>2 DEF QueueOnce, QueueAlone
<1>4. HeldOnce /\ AllHeld
  BY Zenon, <1>2 DEF HeldOnce, AllHeld
<1>5. Waiting /\ Somewhere
  BY Zenon DEF Init, Waiting, Somewhere
<1> QED
  BY Zenon, <1>1, <1>3, <1>4, <1>5 DEF Init, FiberInv, NoHoldWaits, Places

(* Every step keeps the fibers in their places and fails no assertion.     *)
LEMMA FiberNext ==
  ASSUME OneWorker \/ NoHold, ActiveInv, FiberInv, [Next]_vars
  PROVE  FiberInv'
<1> USE DEF FiberInv
<1>1. ASSUME NEW w \in Workers, RunLoop(w) PROVE FiberInv'
  <2>1. CASE run(w) \/ run_stopping(w) \/ (scan(w) /\ Takable(w) = {})
    BY Zenon, <2>1, FreeActions, FreeMoves
  <2>2. CASE scan(w) /\ Takable(w) # {}
    BY Zenon, <2>2, ScanTakes
  <2>3. CASE swapIn(w)
    BY Zenon, <2>3, SwapIns
  <2>4. CASE swapOut(w)
    BY Zenon, <2>4, SwapOuts
  <2>5. CASE back(w) \/ (isReady(w) /\ m_state[cur[w]] # "READY") \/ isTerm(w) \/ setHold(w)
    BY Zenon, <2>5, ComesBack
  <2>6. CASE isReady(w) /\ m_state[cur[w]] = "READY"
    BY Zenon, <2>6, Requeues
  <2> QED
    BY ZenonT(60), <1>1, <2>1, <2>2, <2>3, <2>4, <2>5, <2>6 DEF RunLoop
<1>2. ASSUME NEW w \in Workers, IdleLoop(w) PROVE FiberInv'
  <2>1. CASE idle(w) \/ idle_stopping(w) \/ triggered(w) \/ leaveIdle(w)
    BY Zenon, <2>1, FreeActions, FreeMoves
  <2>2. CASE \E f \in Fibers : triggerEvent(w, f)
    BY Zenon, <2>2, Triggers
  <2> QED
    BY Zenon, <1>2, <2>1, <2>2 DEF IdleLoop
<1>3. ASSUME NEW w \in Workers, FiberStep(w) PROVE FiberInv'
  <2>1. CASE addEvent(w)
    BY Zenon, <2>1, Registers
  <2>2. CASE YieldToHold(w) \/ YieldToReady(w) \/ MainFunc(w)
    BY Zenon, <2>2, Yields
  <2>3. CASE \E f \in Fibers, p \in Pins : Schedule(w, f, p)
    BY Zenon, <2>3, Spawns
  <2> QED
    BY ZenonT(60), <1>3, <2>1, <2>2, <2>3 DEF FiberStep
<1>4. CASE \E f \in Fibers, p \in Pins : Submit(f, p)
  BY Zenon, <1>4, Spawns
<1>5. ASSUME UNCHANGED <<m_fibers, cur, pc, m_state, saved, yields, waiting, registered, spawned, idleTerm,
                         aborted>>,
             stop' \in {"no", "autoStops", "pending", "root", "call", "join", "stopped"},
             m_autoStops' \in BOOLEAN, m_stopping' \in BOOLEAN
      PROVE  FiberInv'
  <2>1. Typed'
    BY ZenonT(60), <1>5 DEF Typed
  <2>2. Places'
    BY SMTT(60), <1>5 DEF Places, QueueOnce, QueueAlone, HeldOnce, Waiting, AllHeld, Held, Somewhere, Queued, Ended
  <2> QED
    BY ZenonT(60), <1>5, <2>1, <2>2 DEF NoHoldWaits
<1>6. CASE BeginStop \/ SetStopping \/ StopReadsPending \/ StopTests \/ Join
  BY ZenonT(60), <1>5, <1>6 DEF BeginStop, SetStopping, StopReadsPending, StopTests, Join, Typed,
     eventVars, fiberVars, workerVars, queueVars
<1>7. CASE CallRoot
  <2>1. /\ Goto(Root, "run") /\ stop' = "join"
        /\ UNCHANGED <<m_fibers, cur, m_state, saved, yields, waiting, registered, spawned, idleTerm, aborted,
                       m_autoStops, m_stopping>>
    BY Zenon, <1>7 DEF CallRoot, eventVars, fiberVars, queueVars
  <2>2. CASE Root \in Workers
    <3>1. pc[Root] = "off" /\ Moves(Root) /\ pc'[Root] = "run"
      BY ZenonT(60), <1>7, <2>1, <2>2 DEF ActiveInv, CallRoot, Moves, Goto, Typed, PC
    <3>2. pc' \in [Workers -> PC] /\ \A v \in Workers : cur'[v] = None <=> pc'[v] \notin Handling
      BY ZenonT(60), <2>1, <2>2, <3>1 DEF Typed, Moves, PC, Handling, Active
    <3>3. Typed'
      BY Zenon, <2>1, <3>2 DEF Typed
    <3>4. Places'
      BY Zenon, <2>1, <2>2, <3>1, FreeStep DEF Handling, Active
    <3> QED
      BY ZenonT(60), <2>1, <3>3, <3>4 DEF NoHoldWaits
  <2>3. CASE Root \notin Workers
    <3>1. UNCHANGED pc
      BY ZenonT(60), <2>1, <2>3 DEF Typed, Goto
    <3> QED
      BY Zenon, <1>5, <2>1, <3>1 DEF Typed
  <2> QED
    BY Zenon, <2>2, <2>3
<1>8. CASE UNCHANGED vars
  BY Zenon, <1>5, <1>8 DEF vars, Typed, eventVars, fiberVars, workerVars, queueVars, stopVars
<1> QED
  BY ZenonT(60), <1>1, <1>2, <1>3, <1>4, <1>6, <1>7, <1>8 DEF Next, StopStep

-----------------------------------------------------------------------------
(* m_pendingEventCount                                                     *)
Triggering == {w \in Workers : pc[w] = "triggered"}
PendingInv == IsFiniteSet(waiting) /\ PendingCovers

(* Finitely many workers are between triggerEvent and the decrement.       *)
LEMMA TriggeringFinite ==
  /\ IsFiniteSet(Triggering) /\ Cardinality(Triggering) \in Nat
  /\ IsFiniteSet(Triggering') /\ Cardinality(Triggering') \in Nat
  BY Zenon, WorkersAssumption, FS_Subset, FS_CardinalityType DEF Triggering

(* A step that neither enters nor leaves "triggered" and leaves the event  *)
(* contexts and their count alone.                                         *)
LEMMA PendingStays ==
  ASSUME PendingInv, UNCHANGED <<waiting, m_pendingEventCount>>,
         \A w \in Workers : pc[w] = "triggered" <=> pc'[w] = "triggered"
  PROVE  PendingInv'
<1>1. Triggering' = Triggering
  BY Zenon DEF Triggering
<1> QED
  BY Zenon, <1>1 DEF PendingInv, PendingCovers, Triggering

(* Every step keeps m_pendingEventCount exact: addEvent, triggerEvent and  *)
(* the decrement that follows it are the ones that matter.                 *)
LEMMA PendingNext ==
  ASSUME FiberInv, ActiveInv, PendingInv, [Next]_vars
  PROVE  PendingInv'
<1> USE DEF queueVars, stopVars, eventVars, fiberVars, workerVars
<1>1. /\ pc \in [Workers -> PC] /\ m_pendingEventCount = Cardinality(waiting) + Cardinality(Triggering)
      /\ IsFiniteSet(waiting) /\ Cardinality(waiting) \in Nat
  BY Zenon, FS_CardinalityType DEF FiberInv, Typed, PendingInv, PendingCovers, Triggering
<1>2. ASSUME NEW w \in Workers, RunLoop(w) PROVE PendingInv'
  <2>1. UNCHANGED <<waiting, m_pendingEventCount>>
    BY ZenonT(60), <1>2 DEF RunLoop, run, ReadPending, run_stopping, scan, swapIn, swapOut, back, isReady,
       isTerm, setHold
  <2>2. \A v \in Workers : pc[v] = "triggered" <=> pc'[v] = "triggered"
    <3>1. CASE run(w) \/ run_stopping(w) \/ scan(w)
      BY Zenon, <1>1, <3>1 DEF run, ReadPending, run_stopping, scan, Goto
    <3>2. CASE swapIn(w)
      BY ZenonT(60), <1>1, <3>2 DEF swapIn, Loop, Goto
    <3>3. CASE swapOut(w) \/ back(w) \/ isReady(w)
      BY Zenon, <1>1, <3>3 DEF swapOut, back, isReady, Loop, Goto
    <3>4. CASE isTerm(w) \/ setHold(w)
      BY Zenon, <1>1, <3>4 DEF isTerm, setHold, Loop, Goto
    <3> QED
      BY ZenonT(60), <1>2, <3>1, <3>2, <3>3, <3>4 DEF RunLoop
  <2> QED
    BY Zenon, <2>1, <2>2, PendingStays
<1>3. ASSUME NEW w \in Workers, IdleLoop(w) PROVE PendingInv'
  <2>1. CASE idle(w) \/ idle_stopping(w) \/ leaveIdle(w)
    <3>1. UNCHANGED <<waiting, m_pendingEventCount>>
      BY Zenon, <2>1 DEF idle, idle_stopping, leaveIdle, ReadPending
    <3>2. \A v \in Workers : pc[v] = "triggered" <=> pc'[v] = "triggered"
      BY Zenon, <1>1, <2>1 DEF idle, idle_stopping, leaveIdle, ReadPending, Goto
    <3> QED
      BY Zenon, <3>1, <3>2, PendingStays
  <2>2. CASE triggered(w)
    <3>1. w \in Triggering /\ Triggering' = Triggering \ {w} /\ waiting' = waiting
      BY Zenon, <1>1, <2>2 DEF triggered, Triggering, Goto
    <3>2. m_pendingEventCount' = m_pendingEventCount - 1
      BY Zenon, <2>2 DEF triggered
    <3>3. Cardinality(Triggering') = Cardinality(Triggering) - 1
      BY ZenonT(60), <3>1, TriggeringFinite, FS_RemoveElement
    <3>4. m_pendingEventCount' = Cardinality(waiting') + Cardinality(Triggering')
      BY SMTT(60), <1>1, <3>1, <3>2, <3>3, TriggeringFinite
    <3> QED
      BY Zenon, <1>1, <3>1, <3>4 DEF PendingInv, PendingCovers, Triggering
  <2>3. ASSUME NEW f \in Fibers, triggerEvent(w, f) PROVE PendingInv'
    <3>1. w \notin Triggering /\ Triggering' = Triggering \cup {w}
      BY Zenon, <1>1, <2>3 DEF triggerEvent, Triggering, Goto
    <3>2. m_pendingEventCount' = m_pendingEventCount /\ f \in waiting /\ waiting' = waiting \ {f}
      BY Zenon, <2>3 DEF triggerEvent
    <3>3. Cardinality(Triggering') = Cardinality(Triggering) + 1
      BY ZenonT(60), <3>1, TriggeringFinite, FS_AddElement
    <3>4. IsFiniteSet(waiting') /\ Cardinality(waiting') = Cardinality(waiting) - 1
      BY ZenonT(60), <1>1, <3>2, FS_RemoveElement
    <3>5. m_pendingEventCount' = Cardinality(waiting') + Cardinality(Triggering')
      BY SMTT(60), <1>1, <3>2, <3>3, <3>4, TriggeringFinite
    <3> QED
      BY Zenon, <3>4, <3>5 DEF PendingInv, PendingCovers, Triggering
  <2> QED
    BY ZenonT(60), <1>3, <2>1, <2>2, <2>3 DEF IdleLoop
<1>4. ASSUME NEW w \in Workers, FiberStep(w) PROVE PendingInv'
  <2>1. CASE addEvent(w)
    <3>1. cur[w] \notin registered /\ m_state[cur[w]] = "EXEC" /\ Triggering' = Triggering
      BY Zenon, <2>1, HeldFiber DEF addEvent, FiberInv, Held, Handling, Active, Triggering
    <3>2. /\ waiting' = waiting \cup {cur[w]} /\ cur[w] \notin waiting
          /\ m_pendingEventCount' = m_pendingEventCount + 1
      BY Zenon, <2>1, <3>1 DEF addEvent, FiberInv, Places, Waiting
    <3>3. IsFiniteSet(waiting') /\ Cardinality(waiting') = Cardinality(waiting) + 1
      BY ZenonT(60), <1>1, <3>2, FS_AddElement
    <3>4. m_pendingEventCount' = Cardinality(waiting') + Cardinality(Triggering')
      BY SMTT(60), <1>1, <3>1, <3>2, <3>3, TriggeringFinite
    <3> QED
      BY Zenon, <3>3, <3>4 DEF PendingInv, PendingCovers, Triggering
  <2>2. CASE YieldToHold(w) \/ YieldToReady(w) \/ MainFunc(w)
    <3>1. UNCHANGED <<waiting, m_pendingEventCount>>
      BY Zenon, <2>2 DEF YieldToHold, YieldToReady, MainFunc, Yield
    <3>2. \A v \in Workers : pc[v] = "triggered" <=> pc'[v] = "triggered"
      BY ZenonT(60), <1>1, <2>2 DEF YieldToHold, YieldToReady, MainFunc, Yield, Goto
    <3> QED
      BY Zenon, <3>1, <3>2, PendingStays
  <2>3. CASE \E f \in Fibers, p \in Pins : Schedule(w, f, p)
    BY Zenon, <2>3, PendingStays DEF Schedule
  <2> QED
    BY ZenonT(60), <1>4, <2>1, <2>2, <2>3 DEF FiberStep
<1>5. CASE \E f \in Fibers, p \in Pins : Submit(f, p)
  BY Zenon, <1>5, PendingStays DEF Submit
<1>6. CASE BeginStop \/ SetStopping \/ StopReadsPending \/ StopTests \/ Join
  BY Zenon, <1>6, PendingStays DEF BeginStop, SetStopping, StopReadsPending, StopTests, Join
<1>7. CASE CallRoot
  <2>1. UNCHANGED <<waiting, m_pendingEventCount>>
    BY Zenon, <1>7 DEF CallRoot
  <2>2. \A v \in Workers : pc[v] = "triggered" <=> pc'[v] = "triggered"
    BY ZenonT(60), <1>1, <1>7 DEF CallRoot, Goto, ActiveInv
  <2> QED
    BY Zenon, <2>1, <2>2, PendingStays
<1>8. CASE UNCHANGED vars
  BY Zenon, <1>8, PendingStays DEF vars
<1> QED
  BY ZenonT(60), <1>2, <1>3, <1>4, <1>5, <1>6, <1>7, <1>8 DEF Next, StopStep

-----------------------------------------------------------------------------
(* Fibers are sound and m_pendingEventCount is exact whatever the number   *)
(* of workers when no fiber waits for an event, and with one worker        *)
(* whatever the fibers do.                                                 *)
LEMMA FiberInvariant ==
  ASSUME OneWorker \/ NoHold
  PROVE  Spec => [](ActiveInv /\ FiberInv /\ PendingInv)
<1>1. Init => ActiveInv /\ FiberInv /\ PendingInv
  <2> SUFFICES ASSUME Init PROVE PendingInv
    BY Zenon, ActiveInit, FiberInit
  <2>1. waiting = {} /\ {w \in Workers : pc[w] = "triggered"} = {} /\ m_pendingEventCount = 0
    BY Zenon DEF Init
  <2> QED
    BY <2>1, FS_EmptySet DEF PendingInv, PendingCovers
<1>2. (ActiveInv /\ FiberInv /\ PendingInv) /\ [Next]_vars => (ActiveInv /\ FiberInv /\ PendingInv)'
  BY Zenon, ActiveNext, FiberNext, PendingNext
<1> QED
  BY <1>1, <1>2, PTL DEF Spec

(* What the invariant says is what FibersSound asks for.                   *)
LEMMA FiberInvSound == ActiveInv /\ FiberInv /\ PendingInv => FibersSound
<1> SUFFICES ASSUME ActiveInv, FiberInv, PendingInv PROVE FibersSound
  OBVIOUS
<1>1. m_activeThreadCount \in 0 .. Cardinality(Workers)
  <2>1. Busy \subseteq Workers /\ Cardinality(Busy) <= Cardinality(Workers)
    BY Zenon, WorkersAssumption, FS_Subset DEF Busy
  <2> QED
    BY SMTT(60), <2>1, BusyFinite, WorkersAssumption, FS_CardinalityType DEF ActiveInv, ActiveExact, Busy, Active
<1>2. m_pendingEventCount \in Nat
  <2>1. Cardinality(waiting) \in Nat /\ m_pendingEventCount = Cardinality(waiting) + Cardinality(Triggering)
    BY Zenon, FS_CardinalityType DEF PendingInv, PendingCovers, Triggering
  <2> QED
    BY SMTT(60), <2>1, TriggeringFinite
<1>3. TypeOK
  <2>1. \A w \in Workers : cur[w] = None <=>
          pc[w] \in {"off", "run", "run_stopping", "scan", "idle", "idle_stopping", "epoll_wait", "triggered",
                     "exit"}
    BY Zenon DEF FiberInv, Typed, PC, Handling, Active
  <2> QED
    BY Zenon, <1>1, <1>2, <2>1 DEF TypeOK, FiberInv, Typed
<1>4. OneRunner
  BY Zenon DEF OneRunner, FiberInv, Typed, Places, HeldOnce, Handling, Active
<1>5. NoFiberLost
  BY Zenon DEF NoFiberLost, FiberInv, Places, Somewhere, Queued, Ended
<1> QED
  BY Zenon, <1>3, <1>4, <1>5 DEF FibersSound, AssertionsHold, FiberInv, Typed

(* No fiber runs on two threads, is resumed before swapcontext saved it,   *)
(* or is lost, and the assertions of swapIn and addEvent hold              *)
(* (scheduler.cc:171-249, fiber.cc:115-131): for any number of fibers,     *)
(* with any number of workers if no fiber waits for an event, and whatever *)
(* the fibers do with one worker. With both, a fiber can be woken before   *)
(* it has swapped out.                                                     *)
THEOREM FibersAreSound == OneWorker \/ NoHold => (Spec => []FibersSound)
<1> SUFFICES ASSUME OneWorker \/ NoHold PROVE Spec => []FibersSound
  OBVIOUS
<1> QED
  BY FiberInvariant, FiberInvSound, PTL

(* m_pendingEventCount is the number of fibers in event contexts, plus the *)
(* workers that have not decremented it yet (iomanager.cc:131, 357, 361),  *)
(* under the same condition.                                               *)
THEOREM PendingIsCounted == OneWorker \/ NoHold => (Spec => []PendingCovers)
<1> SUFFICES ASSUME OneWorker \/ NoHold PROVE Spec => []PendingCovers
  OBVIOUS
<1>1. PendingInv => PendingCovers
  BY Zenon DEF PendingInv
<1> QED
  BY <1>1, FiberInvariant, PTL

-----------------------------------------------------------------------------
(* stop()                                                                  *)
StopInv ==
  /\ Stopping /\ Drained
  /\ Pins \subseteq {ANY} => Unpinned
  /\ OneWorker => Alone

(* What a worker's step does to what stop() depends on.                    *)
WorkerStep(w) == RunLoop(w) \/ IdleLoop(w) \/ FiberStep(w)
Leaves(w) ==
  \/ run_stopping(w) /\ Scheduler_stopping
  \/ scan(w) /\ Takable(w) = {} /\ w \in idleTerm
StopFacts(w) ==
  /\ UNCHANGED stopVars
  /\ pc[w] \notin Away /\ pc'[w] # "off"
  /\ \A v \in Workers : v # w => pc'[v] = pc[v] /\ cur'[v] = cur[v]
  /\ pc'[w] = "exit" => Leaves(w) /\ UNCHANGED <<m_fibers, waiting>>
  /\ \/ UNCHANGED idleTerm
     \/ /\ idle_stopping(w) /\ Scheduler_stopping /\ idleTerm' = idleTerm \cup {w}
        /\ UNCHANGED <<m_fibers, waiting, cur>>
  /\ pc'[w] \in {"run_stopping", "idle_stopping"} => m_pendingEventCount = 0 /\ UNCHANGED m_pendingEventCount
  /\ cur[w] = None /\ Quiet => UNCHANGED <<m_fibers, waiting, cur>>

(* Every step of a worker is such a step.                                  *)
LEMMA WorkerStopFacts ==
  ASSUME Typed, NEW w \in Workers, WorkerStep(w)
  PROVE  StopFacts(w)
<1> USE DEF queueVars, stopVars, eventVars, fiberVars, workerVars, StopFacts, Leaves, Away, Goto
<1>1. /\ pc \in [Workers -> PC] /\ cur \in [Workers -> Fibers \cup {None}]
      /\ cur[w] = None => pc[w] \notin {"swapIn", "fiber", "swapOut", "back", "isReady", "isTerm", "setHold"}
  BY Zenon DEF Typed, Handling, Active
<1>2. CASE run(w)
  BY Zenon, <1>1, <1>2 DEF run, ReadPending
<1>3. CASE run_stopping(w)
  BY Zenon, <1>1, <1>3 DEF run_stopping
<1>4. CASE scan(w)
  <2>1. Quiet => Takable(w) = {}
    BY DEF Quiet, Takable
  <2>2. CASE Takable(w) = {}
    BY ZenonT(60), <1>1, <1>4, <2>2 DEF scan
  <2>3. CASE Takable(w) # {}
    BY ZenonT(60), <1>1, <1>4, <2>1, <2>3 DEF scan
  <2> QED
    BY Zenon, <2>2, <2>3
<1>5. CASE swapIn(w)
  BY Zenon, <1>1, <1>5 DEF swapIn, Loop
<1>6. CASE swapOut(w) \/ back(w)
  BY Zenon, <1>1, <1>6 DEF swapOut, back
<1>7. CASE isReady(w)
  BY Zenon, <1>1, <1>7 DEF isReady, Loop
<1>8. CASE isTerm(w) \/ setHold(w)
  BY Zenon, <1>1, <1>8 DEF isTerm, setHold, Loop
<1>9. CASE idle(w)
  BY Zenon, <1>1, <1>9 DEF idle, ReadPending
<1>10. CASE idle_stopping(w)
  BY Zenon, <1>1, <1>10 DEF idle_stopping
<1>11. CASE triggered(w) \/ leaveIdle(w)
  BY Zenon, <1>1, <1>11 DEF triggered, leaveIdle
<1>12. CASE \E f \in Fibers : triggerEvent(w, f)
  BY Zenon, <1>1, <1>12 DEF triggerEvent, Quiet
<1>13. CASE addEvent(w)
  BY Zenon, <1>1, <1>13 DEF addEvent
<1>14. CASE YieldToHold(w) \/ YieldToReady(w) \/ MainFunc(w)
  BY Zenon, <1>1, <1>14 DEF YieldToHold, YieldToReady, MainFunc, Yield
<1>15. CASE \E f \in Fibers, p \in Pins : Schedule(w, f, p)
  BY Zenon, <1>1, <1>15 DEF Schedule
<1> HIDE DEF StopFacts
<1> QED
  BY ZenonT(60), <1>2, <1>3, <1>4, <1>5, <1>6, <1>7, <1>8, <1>9, <1>10, <1>11, <1>12, <1>13, <1>14, <1>15
  DEF WorkerStep, RunLoop, IdleLoop, FiberStep

(* Who is about to leave sees nothing left to do.                          *)
LEMMA LeavesQuiet ==
  ASSUME OneWorker \/ (NoHold /\ Pins \subseteq {ANY}), FiberInv, PendingInv, StopInv,
         NEW w \in Workers, Leaves(w)
  PROVE  Quiet
<1>1. CASE run_stopping(w) /\ Scheduler_stopping
  <2>1. m_fibers = <<>> /\ pc[w] = "run_stopping"
    BY Zenon, <1>1 DEF run_stopping, Scheduler_stopping
  <2>2. CASE NoHold
    BY Zenon, <2>1, <2>2 DEF FiberInv, NoHoldWaits, Quiet
  <2>3. CASE OneWorker
    <3>1. m_pendingEventCount = 0
      BY Zenon, <2>1, <2>3 DEF StopInv, Alone
    <3>2. IsFiniteSet(waiting) /\ Cardinality(waiting) \in Nat
          /\ m_pendingEventCount = Cardinality(waiting) + Cardinality(Triggering)
      BY Zenon, FS_CardinalityType DEF PendingInv, PendingCovers, Triggering
    <3>3. Cardinality(waiting) = 0
      BY SMTT(60), <3>1, <3>2, TriggeringFinite
    <3> QED
      BY ZenonT(60), <2>1, <3>2, <3>3, FS_EmptySet DEF Quiet
  <2> QED
    BY Zenon, <2>2, <2>3
<1>2. CASE scan(w) /\ Takable(w) = {} /\ w \in idleTerm
  <2>1. CASE OneWorker
    BY Zenon, <1>2, <2>1 DEF StopInv, Alone
  <2>2. CASE NoHold /\ Pins \subseteq {ANY}
    <3>1. \A i \in DOMAIN m_fibers : i \in Takable(w)
      BY Zenon, <2>2 DEF Takable, StopInv, Unpinned, FiberInv, Places, QueueAlone
    <3>2. DOMAIN m_fibers = {} /\ m_fibers \in Seq(Task)
      BY Zenon, <1>2, <3>1 DEF FiberInv, Typed
    <3>3. m_fibers = <<>>
      BY <3>2
    <3> QED
      BY Zenon, <2>2, <3>3 DEF FiberInv, NoHoldWaits, Quiet
  <2> QED
    BY Zenon, <2>1, <2>2
<1> QED
  BY Zenon, <1>1, <1>2 DEF Leaves

(* If the program pins no task, no task in the queue is pinned.            *)
LEMMA UnpinnedNext ==
  ASSUME Pins \subseteq {ANY}, Typed, Typed', Unpinned, [Next]_vars
  PROVE  Unpinned'
<1> USE DEF queueVars, stopVars, eventVars, fiberVars, workerVars
<1>1. ASSUME NEW f \in Fibers, scheduleNoLock(f, ANY) PROVE Unpinned'
  <2>1. [fiber |-> f, thread |-> ANY] \in Task
    BY Zenon DEF Task
  <2> QED
    BY SMTT(60), <1>1, <2>1, AppendOne DEF Unpinned, Typed, scheduleNoLock
<1>2. ASSUME UNCHANGED m_fibers PROVE Unpinned'
  BY Zenon, <1>2 DEF Unpinned
<1>3. ASSUME NEW w \in Workers, scan(w) PROVE Unpinned'
  <2>1. CASE Takable(w) = {}
    BY ZenonT(60), <1>2, <1>3, <2>1 DEF scan
  <2>2. CASE Takable(w) # {}
    <3> DEFINE i == Min(Takable(w))
    <3>1. i \in Takable(w) /\ m_fibers' = erase(m_fibers, i)
      BY ZenonT(60), <1>3, <2>2, LeastTakable DEF scan
    <3> HIDE DEF i
    <3>2. i \in DOMAIN m_fibers /\ m_fibers \in Seq(Task) /\ Len(m_fibers) \in Nat
          /\ DOMAIN m_fibers = 1 .. Len(m_fibers)
      BY <3>1 DEF Takable, Typed
    <3>3. /\ DOMAIN m_fibers' = 1 .. (Len(m_fibers) - 1)
          /\ \A j \in 1 .. (Len(m_fibers) - 1) :
               m_fibers'[j] = IF j < i THEN m_fibers[j] ELSE m_fibers[j + 1]
      BY ZenonT(60), <3>1, <3>2, RemoveOne
    <3> QED
      BY <3>2, <3>3 DEF Unpinned
  <2> QED
    BY Zenon, <2>1, <2>2
<1>4. ASSUME NEW w \in Workers, isReady(w) PROVE Unpinned'
  <2>1. cur[w] \in Fibers
    BY Zenon, <1>4 DEF isReady, Typed, Handling, Active
  <2> QED
    BY ZenonT(60), <1>1, <1>2, <1>4, <2>1 DEF isReady
<1>5. ASSUME NEW w \in Workers, NEW f \in Fibers, triggerEvent(w, f) PROVE Unpinned'
  BY Zenon, <1>1, <1>5 DEF triggerEvent
<1>6. ASSUME NEW f \in Fibers, NEW p \in Pins, Submit(f, p) \/ \E w \in Workers : Schedule(w, f, p)
      PROVE  Unpinned'
  BY Zenon, <1>1, <1>6 DEF Submit, Schedule
<1>7. ASSUME NEW w \in Workers,
             \/ run(w) \/ run_stopping(w) \/ swapIn(w) \/ swapOut(w) \/ back(w) \/ isTerm(w) \/ setHold(w)
             \/ idle(w) \/ idle_stopping(w) \/ triggered(w) \/ leaveIdle(w)
             \/ addEvent(w) \/ YieldToHold(w) \/ YieldToReady(w) \/ MainFunc(w)
      PROVE  Unpinned'
  <2>1. UNCHANGED m_fibers
    BY ZenonT(60), <1>7 DEF run, run_stopping, swapIn, swapOut, back, isTerm, setHold, idle, idle_stopping, triggered,
       leaveIdle, addEvent, YieldToHold, YieldToReady, MainFunc, ReadPending, Yield
  <2> QED
    BY ZenonT(60), <1>2, <2>1
<1>8. CASE BeginStop \/ SetStopping \/ StopReadsPending \/ StopTests \/ CallRoot \/ Join
  BY Zenon, <1>2, <1>8 DEF BeginStop, SetStopping, StopReadsPending, StopTests, CallRoot, Join
<1>9. CASE UNCHANGED vars
  BY Zenon, <1>2, <1>9 DEF vars
<1> QED
  BY ZenonT(60), <1>3, <1>4, <1>5, <1>6, <1>7, <1>8, <1>9 DEF Next, RunLoop, IdleLoop, FiberStep, StopStep

(* A step of stop() itself: a worker starts at most, and stop() gets to    *)
(* join when there is a worker to wait for or there was nothing to do.     *)
Calm ==
  /\ UNCHANGED <<m_fibers, m_pendingEventCount, waiting, cur, idleTerm>>
  /\ \A w \in Workers : pc'[w] = pc[w] \/ (pc[w] = "off" /\ pc'[w] = "run")
  /\ stop = "stopped" => UNCHANGED pc
  /\ m_stopping => m_stopping'
  /\ m_stopping' => stop' \notin {"no", "autoStops"}
  /\ stop' = "stopped" => \A w \in Workers : pc'[w] \in Away
  /\ stop' \in {"join", "stopped"} =>
       \/ stop \in {"join", "stopped"}
       \/ \E w \in Workers : pc'[w] \notin Away
       \/ (\A w \in Workers : pc[w] = "off") /\ m_fibers = <<>>
       \/ \E w \in Workers : pc[w] = "exit"

(* Every step keeps what leads to stop() returning.                        *)
LEMMA StopNext ==
  ASSUME OneWorker \/ (NoHold /\ Pins \subseteq {ANY}), ActiveInv, FiberInv, FiberInv', PendingInv, StopInv,
         [Next]_vars
  PROVE  StopInv'
<1> USE DEF stopVars
<1>1. Pins \subseteq {ANY} => Unpinned'
  BY Zenon, UnpinnedNext DEF StopInv, FiberInv
<1>2. ASSUME NEW w \in Workers, WorkerStep(w) PROVE StopInv'
  <2>1. StopFacts(w)
    BY Zenon, <1>2, WorkerStopFacts DEF FiberInv
  <2>2. pc'[w] = "exit" => m_stopping /\ Quiet'
    BY Zenon, <2>1, LeavesQuiet DEF StopFacts, Leaves, Scheduler_stopping, StopInv, Stopping, Quiet
  <2>3. Stopping'
    <3>1. (idleTerm' # {} \/ \E v \in Workers : pc'[v] = "exit") => m_stopping'
      BY Zenon, <2>1, <2>2 DEF StopFacts, StopInv, Stopping, Scheduler_stopping
    <3>2. m_stopping' => stop' \notin {"no", "autoStops"}
      BY Zenon, <2>1 DEF StopFacts, StopInv, Stopping
    <3>3. \A v \in Workers : pc'[v] = "off" => v = Root
      BY Zenon, <2>1 DEF StopFacts, StopInv, Stopping
    <3>4. stop' # "stopped"
      BY Zenon, <2>1 DEF StopFacts, StopInv, Stopping
    <3> QED
      BY ZenonT(60), <3>1, <3>2, <3>3, <3>4 DEF Stopping
  <2>4. Drained'
    <3>1. pc'[w] \in Away => Quiet'
      BY Zenon, <2>1, <2>2 DEF StopFacts, Away
    <3> QED
      BY Zenon, <3>1 DEF Drained
  <2>5. OneWorker => Alone'
    <3> SUFFICES ASSUME OneWorker
                 PROVE  /\ pc'[w] \in {"run_stopping", "idle_stopping"} => m_pendingEventCount' = 0
                        /\ pc'[w] = "off" => waiting' = {}
                        /\ w \in idleTerm' => Quiet' /\ cur'[w] = None
      BY Zenon DEF OneWorker, Alone
    <3>1. Alone /\ (pc'[w] \in {"run_stopping", "idle_stopping"} => m_pendingEventCount' = 0) /\ pc'[w] # "off"
      BY Zenon, <2>1 DEF StopFacts, StopInv
    <3>2. CASE UNCHANGED idleTerm
      BY Zenon, <2>1, <3>1, <3>2 DEF StopFacts, Alone, Quiet
    <3>3. CASE idle_stopping(w) /\ Scheduler_stopping /\ UNCHANGED <<m_fibers, waiting, cur>>
      <4>1. m_fibers = <<>> /\ m_pendingEventCount = 0 /\ pc[w] = "idle_stopping"
        BY ZenonT(60), <3>1, <3>3 DEF Alone, idle_stopping, Scheduler_stopping
      <4>2. cur[w] = None
        BY ZenonT(60), <4>1 DEF FiberInv, Typed, Handling, Active
      <4>3. IsFiniteSet(waiting) /\ Cardinality(waiting) \in Nat
            /\ m_pendingEventCount = Cardinality(waiting) + Cardinality(Triggering)
        BY Zenon, FS_CardinalityType DEF PendingInv, PendingCovers, Triggering
      <4>4. Cardinality(waiting) = 0
        BY SMTT(60), <4>1, <4>3, TriggeringFinite
      <4>5. waiting = {}
        BY ZenonT(60), <4>3, <4>4, FS_EmptySet
      <4> QED
        BY ZenonT(60), <3>1, <3>3, <4>1, <4>2, <4>5 DEF Quiet
    <3> QED
      BY Zenon, <2>1, <3>2, <3>3 DEF StopFacts
  <2> QED
    BY ZenonT(60), <1>1, <2>3, <2>4, <2>5 DEF StopInv
<1>3. ASSUME NEW f \in Fibers, NEW p \in Pins, Submit(f, p) PROVE StopInv'
  <2>1. /\ stop = "no"
        /\ UNCHANGED <<m_autoStops, m_stopping, stop, m_pendingEventCount, waiting, pc, cur, idleTerm>>
    BY Zenon, <1>3 DEF Submit, eventVars, workerVars
  <2>2. idleTerm = {} /\ \A w \in Workers : pc[w] # "exit"
    BY Zenon, <2>1 DEF StopInv, Stopping
  <2>3. Stopping'
    BY Zenon, <2>1 DEF StopInv, Stopping
  <2>4. Drained'
    BY Zenon, <2>1, <2>2 DEF Drained
  <2>5. OneWorker => Alone'
    BY Zenon, <2>1, <2>2 DEF StopInv, Alone
  <2> QED
    BY ZenonT(60), <1>1, <2>3, <2>4, <2>5 DEF StopInv
<1>4. ASSUME Calm PROVE StopInv'
  <2>1. Stopping'
    <3>1. \A w \in Workers : /\ pc'[w] = "exit" => pc[w] = "exit"
                             /\ pc'[w] = "off" => pc[w] = "off"
      BY Zenon, <1>4 DEF Calm
    <3> QED
      BY ZenonT(60), <1>4, <3>1 DEF Calm, StopInv, Stopping
  <2>2. OneWorker => Alone'
    <3>1. \A w \in Workers : /\ pc'[w] \in {"run_stopping", "idle_stopping"} => pc'[w] = pc[w]
                             /\ pc'[w] = "off" => pc[w] = "off"
      BY ZenonT(60), <1>4 DEF Calm
    <3> QED
      BY ZenonT(60), <1>4, <3>1 DEF Calm, StopInv, Alone, Quiet
  <2>3. Drained'
    <3> SUFFICES ASSUME \A w \in Workers : pc'[w] \in Away,
                        stop' \in {"join", "stopped"} \/ \E w \in Workers : pc'[w] = "exit"
                 PROVE  Quiet
      BY Zenon, <1>4 DEF Calm, Drained, Quiet
    <3>1. \A w \in Workers : pc'[w] = pc[w] /\ pc[w] \in Away
      BY Zenon, <1>4 DEF Calm, Away
    <3>2. CASE stop \in {"join", "stopped"} \/ \E w \in Workers : pc[w] = "exit"
      BY ZenonT(60), <3>1, <3>2 DEF StopInv, Drained
    <3>3. CASE (\A w \in Workers : pc[w] = "off") /\ m_fibers = <<>>
      <4>1. PICK w \in Workers : TRUE
        BY Zenon, WorkersAssumption
      <4>2. CASE OneWorker
        BY ZenonT(60), <3>3, <4>1, <4>2 DEF StopInv, Alone, Quiet
      <4>3. CASE NoHold
        BY ZenonT(60), <3>3, <4>3 DEF FiberInv, NoHoldWaits, Quiet
      <4> QED
        BY Zenon, <4>2, <4>3
    <3> QED
      BY ZenonT(60), <1>4, <3>1, <3>2, <3>3 DEF Calm
  <2> QED
    BY ZenonT(60), <1>1, <2>1, <2>2, <2>3 DEF StopInv
<1>5. PICK u \in Workers : TRUE
  BY Zenon, WorkersAssumption
<1>6. /\ pc \in [Workers -> PC] /\ Stopping /\ m_stopping \in BOOLEAN
      /\ Root \notin Workers => \A w \in Workers : pc[w] # "off"
      /\ Root = None => Root \notin Workers
  BY Zenon, RootAssumption DEF FiberInv, Typed, StopInv, Stopping
<1>7. CASE BeginStop \/ StopReadsPending
  <2>1. /\ UNCHANGED <<m_fibers, m_pendingEventCount, waiting, cur, idleTerm, pc, m_stopping>>
        /\ stop \notin {"join", "stopped"} /\ stop' \notin {"no", "join", "stopped"}
        /\ stop' = "autoStops" => stop = "no"
    BY Zenon, <1>7 DEF BeginStop, StopReadsPending, queueVars, eventVars, workerVars
  <2>9. Calm
    BY ZenonT(60), <1>6, <2>1 DEF Calm, Stopping
  <2> QED
    BY Zenon, <1>4, <2>9
<1>8. CASE SetStopping
  <2>1. /\ UNCHANGED <<m_fibers, m_pendingEventCount, waiting, cur, idleTerm, pc>>
        /\ stop = "autoStops" /\ m_stopping' = TRUE /\ stop' \in {"join", "pending"}
        /\ stop' = "join" => Root = None
    BY Zenon, <1>8 DEF SetStopping, queueVars, eventVars, workerVars
  <2>2. stop' = "join" => pc'[u] \notin Away \/ pc[u] = "exit"
    BY Zenon, <1>6, <2>1 DEF Away
  <2>9. Calm
    BY ZenonT(60), <2>1, <2>2 DEF Calm
  <2> QED
    BY Zenon, <1>4, <2>9
<1>9. CASE StopTests
  <2>1. /\ UNCHANGED <<m_fibers, m_pendingEventCount, waiting, cur, idleTerm, pc, m_stopping>>
        /\ stop = "root" /\ stop' \in {"join", "call"}
        /\ stop' = "join" => m_fibers = <<>>
    BY Zenon, <1>9 DEF StopTests, Scheduler_stopping, queueVars, eventVars, workerVars
  <2>2. (\E w \in Workers : pc'[w] \notin Away) \/ (\A w \in Workers : pc[w] = "off")
          \/ \E w \in Workers : pc[w] = "exit"
    BY Zenon, <2>1 DEF Away
  <2>9. Calm
    BY ZenonT(60), <2>1, <2>2 DEF Calm
  <2> QED
    BY Zenon, <1>4, <2>9
<1>10. CASE CallRoot
  <2>1. /\ UNCHANGED <<m_fibers, m_pendingEventCount, waiting, cur, idleTerm, m_stopping>>
        /\ stop = "call" /\ stop' = "join" /\ Goto(Root, "run")
    BY Zenon, <1>10 DEF CallRoot, queueVars, eventVars
  <2>2. \A w \in Workers : pc'[w] = pc[w] \/ (pc[w] = "off" /\ pc'[w] = "run")
    BY ZenonT(60), <1>6, <2>1 DEF ActiveInv, Goto
  <2>3. (\E w \in Workers : pc'[w] \notin Away) \/ \E w \in Workers : pc[w] = "exit"
    <3>1. CASE Root \in Workers
      BY Zenon, <1>6, <2>1, <3>1 DEF Goto, Away
    <3>2. CASE Root \notin Workers
      BY ZenonT(60), <1>5, <1>6, <2>2, <3>2 DEF Away
    <3> QED
      BY Zenon, <3>1, <3>2
  <2>9. Calm
    BY ZenonT(60), <2>1, <2>2, <2>3 DEF Calm
  <2> QED
    BY Zenon, <1>4, <2>9
<1>11. CASE Join
  <2>1. /\ UNCHANGED <<m_fibers, m_pendingEventCount, waiting, cur, idleTerm, pc, m_stopping>>
        /\ stop = "join" /\ stop' = "stopped" /\ \A w \in Workers : pc[w] \in Away
    BY Zenon, <1>11 DEF Join, Away, queueVars, eventVars, workerVars
  <2>9. Calm
    BY ZenonT(60), <2>1 DEF Calm
  <2> QED
    BY Zenon, <1>4, <2>9
<1>12. CASE UNCHANGED vars
  <2>1. UNCHANGED <<m_fibers, m_pendingEventCount, waiting, cur, idleTerm, pc, m_stopping, stop>>
    BY Zenon, <1>12 DEF vars, queueVars, eventVars, workerVars
  <2>9. Calm
    BY Zenon, <1>6, <2>1 DEF Calm, Stopping
  <2> QED
    BY Zenon, <1>4, <2>9
<1> QED
  BY ZenonT(60), <1>2, <1>3, <1>7, <1>8, <1>9, <1>10, <1>11, <1>12 DEF Next, StopStep, WorkerStep

(* At the start nobody has called stop().                                  *)
LEMMA StopInit == Init => StopInv
<1> SUFFICES ASSUME Init PROVE StopInv
  OBVIOUS
<1>1. /\ idleTerm = {} /\ m_stopping = FALSE /\ stop = "no" /\ waiting = {} /\ m_fibers = <<>>
      /\ \A w \in Workers : pc[w] \in {"off", "run"} /\ (pc[w] = "off" => w = Root)
  BY Zenon DEF Init
<1>2. Stopping
  BY Zenon, <1>1 DEF Stopping
<1>3. Drained
  BY Zenon, <1>1 DEF Drained, Quiet
<1>4. Unpinned /\ Alone
  BY <1>1 DEF Unpinned, Alone
<1> QED
  BY ZenonT(60), <1>2, <1>3, <1>4 DEF StopInv

(* When stop() returns the queue and the event contexts are empty          *)
(* (scheduler.cc:74-127): with one worker whatever the fibers do, and with *)
(* any number of workers if no task is pinned and no fiber waits for an    *)
(* event.                                                                  *)
THEOREM StopLeavesNothing ==
  OneWorker \/ (NoHold /\ Pins \subseteq {ANY}) => (Spec => []StopDrains)
<1> SUFFICES ASSUME OneWorker \/ (NoHold /\ Pins \subseteq {ANY}) PROVE Spec => []StopDrains
  OBVIOUS
<1>1. OneWorker \/ NoHold
  OBVIOUS
<1>2. Spec => [](ActiveInv /\ FiberInv /\ PendingInv)
  BY ZenonT(60), <1>1, FiberInvariant
<1>3. (ActiveInv /\ FiberInv /\ PendingInv) /\ (ActiveInv /\ FiberInv /\ PendingInv)' /\ StopInv /\ [Next]_vars
        => StopInv'
  BY Zenon, StopNext
<1>4. StopInv => StopDrains
  BY Zenon DEF StopInv, Stopping, Drained, StopDrains, Quiet
<1> QED
  BY <1>2, <1>3, <1>4, StopInit, PTL DEF Spec
=============================================================================
