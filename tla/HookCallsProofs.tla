-------------------------- MODULE HookCallsProofs ---------------------------
(* What holds of the hooked calls for any fibers, numbers, programs in      *)
(* which no two fibers wait for the same event, and any number of workers.  *)
EXTENDS HookIOProofs, FiniteSetTheorems

-----------------------------------------------------------------------------
(* A fiber or a callback runs on a worker of its own.                       *)
LEMMA OnWorkerFinite ==
  ASSUME HookIInv
  PROVE  OnWorker \subseteq Fibers /\ IsFiniteSet(OnWorker) /\ Cardinality(OnWorker) \in Nat /\ workers \in Nat
<1>1. OnWorker \subseteq Fibers /\ IsFiniteSet(Fibers) /\ workers \in Nat
  BY ZenonT(60), HookAssumption DEF OnWorker, HookIInv, Types
<1>2. IsFiniteSet(OnWorker)
  BY ZenonT(60), <1>1, FS_Subset
<1> QED
  BY ZenonT(60), <1>1, <1>2, FS_CardinalityType

(* No fiber and no callback more.                                           *)
LEMMA WorkersShrink ==
  ASSUME HookIInv, WorkersOK, OnWorker' \subseteq OnWorker, firing' \subseteq firing, workers' = workers
  PROVE  WorkersOK'
<1>1. IsFiniteSet(OnWorker) /\ IsFiniteSet(firing) /\ Cardinality(OnWorker) \in Nat /\ Cardinality(firing) \in Nat /\ workers \in Nat
  BY ZenonT(60), OnWorkerFinite, FS_CardinalityType DEF WorkersOK
<1>2. IsFiniteSet(OnWorker') /\ Cardinality(OnWorker') <= Cardinality(OnWorker)
  BY ZenonT(60), <1>1, FS_Subset
<1>3. IsFiniteSet(firing') /\ Cardinality(firing') <= Cardinality(firing)
  BY ZenonT(60), <1>1, FS_Subset
<1>4. Cardinality(OnWorker') \in Nat /\ Cardinality(firing') \in Nat
  BY ZenonT(60), <1>2, <1>3, FS_CardinalityType
<1> DEFINE a == Cardinality(OnWorker)
           b == Cardinality(firing)
           c == Cardinality(OnWorker')
           d == Cardinality(firing')
<1>5. a \in Nat /\ b \in Nat /\ c \in Nat /\ d \in Nat /\ c <= a /\ d <= b /\ a + b <= workers
  BY ZenonT(60), <1>1, <1>2, <1>3, <1>4 DEF WorkersOK
<1> HIDE DEF a, b, c, d
<1>6. c + d <= workers
  BY <1>1, <1>5
<1> QED
  BY ZenonT(60), <1>3, <1>6 DEF WorkersOK, c, d

(* One more, on a free worker.                                              *)
LEMMA WorkersGrow ==
  ASSUME HookIInv, WorkersOK, Free, NEW x, NEW y, workers' = workers,
         \/ OnWorker' \subseteq OnWorker \cup {x} /\ firing' \subseteq firing
         \/ OnWorker' \subseteq OnWorker /\ firing' \subseteq firing \cup {y}
  PROVE  WorkersOK'
<1>1. IsFiniteSet(OnWorker) /\ IsFiniteSet(firing) /\ Cardinality(OnWorker) \in Nat /\ Cardinality(firing) \in Nat /\ workers \in Nat
  BY ZenonT(60), OnWorkerFinite, FS_CardinalityType DEF WorkersOK
<1>2. ASSUME NEW S, IsFiniteSet(S), NEW z
      PROVE  IsFiniteSet(S \cup {z}) /\ Cardinality(S \cup {z}) <= Cardinality(S) + 1
  <2>1. Cardinality(S) \in Nat
    BY ZenonT(60), <1>2, FS_CardinalityType
  <2>2. IsFiniteSet(S \cup {z}) /\ (Cardinality(S \cup {z}) = Cardinality(S) \/ Cardinality(S \cup {z}) = Cardinality(S) + 1)
    BY ZenonT(60), <1>2, FS_AddElement
  <2> QED
    BY SMTT(60), <2>1, <2>2
<1>3. ASSUME NEW S, IsFiniteSet(S), NEW T, T \subseteq S
      PROVE  IsFiniteSet(T) /\ Cardinality(T) \in Nat /\ Cardinality(T) <= Cardinality(S) /\ Cardinality(S) \in Nat
  BY ZenonT(60), <1>3, FS_Subset, FS_CardinalityType
<1> DEFINE a == Cardinality(OnWorker)
           b == Cardinality(firing)
           c == Cardinality(OnWorker')
           d == Cardinality(firing')
<1>4. a + b < workers /\ a \in Nat /\ b \in Nat
  BY ZenonT(60), <1>1 DEF Free
<1>5. CASE OnWorker' \subseteq OnWorker \cup {x} /\ firing' \subseteq firing
  <2> DEFINE m == Cardinality(OnWorker \cup {x})
  <2>1. IsFiniteSet(OnWorker \cup {x}) /\ m <= a + 1
    BY ZenonT(60), <1>1, <1>2
  <2>2. c \in Nat /\ c <= m /\ m \in Nat
    BY ZenonT(60), <2>1, <1>3, <1>5
  <2>3. d \in Nat /\ d <= b /\ IsFiniteSet(firing')
    BY ZenonT(60), <1>1, <1>3, <1>5
  <2> HIDE DEF a, b, c, d, m
  <2>4. c + d <= workers
    BY SMTT(60), <2>1, <2>2, <2>3, <1>1, <1>4
  <2> QED
    BY ZenonT(60), <2>3, <2>4 DEF WorkersOK, c, d
<1>6. CASE OnWorker' \subseteq OnWorker /\ firing' \subseteq firing \cup {y}
  <2> DEFINE m == Cardinality(firing \cup {y})
  <2>1. IsFiniteSet(firing \cup {y}) /\ m <= b + 1
    BY ZenonT(60), <1>1, <1>2
  <2>2. d \in Nat /\ d <= m /\ m \in Nat /\ IsFiniteSet(firing')
    BY ZenonT(60), <2>1, <1>3, <1>6
  <2>3. c \in Nat /\ c <= a
    BY ZenonT(60), <1>1, <1>3, <1>6
  <2> HIDE DEF a, b, c, d, m
  <2>4. c + d <= workers
    BY SMTT(60), <2>1, <2>2, <2>3, <1>1, <1>4
  <2> QED
    BY ZenonT(60), <2>2, <2>4 DEF WorkersOK, c, d
<1> QED
  BY ZenonT(60), <1>5, <1>6

(* No more fibers and callbacks run than there are workers.                 *)
LEMMA NextWorkers ==
  ASSUME HookIInv, WorkersOK, [Next]_vars
  PROVE  WorkersOK'
<1>0. \A f : f \in OnWorker <=> f \in Fibers /\ pc[f] \notin {"ready", "hold", "end"}
  BY ZenonT(60) DEF OnWorker
<1>0a. \A f : f \in OnWorker' <=> f \in Fibers /\ pc'[f] \notin {"ready", "hold", "end"}
  BY ZenonT(60) DEF OnWorker
<1>1. pc \in [Fibers -> Labels]
  BY ZenonT(60) DEF HookIInv, Types
<1>2. ASSUME NEW f \in Fibers, Step(f) PROVE WorkersOK'
  <2>1. OwnStep(f)
    BY ZenonT(60), <1>2, StepOwn
  <2>2. f \in OnWorker
    <3>1. pc[f] \notin {"ready", "hold", "end"}
      BY <2>1 DEF OwnStep, OnOne
    <3> QED
      BY ZenonT(60), <3>1, <1>0
  <2>3. \A g \in Fibers \ {f} : pc'[g] = pc[g]
    BY ZenonT(60), <2>1, <1>1 DEF OwnStep, Goto
  <2>4. OnWorker' \subseteq OnWorker
    BY ZenonT(60), <2>2, <2>3, <1>0, <1>0a
  <2>5. firing' \subseteq firing /\ workers' = workers
    BY ZenonT(60), <2>1 DEF OwnStep
  <2> QED
    BY ZenonT(60), <2>4, <2>5, WorkersShrink
<1>3. ASSUME NEW f \in Fibers, Resume(f) PROVE WorkersOK'
  <2>1. Free /\ workers' = workers /\ firing' \subseteq firing
    BY ZenonT(60), <1>3 DEF Resume, timerVars
  <2>2. \A g \in Fibers \ {f} : pc'[g] = pc[g]
    BY ZenonT(60), <1>1, <1>3 DEF Resume, Goto
  <2>3. OnWorker' \subseteq OnWorker \cup {f}
    BY ZenonT(60), <2>2, <1>0, <1>0a
  <2> QED
    BY ZenonT(60), <2>1, <2>3, WorkersGrow
<1>4. ASSUME NEW f \in Fibers, Expire(f) PROVE WorkersOK'
  <2>1. pc' = pc /\ workers' = workers /\ firing' \subseteq firing
    BY ZenonT(60), <1>4 DEF Expire, fiberVars
  <2>2. OnWorker' \subseteq OnWorker
    BY ZenonT(60), <2>1, <1>0, <1>0a
  <2> QED
    BY ZenonT(60), <2>1, <2>2, WorkersShrink
<1>5. ASSUME NEW f \in Fibers, OnTimer(f) PROVE WorkersOK'
  <2> DEFINE k == [fiber |-> f, pos |-> pos[f], fd |-> call(f).fd, event |-> event(call(f))]
  <2>1. Free /\ pc' = pc /\ workers' = workers /\ firing' = IF cancelled[f] THEN firing ELSE firing \cup {k}
    BY ZenonT(60), <1>5 DEF OnTimer, fiberVars
  <2>2. OnWorker' \subseteq OnWorker
    BY ZenonT(60), <2>1, <1>0, <1>0a
  <2> HIDE DEF k
  <2>3. firing' \subseteq firing \cup {k}
    BY ZenonT(60), <2>1
  <2> QED
    BY ZenonT(60), <2>1, <2>2, <2>3, WorkersGrow
<1>6. ASSUME NEW k \in firing, cancelEvent(k) PROVE WorkersOK'
  <2>1. pc' = pc /\ workers' = workers /\ firing' \subseteq firing
    BY ZenonT(60), <1>6 DEF cancelEvent
  <2>2. OnWorker' \subseteq OnWorker
    BY ZenonT(60), <2>1, <1>0, <1>0a
  <2> QED
    BY ZenonT(60), <2>1, <2>2, WorkersShrink
<1>7. ASSUME pc' = pc, workers' = workers, firing' = firing PROVE WorkersOK'
  <2>1. OnWorker' \subseteq OnWorker /\ firing' \subseteq firing
    BY ZenonT(60), <1>7, <1>0, <1>0a
  <2> QED
    BY ZenonT(60), <2>1, <1>7, WorkersShrink
<1>8. ASSUME NEW n \in Numbers, Dispatch(n) PROVE WorkersOK'
  BY ZenonT(60), <1>7, <1>8 DEF Dispatch, fiberVars, timerVars
<1>9. ASSUME NEW s \in Sockets, NEW e \in Event, Arrive(s, e) PROVE WorkersOK'
  BY ZenonT(60), <1>7, <1>9 DEF Arrive, fiberVars, timerVars
<1>10. ASSUME NEW s \in Sockets, NEW r \in {"up", "refused"}, Establish(s, r) PROVE WorkersOK'
  BY ZenonT(60), <1>7, <1>10 DEF Establish, fiberVars, timerVars
<1>11. CASE UNCHANGED vars
  BY ZenonT(60), <1>7, <1>11 DEF vars, fiberVars, timerVars
<1> QED
  BY ZenonT(60), <1>2, <1>3, <1>4, <1>5, <1>6, <1>8, <1>9, <1>10, <1>11 DEF Next, System

(* With one worker, and a fiber on it, there is no other fiber and no       *)
(* callback on it.                                                          *)
LEMMA WorkersAlone ==
  ASSUME HookIInv, WorkersOK
  PROVE  OneRuns
<1>0. SUFFICES ASSUME workers = 1, NEW f \in Fibers, pc[f] \notin {"ready", "hold", "end"}
               PROVE  firing = {} /\ \A g \in Fibers : pc[g] \notin {"ready", "hold", "end"} => g = f
  BY ZenonT(60) DEF OneRuns
<1>1. IsFiniteSet(OnWorker) /\ IsFiniteSet(firing) /\ Cardinality(OnWorker) \in Nat /\ Cardinality(firing) \in Nat
  BY ZenonT(60), OnWorkerFinite, FS_CardinalityType DEF WorkersOK
<1>2. {f} \in SUBSET OnWorker
  BY ZenonT(60), <1>0 DEF OnWorker
<1>3. Cardinality({f}) = 1
  BY ZenonT(60), FS_Singleton
<1>4. Cardinality({f}) <= Cardinality(OnWorker) /\ (Cardinality(OnWorker) = Cardinality({f}) => OnWorker = {f})
  BY ZenonT(60), <1>1, <1>2, FS_Subset
<1> DEFINE a == Cardinality(OnWorker)
           b == Cardinality(firing)
<1>5. a \in Nat /\ b \in Nat /\ a + b <= 1 /\ 1 <= a
  BY ZenonT(60), <1>0, <1>1, <1>3, <1>4 DEF WorkersOK
<1> HIDE DEF a, b
<1>6. a = 1 /\ b = 0
  BY <1>5
<1>7. firing = {}
  BY ZenonT(60), <1>1, <1>6, FS_EmptySet DEF b
<1>8. OnWorker = {f}
  BY ZenonT(60), <1>3, <1>4, <1>6 DEF a
<1> QED
  BY ZenonT(60), <1>7, <1>8 DEF OnWorker
-----------------------------------------------------------------------------
(* The invariant that a behaviour keeps, and what it says of the calls.     *)
CallsInv == HookIInv /\ WorkersOK /\ AbortOnlyWhenStale /\ RaceInv /\ OrderInv

(* All of it holds at the start.                                            *)
LEMMA InitCalls ==
  ASSUME Init
  PROVE  CallsInv
<1>1. \A f \in Fibers : pc[f] = "ready" /\ pos[f] = 1 /\ race[f] = {}
  BY ZenonT(60) DEF Init
<1>2. WorkersOK
  <2>1. OnWorker = {} /\ firing = {}
    BY <1>1 DEF OnWorker, Init
  <2>2. workers \in Nat
    BY ZenonT(60), HookAssumption DEF Init
  <2>3. Cardinality(OnWorker) = 0 /\ Cardinality(firing) = 0 /\ IsFiniteSet(firing)
    BY ZenonT(60), <2>1, FS_EmptySet
  <2> QED
    BY <2>2, <2>3 DEF WorkersOK
<1>3. AbortOnlyWhenStale
  BY ZenonT(60), HookAssumption DEF Init, AbortOnlyWhenStale
<1>4. RaceInv
  BY ZenonT(60), <1>1 DEF RaceInv
<1>5. OrderInv
  <2>1. nonblock \in [Sockets -> BOOLEAN]
    BY DEF Init
  <2>2. \A f \in Fibers : pc[f] # "get" /\ pc[f] # "close_f" /\ pc[f] \notin {"del", "close_f"}
    BY <1>1
  <2>3. ASSUME NEW n \in Numbers PROVE NumberOrder(n)
    <3>1. m_datas[n] = (IF n = 1 THEN FdCtx(1) ELSE None) /\ socket[n] = (IF n = 1 THEN 1 ELSE 0)
      BY ZenonT(60) DEF Init
    <3>2. nonblock[1] /\ FdCtx(1).m_isSocket
      <4>1. MaxSockets \in Nat \ {0} /\ nonblock = [s \in Sockets |-> s = 1]
        BY ZenonT(60), HookAssumption DEF Init
      <4>2. 1 \in Sockets
        BY <4>1 DEF Sockets
      <4>3. FdCtx(1).m_isSocket
        <5>1. FdCtx(1).m_isSocket = (1 # 0)
          BY ZenonT(60) DEF FdCtx
        <5>2. 1 # 0
          OBVIOUS
        <5> QED
          BY ZenonT(60), <5>1, <5>2
      <4> QED
        BY ZenonT(60), <4>1, <4>2, <4>3
    <3>3. socket[n] # 0 => n = 1 /\ socket[n] = 1
      BY <3>1
    <3>4. n = 1 => socket[n] # 0
      BY <3>1
    <3> QED
      BY ZenonT(60), <3>1, <3>2, <3>3, <3>4 DEF NumberOrder
  <2> QED
    BY ZenonT(60), <2>1, <2>2, <2>3 DEF OrderInv, FiberOrder
<1> QED
  BY ZenonT(60), <1>2, <1>3, <1>4, <1>5, InitIInv DEF CallsInv

(* Every step keeps it.                                                     *)
LEMMA NextCalls ==
  ASSUME CallsInv, [Next]_vars
  PROVE  CallsInv'
BY ZenonT(60), NextIInv, NextWorkers, WorkersAlone, NextAbort, NextRace, NextOrder DEF CallsInv

(* The type invariant.                                                      *)
LEMMA CallsTyped ==
  ASSUME CallsInv
  PROVE  HookTypeOK
BY ZenonT(60) DEF CallsInv, HookIInv, Types, WorkersOK, HookTypeOK, Labels

(* A fiber that waits can be woken: it is the waiter of its event, and a    *)
(* callback that has set cancelled is still to come or was met by a race.   *)
LEMMA CallsWait ==
  ASSUME CallsInv
  PROVE  WaitsEnd
<1>1. SUFFICES ASSUME NEW f \in Fibers, Waits(f)
               PROVE  IF call(f).op = "sleep" THEN armed[f]
                      ELSE LET n == call(f).fd   e == event(call(f)) IN
                           /\ waiter[n][e] = f
                           /\ Watched(n, e) \/ "closing" \in race[f]
                           /\ to[f] => TimerPending(f) \/ race[f] \cap {"early", "closing"} # {}
                           /\ workers = 1 => race[f] \subseteq {"stale"}
  BY ZenonT(60) DEF WaitsEnd
<1>2. pc[f] = "hold" /\ f \notin queue
  BY ZenonT(60), <1>1 DEF Waits
<1>3. Waiting(f) /\ pc[f] # "end" /\ pc[f] \notin {"woken", "test", "getsockopt"}
  BY <1>2 DEF Waiting, Away
<1>4. WakeOK(f)
  BY ZenonT(60) DEF CallsInv, HookIInv
<1>5. CASE call(f).op = "sleep"
  BY ZenonT(60), <1>3, <1>4, <1>5 DEF WakeOK
<1>6. CASE call(f).op # "sleep"
  <2> DEFINE n == call(f).fd
             e == event(call(f))
  <2>1. n \in Numbers /\ waiter[n][e] = f /\ f # None
    BY ZenonT(60), <1>3, <1>4, <1>6, CallTyped, HookAssumption DEF WakeOK, CallsInv
  <2>2. e \in Event
    BY DEF event, Event
  <2>3. WaiterOK(n, e)
    BY ZenonT(60), <2>1, <2>2 DEF CallsInv, HookIInv
  <2>4. Watched(n, e) \/ "closing" \in race[f]
    BY ZenonT(60), <2>1, <2>3 DEF WaiterOK
  <2>5. to[f] => TimerPending(f) \/ race[f] \cap {"early", "closing"} # {}
    BY ZenonT(60), <1>2, <1>3, <1>4, <1>6 DEF WakeOK, TimerPending
  <2>6. workers = 1 => race[f] \subseteq {"stale"}
    BY ZenonT(60) DEF CallsInv, RaceInv
  <2> QED
    BY ZenonT(60), <1>6, <2>1, <2>4, <2>5, <2>6
<1> QED
  BY ZenonT(60), <1>5, <1>6

(* A socket that is open is non-blocking, unless ioctl was called or the    *)
(* number is being opened or closed, which with one worker excludes a fiber *)
(* in the system call.                                                      *)
LEMMA CallsRun ==
  ASSUME CallsInv, Orderly
  PROVE  NeverBlocked
<1>1. SUFFICES ASSUME NEW f \in Fibers, Blocked(f), ~Ioctled
               PROVE  workers > 1 /\ (~Mine(f) \/ Closing(call(f).fd) \/ \E g \in Fibers : pc[g] = "get")
  BY ZenonT(60) DEF NeverBlocked, Ioctled
<1>2. pc[f] \in {"try", "direct"} /\ socket[call(f).fd] # 0 /\ ~nonblock[socket[call(f).fd]]
  BY <1>1 DEF Blocked
<1>3. pc[f] # "end" /\ pc[f] \notin {"ready", "hold", "end"} /\ pc[f] # "get" /\ pc[f] \notin {"del", "close_f"}
  BY <1>2
<1>4. call(f).fd \in Numbers
  BY ZenonT(60), <1>3, CallTyped DEF CallsInv
<1>5. Getting(call(f).fd) \/ Closing(call(f).fd)
  BY ZenonT(60), <1>1, <1>2, <1>4 DEF CallsInv, OrderInv, NumberOrder
<1>6. PICK g \in Fibers : pc[g] = "get" \/ pc[g] \in {"del", "close_f"}
  BY ZenonT(60), <1>5 DEF Getting, Closing
<1>7. g # f /\ pc[g] \notin {"ready", "hold", "end"}
  BY <1>3, <1>6
<1>8. workers # 1
  BY ZenonT(60), <1>3, <1>7, WorkersAlone, Alone DEF CallsInv
<1>9. workers > 1
  <2>1. workers \in Nat \ {0}
    BY ZenonT(60), HookAssumption DEF CallsInv, HookIInv, Types
  <2> QED
    BY <2>1, <1>8
<1> QED
  BY ZenonT(60), <1>5, <1>9 DEF Getting

(* The hooked calls of hook.cc, with any number of workers: the type        *)
(* invariant; a fiber that has yielded in do_io, connect or sleep can still *)
(* be woken, by its event and by its timer, but for the two races; and the  *)
(* assertion of addEvent fails only for a number closed under its caller.   *)
THEOREM WaitsCanEnd ==
  Spec => [](HookTypeOK /\ WaitsEnd /\ AbortOnlyWhenStale)
<1>1. Init => CallsInv
  BY InitCalls
<1>2. CallsInv /\ [Next]_vars => CallsInv'
  BY NextCalls
<1>3. CallsInv => HookTypeOK /\ WaitsEnd /\ AbortOnlyWhenStale
  BY ZenonT(60), CallsTyped, CallsWait DEF CallsInv
<1> QED
  BY <1>1, <1>2, <1>3, PTL DEF Spec

(* When the fibers run on one worker, or no two of them close the same      *)
(* socket, the number of a socket has a context from the return of socket() *)
(* or accept() to close(), so no hooked call blocks its worker either:      *)
(* everything that WaitsSound says holds.                                   *)
THEOREM CallsWaitAsTheyShould ==
  Spec => [](Orderly => WaitsSound)
<1>1. Init => CallsInv
  BY InitCalls
<1>2. CallsInv /\ [Next]_vars => CallsInv'
  BY NextCalls
<1>3. CallsInv => (Orderly => WaitsSound)
  BY ZenonT(60), CallsTyped, CallsWait, CallsRun DEF CallsInv, WaitsSound
<1> QED
  BY <1>1, <1>2, <1>3, PTL DEF Spec

=============================================================================
