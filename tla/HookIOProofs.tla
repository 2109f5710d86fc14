---------------------------- MODULE HookIOProofs ----------------------------
(* What holds of the hooked calls for any fibers, numbers, programs in      *)
(* which no two fibers wait for the same event, and any number of workers.  *)
EXTENDS HookIO, TLAPS

-----------------------------------------------------------------------------
(* The inductive invariant.  A fiber is in a call that waits from the test  *)
(* of fun to the test of cancelled.                                         *)
Labels == {"ready", "begin", "direct", "try", "arm", "add", "yield", "hold", "woken", "test",
           "getsockopt", "get", "del", "close_f", "end"}
InCall == {"try", "arm", "add", "yield", "hold", "woken", "test", "getsockopt"}
Away == {"yield", "hold"}
Waiting(f) == pc[f] \in Away /\ f \notin queue
Getting(n) == \E g \in Fibers : pc[g] = "get" /\ newfd[g] = n
Contexts == [m_isSocket : BOOLEAN, m_userNonblock : BOOLEAN, m_timeout : BOOLEAN]

Types ==
  /\ program \in Programs /\ workers \in WorkerCounts
  /\ pos \in [Fibers -> Nat] /\ pc \in [Fibers -> Labels] /\ queue \subseteq Fibers
  /\ race \in [Fibers -> SUBSET {"early", "stale", "closing"}] /\ newfd \in [Fibers -> Numbers \cup {None}]
  /\ to \in [Fibers -> BOOLEAN] /\ cancelled \in [Fibers -> BOOLEAN]
  /\ armed \in [Fibers -> BOOLEAN] /\ due \in [Fibers -> BOOLEAN]
  /\ firing \subseteq [fiber : Fibers, pos : Nat, fd : Numbers, event : Event]
  /\ events \in [Numbers -> SUBSET Event] /\ waiter \in [Numbers -> [Event -> Fibers \cup {None}]]
  /\ socket \in [Numbers -> 0..MaxSockets] /\ interest \in [Sockets -> SUBSET Event] /\ opened \in Sockets
  /\ m_datas \in [Numbers -> Contexts \cup {None}]

(* Where a fiber is in its program, and what can still wake it.             *)
PlaceOK(f) ==
  /\ pc[f] # "end" => pos[f] \in 1..Len(program[f])
  /\ pc[f] \in {"try", "arm", "add", "test", "getsockopt"} => call(f).op \in WaitCalls
  /\ pc[f] \in {"yield", "hold", "woken"} => call(f).op \in WaitCalls \cup {"sleep"}
  /\ pc[f] \in {"del", "close_f"} => call(f).op = "close"
  /\ pc[f] = "get" => newfd[f] \in Numbers
  /\ f \in queue => pc[f] \in Away \cup {"ready"}
  /\ armed[f] => pc[f] \in Away \cup {"add", "woken"} /\ (call(f).op = "sleep" => Waiting(f))
  /\ due[f] \/ cancelled[f] => pc[f] \in InCall /\ call(f).op \in WaitCalls
WakeOK(f) ==
  /\ Waiting(f) => IF call(f).op = "sleep" THEN armed[f] ELSE waiter[call(f).fd][event(call(f))] = f
  /\ pc[f] = "add" \/ (Waiting(f) /\ call(f).op # "sleep") => (to[f] => armed[f] \/ due[f] \/ cancelled[f])
  /\ cancelled[f] => \/ \E k \in firing : Same(f, k)
                     \/ race[f] \cap {"early", "closing"} # {}
                     \/ f \in queue \/ pc[f] \in {"woken", "test", "getsockopt"}
CallbackOK(k) ==
  /\ k.pos <= pos[k.fiber]
  /\ k.pos = pos[k.fiber] => k.fd = call(k.fiber).fd /\ k.event = event(call(k.fiber))

(* The sockets behind the numbers.                                          *)
SocketOK ==
  /\ \A n, m \in Numbers : socket[n] = socket[m] /\ socket[n] # 0 => n = m
  /\ \A n \in Numbers : socket[n] <= opened
  /\ \A s \in Sockets : s > opened => interest[s] = {}
ContextOK(n) == socket[n] # 0 => m_datas[n] # None \/ Getting(n) \/ Closing(n)

(* The fiber that waits for the event e of n.                               *)
WaiterOK(n, e) ==
  LET f == waiter[n][e] IN
  /\ e \in events[n] <=> f # None
  /\ f # None =>
       /\ Waiting(f) /\ call(f).op # "sleep" /\ call(f).fd = n /\ event(call(f)) = e
       /\ "closing" \in race[f] \/ (Watched(n, e) /\ ~Closing(n) /\ (m_datas[n] # None \/ Getting(n)))
InterestOK(n) == socket[n] # 0 => interest[socket[n]] = {} \/ interest[socket[n]] = events[n]

HookIInv ==
  /\ Types /\ SocketOK
  /\ \A f \in Fibers : PlaceOK(f) /\ WakeOK(f)
  /\ \A k \in firing : CallbackOK(k)
  /\ \A n \in Numbers : ContextOK(n) /\ InterestOK(n) /\ \A e \in Event : WaiterOK(n, e)
WorkersOK == IsFiniteSet(firing) /\ Cardinality(OnWorker) + Cardinality(firing) <= workers
OneRuns ==
  workers = 1 => \A f \in Fibers : pc[f] \notin {"ready", "hold", "end"} =>
    firing = {} /\ \A g \in Fibers : pc[g] \notin {"ready", "hold", "end"} => g = f

(* With one worker nothing runs between two steps of a call.  With more,    *)
(* when no two fibers close the same socket, a number is closed before it   *)
(* is opened again, and has a context while it is open.                     *)
OneCloser ==
  \A f, g \in Fibers : \A i \in DOMAIN program[f], j \in DOMAIN program[g] :
    program[f][i].op = "close" /\ program[g][j].op = "close" /\ program[f][i].sock = program[g][j].sock => f = g
Orderly == workers = 1 \/ OneCloser
Ioctled == \E g \in Fibers : \E i \in 1..(pos[g] - 1) : program[g][i].op = "ioctl"
FiberOrder(f) ==
  /\ pc[f] = "close_f" => m_datas[call(f).fd] = None
  /\ pc[f] \in {"del", "close_f"} => Mine(f) /\ socket[call(f).fd] # 0 /\ ~Getting(call(f).fd)
  /\ pc[f] = "get" => m_datas[newfd[f]] = None /\ socket[newfd[f]] # 0
NumberOrder(n) ==
  /\ m_datas[n] # None => m_datas[n].m_isSocket /\ socket[n] # 0
  /\ socket[n] # 0 => Ioctled \/ nonblock[socket[n]] \/ Getting(n) \/ Closing(n)
OrderInv ==
  /\ nonblock \in [Sockets -> BOOLEAN]
  /\ Orderly =>
      /\ \A f \in Fibers : FiberOrder(f)
      /\ \A f, g \in Fibers : pc[f] = "get" /\ pc[g] = "get" /\ newfd[f] = newfd[g] => f = g
      /\ \A n \in Numbers : NumberOrder(n)
RaceInv == workers = 1 => \A f \in Fibers : race[f] \subseteq {"stale"}

-----------------------------------------------------------------------------
(* Fibers, numbers and waiters that a step leaves alone.                    *)
Still(g) ==
  /\ pos'[g] = pos[g] /\ pc'[g] = pc[g] /\ to'[g] = to[g] /\ race'[g] = race[g] /\ newfd'[g] = newfd[g]
  /\ cancelled'[g] = cancelled[g] /\ armed'[g] = armed[g] /\ due'[g] = due[g]

(* A fiber that a step leaves alone stays right.                            *)
LEMMA StillOK ==
  ASSUME NEW g \in Fibers, Still(g), program' = program, g \in queue' <=> g \in queue,
         Waiting(g) /\ call(g).op # "sleep" => waiter'[call(g).fd][event(call(g))] = waiter[call(g).fd][event(call(g))],
         \A k \in firing : Same(g, k) => k \in firing',
         PlaceOK(g), WakeOK(g)
  PROVE  PlaceOK(g)' /\ WakeOK(g)'
<1>1. call(g)' = call(g) /\ event(call(g))' = event(call(g))
  BY Zenon DEF Still, call, event
<1>2. Waiting(g)' = Waiting(g)
  BY Zenon DEF Still, Waiting
<1>3. \A k : Same(g, k)' = Same(g, k)
  BY Zenon DEF Still, Same
<1>4. PlaceOK(g)'
  BY Zenon, <1>1, <1>2 DEF Still, PlaceOK
<1>5. WakeOK(g)'
  BY Zenon, <1>1, <1>2, <1>3 DEF Still, WakeOK
<1> QED
  BY Zenon, <1>4, <1>5

Clean(n, e) == Watched(n, e) /\ ~Closing(n) /\ (m_datas[n] # None \/ Getting(n))

(* A waiter that a step leaves alone stays right.                           *)
LEMMA WaiterStill ==
  ASSUME NEW n, NEW e, waiter'[n][e] = waiter[n][e], e \in events'[n] <=> e \in events[n], program' = program,
         waiter[n][e] # None => Still(waiter[n][e]) /\ (waiter[n][e] \in queue' <=> waiter[n][e] \in queue),
         waiter[n][e] # None /\ Clean(n, e) => "closing" \in race[waiter[n][e]] \/ Clean(n, e)',
         WaiterOK(n, e)
  PROVE  WaiterOK(n, e)'
<1> DEFINE f == waiter[n][e]
<1>1. f # None => Waiting(f)' = Waiting(f) /\ call(f)' = call(f) /\ event(call(f))' = event(call(f))
  BY Zenon DEF Still, Waiting, call, event
<1>2. waiter'[n][e] = f /\ (f # None => race'[f] = race[f])
  BY Zenon DEF Still
<1> QED
  BY Zenon, <1>1, <1>2 DEF WaiterOK, Clean, call, event, Waiting
-----------------------------------------------------------------------------
(* A running fiber goes on with its call, or returns from it, and no event, *)
(* timer of another or socket is touched.                                   *)
FiberTypes ==
  /\ pos \in [Fibers -> Nat] /\ pc \in [Fibers -> Labels]
  /\ race \in [Fibers -> SUBSET {"early", "stale", "closing"}] /\ newfd \in [Fibers -> Numbers \cup {None}]
  /\ to \in [Fibers -> BOOLEAN] /\ cancelled \in [Fibers -> BOOLEAN]
  /\ armed \in [Fibers -> BOOLEAN] /\ due \in [Fibers -> BOOLEAN]
Inside == Labels \ {"ready", "yield", "hold", "end"}
Held2(n) == (m_datas[n] # None \/ Getting(n)) /\ ~Closing(n)
Moves(f) ==
  /\ UNCHANGED <<program, workers, queue, events, waiter, interest, firing, socket, opened>>
  /\ \A g \in Fibers \ {f} : Still(g)
  /\ FiberTypes' /\ m_datas' \in [Numbers -> Contexts \cup {None}]
  /\ pc[f] \in Inside /\ pc'[f] \in Inside \cup {"end"}
  /\ PlaceOK(f)' /\ WakeOK(f)'
  /\ \A k \in firing : k.fiber = f => CallbackOK(k)'
  /\ \A n \in Numbers : ContextOK(n)'
  /\ \A n \in Numbers : Held2(n) => Held2(n)' \/ \A e \in Event : waiter[n][e] # None => "closing" \in race[waiter[n][e]]

(* A step that moves one running fiber keeps the invariant, if that fiber   *)
(* and the contexts stay right.                                             *)
LEMMA MovesIInv ==
  ASSUME HookIInv, NEW f \in Fibers, Moves(f)
  PROVE  HookIInv'
<1>1. UNCHANGED <<program, workers, queue, events, waiter, interest, firing, socket, opened>>
  BY Zenon DEF Moves
<1>2. Types'
  <2>1. Types /\ FiberTypes' /\ m_datas' \in [Numbers -> Contexts \cup {None}]
    BY Zenon DEF Moves, HookIInv
  <2> QED
    BY Zenon, <2>1, <1>1 DEF Types, FiberTypes
<1>3. SocketOK'
  BY Zenon, <1>1 DEF HookIInv, SocketOK
<1>4. \A g \in Fibers : PlaceOK(g)' /\ WakeOK(g)'
  <2>1. TAKE g \in Fibers
  <2>2. CASE g = f
    BY Zenon, <2>2 DEF Moves
  <2>3. CASE g # f
    <3>1. Still(g) /\ PlaceOK(g) /\ WakeOK(g)
      BY Zenon, <2>3 DEF Moves, HookIInv
    <3> QED
      BY Zenon, <3>1, <1>1, StillOK
  <2> QED
    BY Zenon, <2>2, <2>3
<1>5. \A k \in firing' : CallbackOK(k)'
  <2>1. SUFFICES ASSUME NEW k \in firing PROVE CallbackOK(k)'
    BY Zenon, <1>1
  <2>2. CASE k.fiber = f
    BY Zenon, <2>2 DEF Moves
  <2>3. CASE k.fiber # f
    <3>1. k.fiber \in Fibers
      BY DEF HookIInv, Types
    <3>2. Still(k.fiber) /\ CallbackOK(k)
      BY Zenon, <2>3, <3>1 DEF Moves, HookIInv
    <3> QED
      BY Zenon, <3>2, <1>1 DEF Still, CallbackOK, call, event
  <2> QED
    BY Zenon, <2>2, <2>3
<1>6. \A n \in Numbers : ContextOK(n)' /\ InterestOK(n)'
  BY Zenon, <1>1 DEF Moves, HookIInv, InterestOK
<1>7. \A n \in Numbers : \A e \in Event : WaiterOK(n, e)'
  <2>1. TAKE n \in Numbers
  <2>2. TAKE e \in Event
  <2>3. WaiterOK(n, e)
    BY Zenon DEF HookIInv
  <2>4. waiter[n][e] # None => waiter[n][e] \in Fibers /\ waiter[n][e] # f
    <3>1. waiter[n][e] \in Fibers \cup {None}
      BY DEF HookIInv, Types
    <3>2. waiter[n][e] # None => pc[waiter[n][e]] \in Away
      BY Zenon, <2>3 DEF WaiterOK, Waiting
    <3>3. pc[f] \notin Away
      BY DEF Moves, Inside, Away
    <3> QED
      BY Zenon, <3>1, <3>2, <3>3
  <2>5. waiter[n][e] # None => Still(waiter[n][e])
    BY Zenon, <2>4 DEF Moves
  <2>6. Watched(n, e)' = Watched(n, e)
    BY Zenon, <1>1 DEF Watched
  <2>7. waiter[n][e] # None /\ Clean(n, e) => "closing" \in race[waiter[n][e]] \/ Clean(n, e)'
    BY Zenon, <2>6 DEF Moves, Clean, Held2
  <2> QED
    BY Zenon, <2>3, <2>5, <2>7, <1>1, WaiterStill
<1> QED
  BY Zenon, <1>2, <1>3, <1>4, <1>5, <1>6, <1>7 DEF HookIInv

(* What a return leaves: the fiber is at its next call, or at the end, and  *)
(* has no timer.                                                            *)
LEMMA FiberTyped ==
  ASSUME HookIInv
  PROVE  FiberTypes
BY Zenon DEF HookIInv, Types, FiberTypes

(* A call returns: the fiber is before its next call or at its end, and has *)
(* no timer.                                                                *)
LEMMA ReturnTypes ==
  ASSUME HookIInv, NEW f \in Fibers, NEW r, Return(f, r), newfd' \in [Fibers -> Numbers \cup {None}]
  PROVE  FiberTypes' /\ pos'[f] = pos[f] + 1 /\ pc'[f] = (IF pos[f] < Len(program[f]) THEN "begin" ELSE "end")
         /\ ~armed'[f] /\ ~due'[f] /\ ~cancelled'[f] /\ ~to'[f] /\ firing' = firing
<1>1. FiberTypes
  BY Zenon, FiberTyped
<1>2. pos' \in [Fibers -> Nat] /\ pos'[f] = pos[f] + 1
  BY <1>1 DEF FiberTypes, Return, DropTinfo
<1>3. pc' \in [Fibers -> Labels] /\ pc'[f] = (IF pos[f] < Len(program[f]) THEN "begin" ELSE "end")
  <2>1. (IF pos[f] < Len(program[f]) THEN "begin" ELSE "end") \in Labels
    BY DEF Labels
  <2> QED
    BY Zenon, <1>1, <2>1 DEF FiberTypes, Return, Goto
<1>4. race' \in [Fibers -> SUBSET {"early", "stale", "closing"}]
  BY Zenon, <1>1 DEF FiberTypes, Return, DropTinfo
<1>5. to' \in [Fibers -> BOOLEAN] /\ cancelled' \in [Fibers -> BOOLEAN] /\ ~to'[f] /\ ~cancelled'[f]
  BY Zenon, <1>1 DEF FiberTypes, Return, DropTinfo
<1>6. armed' \in [Fibers -> BOOLEAN] /\ due' \in [Fibers -> BOOLEAN] /\ ~armed'[f] /\ ~due'[f]
  BY Zenon, <1>1 DEF FiberTypes, Return, DropTinfo
<1> QED
  BY Zenon, <1>2, <1>3, <1>4, <1>5, <1>6 DEF FiberTypes, Return, DropTinfo

(* The other fibers do not notice.                                          *)
LEMMA ReturnStill ==
  ASSUME HookIInv, NEW f \in Fibers, NEW r, Return(f, r), NEW g \in Fibers, g # f, newfd'[g] = newfd[g]
  PROVE  Still(g)
BY Zenon, FiberTyped DEF FiberTypes, Return, DropTinfo, Goto, Still

(* A fiber that runs is not scheduled, and is in a call.                    *)
LEMMA NotQueued ==
  ASSUME HookIInv, NEW f \in Fibers, pc[f] \in Inside
  PROVE  f \notin queue /\ pos[f] \in 1..Len(program[f]) /\ ~Waiting(f)
<1>1. PlaceOK(f)
  BY Zenon DEF HookIInv
<1>2. pc[f] \notin Away \cup {"ready"} /\ pc[f] # "end"
  BY DEF Inside, Away
<1> QED
  BY Zenon, <1>1, <1>2 DEF PlaceOK, Waiting

(* What holds of a fiber whose call has returned.                           *)
LEMMA ReturnOK ==
  ASSUME HookIInv, NEW f \in Fibers, pc[f] \in Inside, NEW r, Return(f, r),
         newfd' \in [Fibers -> Numbers \cup {None}], program' = program, queue' = queue
  PROVE  /\ PlaceOK(f)' /\ WakeOK(f)'
         /\ \A k \in firing : k.fiber = f => CallbackOK(k)'
         /\ pc'[f] \in {"begin", "end"}
<1>1. f \notin queue /\ pos[f] \in 1..Len(program[f])
  BY Zenon, NotQueued
<1>2. pos'[f] = pos[f] + 1 /\ pc'[f] = (IF pos[f] < Len(program[f]) THEN "begin" ELSE "end")
      /\ ~armed'[f] /\ ~due'[f] /\ ~cancelled'[f] /\ ~to'[f]
  BY Zenon, ReturnTypes
<1>3. pc'[f] \in {"begin", "end"} /\ (pc'[f] # "end" => pos[f] < Len(program[f]))
  BY <1>2
<1>4. Len(program[f]) \in Nat
  <2>1. program[f] \in Seq(Calls)
    BY HookAssumption DEF HookIInv, Types
  <2> QED
    BY <2>1
<1>5. pc'[f] # "end" => pos'[f] \in 1..Len(program'[f])
  <2> DEFINE L == Len(program[f])
  <2>1. L \in Nat /\ pos[f] \in 1..L /\ (pc'[f] # "end" => pos[f] < L)
    BY Zenon, <1>1, <1>3, <1>4
  <2> HIDE DEF L
  <2>2. pc'[f] # "end" => pos[f] + 1 \in 1..L
    BY <2>1
  <2> QED
    BY Zenon, <2>2, <1>2 DEF L
<1>6. pc'[f] \notin Away \cup {"try", "arm", "add", "test", "getsockopt", "woken", "del", "close_f", "get"}
  BY <1>3 DEF Away
<1>7. PlaceOK(f)'
  BY Zenon, <1>1, <1>2, <1>5, <1>6 DEF PlaceOK, Away
<1>8. WakeOK(f)'
  BY Zenon, <1>1, <1>2, <1>6 DEF WakeOK, Waiting
<1>9. ASSUME NEW k \in firing, k.fiber = f PROVE CallbackOK(k)'
  <2>1. k.pos <= pos[f] /\ k.pos \in Nat /\ pos[f] \in Nat
    BY <1>9 DEF HookIInv, Types, CallbackOK
  <2>2. k.pos <= pos'[f] /\ k.pos # pos'[f]
    BY <2>1, <1>2
  <2> QED
    BY Zenon, <2>2, <1>9 DEF CallbackOK
<1> QED
  BY Zenon, <1>3, <1>7, <1>8, <1>9

(* Moves outside of close and of the opening of a number.                   *)
Calm == Inside \ {"del", "close_f", "get"}
SameContexts ==
  /\ m_datas' \in [Numbers -> Contexts \cup {None}]
  /\ \A n \in Numbers : m_datas'[n] = None <=> m_datas[n] = None

(* Who opens or closes a number is the same after such a step.              *)
LEMMA SameClosing ==
  ASSUME NEW f \in Fibers, \A g \in Fibers \ {f} : Still(g), program' = program, pc[f] \notin {"del", "close_f", "get"},
         pc'[f] \notin {"del", "close_f", "get"}
  PROVE  \A n : Closing(n)' = Closing(n) /\ Getting(n)' = Getting(n)
<1>1. ASSUME NEW g \in Fibers, g # f
      PROVE  pc'[g] = pc[g] /\ call(g)' = call(g) /\ newfd'[g] = newfd[g]
  BY Zenon, <1>1 DEF Still, call
<1> QED
  BY Zenon, <1>1 DEF Closing, Getting

(* Such a step keeps the invariant, if the fiber stays right.               *)
LEMMA CalmIInv ==
  ASSUME HookIInv, NEW f \in Fibers,
         UNCHANGED <<program, workers, queue, events, waiter, interest, firing, socket, opened>>,
         \A g \in Fibers \ {f} : Still(g), FiberTypes', SameContexts,
         pc[f] \in Calm, pc'[f] \in Calm \cup {"end"}, PlaceOK(f)', WakeOK(f)',
         \A k \in firing : k.fiber = f => CallbackOK(k)'
  PROVE  HookIInv'
<1>1. pc[f] \notin {"del", "close_f", "get"} /\ pc'[f] \notin {"del", "close_f", "get"}
      /\ pc[f] \in Inside /\ pc'[f] \in Inside \cup {"end"}
  BY DEF Calm
<1>2. \A n : Closing(n)' = Closing(n) /\ Getting(n)' = Getting(n)
  BY Zenon, <1>1, SameClosing
<1>3. \A n \in Numbers : ContextOK(n)'
  BY Zenon, <1>2 DEF HookIInv, ContextOK, SameContexts
<1>4. \A n \in Numbers : Held2(n) => Held2(n)'
  BY Zenon, <1>2 DEF Held2, SameContexts
<1>5. Moves(f)
  BY Zenon, <1>1, <1>3, <1>4 DEF Moves, SameContexts
<1> QED
  BY Zenon, <1>5, MovesIInv

(* The contexts stay as they are.                                           *)
LEMMA SameContextsKept ==
  ASSUME HookIInv, m_datas' = m_datas
  PROVE  SameContexts
BY Zenon DEF HookIInv, Types, SameContexts

(* A fiber returns from a call that leaves events and sockets alone.        *)
LEMMA ReturnIInv ==
  ASSUME HookIInv, NEW f \in Fibers, pc[f] \in Calm, NEW r, Return(f, r), SameContexts,
         UNCHANGED <<program, workers, newfd, eventVars, socket, opened>>
  PROVE  HookIInv'
<1>0. UNCHANGED <<program, workers, newfd, queue, events, waiter, interest, socket, opened>>
  BY Zenon DEF eventVars
<1>1. pc[f] \in Inside
  BY DEF Calm
<1>2. newfd' \in [Fibers -> Numbers \cup {None}]
  BY Zenon, <1>0 DEF HookIInv, Types
<1>3. FiberTypes' /\ firing' = firing
  BY Zenon, <1>2, ReturnTypes
<1>4. PlaceOK(f)' /\ WakeOK(f)' /\ (\A k \in firing : k.fiber = f => CallbackOK(k)') /\ pc'[f] \in {"begin", "end"}
  BY Zenon, <1>0, <1>1, <1>2, ReturnOK
<1>5. \A g \in Fibers \ {f} : Still(g)
  BY Zenon, <1>0, ReturnStill
<1>6. pc'[f] \in Calm \cup {"end"}
  BY <1>4 DEF Calm, Inside, Labels
<1> QED
  BY Zenon, <1>0, <1>3, <1>4, <1>5, <1>6, CalmIInv

(* A fiber goes on with its call.                                           *)
LEMMA GoIInv ==
  ASSUME HookIInv, NEW f \in Fibers, pc[f] \in Calm, Goto(f, pc'[f]),
         pc'[f] \in {"direct", "try", "arm", "add", "test", "getsockopt"}, call(f).op \in WaitCalls,
         UNCHANGED <<program, workers, newfd, pos, race, cancelled, due, firing, eventVars, socket, opened, m_datas>>,
         to' \in [Fibers -> BOOLEAN], armed' \in [Fibers -> BOOLEAN],
         \A g \in Fibers \ {f} : to'[g] = to[g] /\ armed'[g] = armed[g],
         armed'[f] => pc'[f] = "add", due[f] \/ cancelled[f] => pc'[f] \in InCall,
         pc'[f] = "add" /\ to'[f] => armed'[f],
         cancelled[f] /\ pc[f] \in {"woken", "test", "getsockopt"} => pc'[f] \in {"test", "getsockopt"}
  PROVE  HookIInv'
<1>0. UNCHANGED <<program, workers, newfd, pos, race, cancelled, due, firing, queue, events, waiter, interest, socket, opened>>
  BY Zenon DEF eventVars
<1>1. pc[f] \in Inside
  BY DEF Calm
<1>2. f \notin queue /\ pos[f] \in 1..Len(program[f])
  BY Zenon, <1>1, NotQueued
<1>3. FiberTypes'
  <2>1. pc' \in [Fibers -> Labels]
    <3>1. pc'[f] \in Labels
      BY DEF Labels
    <3> QED
      BY Zenon, <3>1, FiberTyped DEF Goto, FiberTypes
  <2> QED
    BY Zenon, <2>1, <1>0, FiberTyped DEF FiberTypes
<1>4. \A g \in Fibers \ {f} : Still(g)
  BY Zenon, <1>0, FiberTyped DEF Still, Goto, FiberTypes
<1>5. call(f)' = call(f) /\ event(call(f))' = event(call(f))
  BY Zenon, <1>0 DEF call, event
<1>6. pc'[f] \notin Away \cup {"ready", "end", "woken", "del", "close_f", "get"} /\ "sleep" \notin WaitCalls
  BY DEF Away, WaitCalls, IoCalls
<1>7. PlaceOK(f)'
  BY Zenon, <1>0, <1>2, <1>5, <1>6 DEF PlaceOK, Waiting, Away
<1>8. WakeOK(f)'
  <2>1. WakeOK(f)
    BY Zenon DEF HookIInv
  <2>2. \A k : Same(f, k)' = Same(f, k)
    BY Zenon, <1>0 DEF Same
  <2>3. ~Waiting(f)'
    BY Zenon, <1>6 DEF Waiting
  <2> QED
    BY Zenon, <2>1, <2>2, <2>3, <1>0, <1>2 DEF WakeOK
<1>9. ASSUME NEW k \in firing, k.fiber = f PROVE CallbackOK(k)'
  <2>1. CallbackOK(k)
    BY Zenon DEF HookIInv
  <2> QED
    BY Zenon, <2>1, <1>0, <1>5, <1>9 DEF CallbackOK
<1>10. pc'[f] \in Calm \cup {"end"}
  BY DEF Calm, Inside, Labels
<1>11. SameContexts
  BY Zenon, SameContextsKept
<1> QED
  BY Zenon, <1>0, <1>3, <1>4, <1>7, <1>8, <1>9, <1>10, <1>11, CalmIInv

-----------------------------------------------------------------------------
(* The steps of a call that touch no event and open or close no number.     *)
LEMMA CalmLabels ==
  /\ "begin" \in Calm /\ "direct" \in Calm /\ "try" \in Calm /\ "arm" \in Calm /\ "add" \in Calm
  /\ "woken" \in Calm /\ "test" \in Calm /\ "getsockopt" \in Calm
BY DEF Calm, Inside, Labels

(* The number is closed already (socket.cc:435-444).                        *)
LEMMA goneIInv ==
  ASSUME HookIInv, NEW f \in Fibers, gone(f)
  PROVE  HookIInv'
BY Zenon, ReturnIInv, SameContextsKept, CalmLabels DEF gone, Running, kernelVars

(* connect asks for SO_ERROR and returns.                                   *)
LEMMA getsockoptIInv ==
  ASSUME HookIInv, NEW f \in Fibers, getsockopt(f)
  PROVE  HookIInv'
BY Zenon, ReturnIInv, SameContextsKept, CalmLabels DEF getsockopt, Running, kernelVars

(* Before a call a fiber has no timer.                                      *)
LEMMA IdleBegin ==
  ASSUME HookIInv, NEW f \in Fibers, pc[f] \in {"begin", "direct"}
  PROVE  ~armed[f] /\ ~due[f] /\ ~cancelled[f]
<1>1. PlaceOK(f)
  BY Zenon DEF HookIInv
<1>2. pc[f] \notin Away \cup {"add", "woken"} /\ pc[f] \notin InCall
  BY DEF Away, InCall
<1> QED
  BY Zenon, <1>1, <1>2 DEF PlaceOK

(* While it has none, none can be due.                                      *)
LEMMA Disarmed ==
  ASSUME HookIInv, NEW f \in Fibers, pc[f] \in {"begin", "direct", "try", "arm", "test", "getsockopt"}
  PROVE  ~armed[f]
<1>1. PlaceOK(f)
  BY Zenon DEF HookIInv
<1>2. pc[f] \notin Away \cup {"add", "woken"}
  BY DEF Away
<1> QED
  BY Zenon, <1>1, <1>2 DEF PlaceOK

(* do_io looks at the context of its number.                                *)
LEMMA do_ioIInv ==
  ASSUME HookIInv, NEW f \in Fibers, do_io(f)
  PROVE  HookIInv'
<1>1. pc[f] = "begin" /\ pc[f] \in Calm /\ call(f).op \in WaitCalls
  BY Zenon, CalmLabels DEF do_io, Running, WaitCalls
<1>2. ~armed[f] /\ ~due[f] /\ ~cancelled[f]
  BY Zenon, <1>1, IdleBegin
<1>3. Types /\ f \in DOMAIN pc /\ f \in DOMAIN to
  BY Zenon DEF HookIInv, Types
<1>4. UNCHANGED <<program, workers, pos, race, newfd, cancelled, armed, due, firing, eventVars, socket, opened, m_datas>>
  BY Zenon DEF do_io, timerVars, kernelVars
<1>5. Goto(f, pc'[f]) /\ pc'[f] \in {"try", "direct"} /\ to' \in [Fibers -> BOOLEAN] /\ \A g \in Fibers \ {f} : to'[g] = to[g]
  <2> DEFINE n == call(f).fd
  <2>1. CASE Hooked(n)
    <3>1. m_datas[n].m_timeout \in BOOLEAN
      <4>1. n \in Numbers
        <5>1. pos[f] \in 1..Len(program[f]) /\ program[f] \in Seq(Calls)
          BY SMTT(60), <1>1, NotQueued, HookAssumption DEF Calm, HookIInv, Types
        <5>2. call(f) \in Calls
          BY <5>1 DEF call
        <5> QED
          BY <5>2 DEF Calls
      <4>2. m_datas[n] \in Contexts
        BY Zenon, <4>1, <2>1, <1>3 DEF Hooked, Types
      <4> QED
        BY <4>2 DEF Contexts
    <3>2. Goto(f, "try") /\ to' = [to EXCEPT ![f] = m_datas[n].m_timeout]
      BY Zenon, <2>1 DEF do_io
    <3>3. pc'[f] = "try"
      BY Zenon, <3>2, <1>3 DEF Goto
    <3> QED
      BY Zenon, <3>1, <3>2, <3>3, <1>3 DEF Types
  <2>2. CASE ~Hooked(n)
    <3>1. Goto(f, "direct") /\ to' = to
      BY Zenon, <2>2 DEF do_io
    <3>2. pc'[f] = "direct"
      BY Zenon, <3>1, <1>3 DEF Goto
    <3> QED
      BY Zenon, <3>1, <3>2, <1>3 DEF Types
  <2> QED
    BY Zenon, <2>1, <2>2
<1>6. pc'[f] \in {"direct", "try", "arm", "add", "test", "getsockopt"} /\ pc'[f] # "add"
      /\ pc[f] \notin {"woken", "test", "getsockopt"}
  BY <1>5, <1>1
<1> QED
  BY Zenon, <1>1, <1>2, <1>3, <1>4, <1>5, <1>6, GoIInv DEF Types

(* addConditionTimer.                                                       *)
LEMMA armIInv ==
  ASSUME HookIInv, NEW f \in Fibers, arm(f)
  PROVE  HookIInv'
<1>1. pc[f] = "arm" /\ pc[f] \in Calm /\ call(f).op \in WaitCalls
  BY Zenon, CalmLabels DEF arm, Running, HookIInv, PlaceOK
<1>2. Types
  BY Zenon DEF HookIInv
<1>3. UNCHANGED <<program, workers, pos, to, race, newfd, cancelled, due, firing, eventVars, socket, opened, m_datas>>
  BY Zenon DEF arm, kernelVars
<1>4. pc'[f] = "add" /\ Goto(f, pc'[f]) /\ armed' \in [Fibers -> BOOLEAN] /\ armed'[f] = to[f]
      /\ \A g \in Fibers \ {f} : armed'[g] = armed[g]
  BY Zenon, <1>2 DEF Types, arm, Goto
<1>5. "add" \in InCall /\ "add" \in {"direct", "try", "arm", "add", "test", "getsockopt"}
      /\ "arm" \notin {"woken", "test", "getsockopt"}
  BY DEF InCall
<1>6. to' \in [Fibers -> BOOLEAN] /\ to'[f] = to[f] /\ \A g \in Fibers \ {f} : to'[g] = to[g]
  BY Zenon, <1>2, <1>3 DEF Types
<1> QED
  BY Zenon, <1>1, <1>3, <1>4, <1>5, <1>6, GoIInv

(* The fiber is woken and cancels its timer.                                *)
LEMMA wokenIInv ==
  ASSUME HookIInv, NEW f \in Fibers, woken(f)
  PROVE  HookIInv'
<1>1. pc[f] = "woken" /\ pc[f] \in Calm /\ call(f).op \in WaitCalls \cup {"sleep"}
  BY Zenon, CalmLabels DEF woken, Running, HookIInv, PlaceOK
<1>2. CASE call(f).op = "sleep"
  BY Zenon, <1>1, <1>2, ReturnIInv, SameContextsKept DEF woken, kernelVars
<1>3. CASE call(f).op # "sleep"
  <2>1. Types
    BY Zenon DEF HookIInv
  <2>2. UNCHANGED <<program, workers, pos, to, race, newfd, cancelled, due, firing, eventVars, socket, opened, m_datas>>
    BY Zenon, <1>3 DEF woken, kernelVars
  <2>3. pc'[f] = "test" /\ Goto(f, pc'[f]) /\ armed' \in [Fibers -> BOOLEAN] /\ ~armed'[f]
        /\ \A g \in Fibers \ {f} : armed'[g] = armed[g]
    BY Zenon, <1>3, <2>1 DEF Types, woken, Goto
  <2>4. "test" \in InCall /\ "test" \in {"direct", "try", "arm", "add", "test", "getsockopt"} /\ "test" # "add"
        /\ "test" \in {"test", "getsockopt"}
    BY DEF InCall
  <2>5. to' \in [Fibers -> BOOLEAN] /\ \A g \in Fibers \ {f} : to'[g] = to[g]
    BY Zenon, <2>1, <2>2 DEF Types
  <2> QED
    BY Zenon, <1>1, <1>3, <2>2, <2>3, <2>4, <2>5, GoIInv
<1> QED
  BY Zenon, <1>2, <1>3

(* The test of tinfo->cancelled.                                            *)
LEMMA testIInv ==
  ASSUME HookIInv, NEW f \in Fibers, test(f)
  PROVE  HookIInv'
<1>1. pc[f] = "test" /\ pc[f] \in Calm /\ call(f).op \in WaitCalls
  BY Zenon, CalmLabels DEF test, Running, HookIInv, PlaceOK
<1>2. CASE cancelled[f]
  BY Zenon, <1>1, <1>2, ReturnIInv, SameContextsKept DEF test, kernelVars
<1>3. CASE ~cancelled[f]
  <2>1. Types /\ ~armed[f]
    BY Zenon, <1>1, Disarmed DEF HookIInv
  <2>2. UNCHANGED <<program, workers, pos, to, race, newfd, armed, cancelled, due, firing, eventVars, socket, opened, m_datas>>
    BY Zenon, <1>3 DEF test, kernelVars, timerVars
  <2>3. pc'[f] = (IF call(f).op = "connect" THEN "getsockopt" ELSE "try") /\ Goto(f, pc'[f])
    BY Zenon, <1>3, <2>1 DEF Types, test, Goto
  <2>4. pc'[f] \in InCall /\ pc'[f] \in {"direct", "try", "arm", "add", "test", "getsockopt"} /\ pc'[f] # "add"
    BY <2>3 DEF InCall
  <2>5. to' \in [Fibers -> BOOLEAN] /\ armed' \in [Fibers -> BOOLEAN]
        /\ \A g \in Fibers \ {f} : to'[g] = to[g] /\ armed'[g] = armed[g]
    BY Zenon, <2>1, <2>2 DEF Types
  <2> QED
    BY Zenon, <1>1, <1>3, <2>1, <2>2, <2>3, <2>4, <2>5, GoIInv
<1> QED
  BY Zenon, <1>2, <1>3

(* The call a fiber is in.                                                  *)
LEMMA CallTyped ==
  ASSUME HookIInv, NEW f \in Fibers, pc[f] # "end"
  PROVE  call(f) \in Calls /\ call(f).fd \in Numbers /\ call(f).op \in Ops /\ call(f).on \in BOOLEAN
         /\ pos[f] \in DOMAIN program[f]
<1>1. PlaceOK(f)
  BY Zenon DEF HookIInv
<1>2. pos[f] \in 1..Len(program[f]) /\ program[f] \in Seq(Calls)
  BY <1>1, HookAssumption DEF PlaceOK, HookIInv, Types
<1>3. call(f) \in Calls /\ pos[f] \in DOMAIN program[f]
  BY <1>2 DEF call
<1> QED
  BY <1>3 DEF Calls

(* connect_with_timeout up to its wait.                                     *)
LEMMA connectIInv ==
  ASSUME HookIInv, NEW f \in Fibers, connect(f)
  PROVE  HookIInv'
<1>1. pc[f] = "begin" /\ pc[f] \in Calm /\ call(f).op \in WaitCalls
  <2>1. "connect" \in WaitCalls
    BY DEF WaitCalls
  <2> QED
    BY Zenon, <2>1, CalmLabels DEF connect, Running
<1>2. UNCHANGED <<program, workers, newfd, eventVars, socket, opened, m_datas>>
  BY Zenon DEF connect
<1>3. SameContexts
  BY Zenon, <1>2, SameContextsKept
<1>4. CASE Return(f, "EBADF") \/ Return(f, "ok")
  BY Zenon, <1>1, <1>2, <1>3, <1>4, ReturnIInv
<1>5. CASE Goto(f, "arm") /\ to' = [to EXCEPT ![f] = TRUE] /\ UNCHANGED <<pos, answer, race, timerVars>>
  <2>1. Types /\ ~armed[f] /\ ~due[f] /\ ~cancelled[f]
    BY Zenon, <1>1, IdleBegin DEF HookIInv
  <2>2. UNCHANGED <<pos, race, cancelled, armed, due, firing>>
    BY Zenon, <1>5 DEF timerVars
  <2>3. pc'[f] = "arm" /\ Goto(f, pc'[f]) /\ to' \in [Fibers -> BOOLEAN] /\ \A g \in Fibers \ {f} : to'[g] = to[g]
    BY Zenon, <1>5, <2>1 DEF Types, Goto
  <2>4. "arm" \in {"direct", "try", "arm", "add", "test", "getsockopt"} /\ "arm" # "add"
    OBVIOUS
  <2>5. armed' \in [Fibers -> BOOLEAN] /\ ~armed'[f] /\ \A g \in Fibers \ {f} : armed'[g] = armed[g]
    BY Zenon, <2>1, <2>2 DEF Types
  <2> QED
    BY Zenon, <1>1, <1>2, <2>1, <2>2, <2>3, <2>4, <2>5, GoIInv
<1> QED
  BY Zenon, <1>4, <1>5 DEF connect

(* setsockopt(SO_RCVTIMEO) sets the timeout of a context.                   *)
LEMMA setsockoptIInv ==
  ASSUME HookIInv, NEW f \in Fibers, setsockopt(f)
  PROVE  HookIInv'
<1>1. Types /\ None \notin Contexts
  BY Zenon, HookAssumption DEF HookIInv, Contexts
<1>2. ASSUME NEW c \in Contexts
      PROVE  [c EXCEPT !.m_timeout = TRUE] \in Contexts
  BY ZenonT(60), <1>2 DEF Contexts
<1>3. ASSUME NEW n \in Numbers
      PROVE  m_datas'[n] \in Contexts \cup {None} /\ (m_datas'[n] = None <=> m_datas[n] = None)
  <2>1. m_datas[n] \in Contexts \cup {None}
    BY Zenon, <1>1 DEF Types
  <2>2. m_datas'[n] = IF n = call(f).fd /\ m_datas[n] # None THEN [m_datas[n] EXCEPT !.m_timeout = TRUE] ELSE m_datas[n]
    BY Zenon DEF setsockopt
  <2> DEFINE c == [m_datas[n] EXCEPT !.m_timeout = TRUE]
  <2>3. m_datas[n] # None => c \in Contexts
    BY Zenon, <2>1, <1>2
  <2> HIDE DEF c
  <2> QED
    BY Zenon, <2>1, <2>2, <2>3, <1>1 DEF c
<1>4. SameContexts
  <2>1. m_datas' \in [Numbers -> Contexts \cup {None}]
    <3>1. m_datas' = [n \in Numbers |-> m_datas'[n]]
      BY Zenon DEF setsockopt
    <3> QED
      BY Zenon, <3>1, <1>3
  <2> QED
    BY Zenon, <2>1, <1>3 DEF SameContexts
<1> QED
  BY Zenon, <1>4, ReturnIInv, CalmLabels DEF setsockopt, Running, kernelVars

(* fcntl and ioctl set the flag of the user.                                *)
LEMMA SetNonblockIInv ==
  ASSUME HookIInv, NEW f \in Fibers, NEW op, NEW b, SetNonblock(f, op, b)
  PROVE  HookIInv'
<1> DEFINE n == call(f).fd
           sock == m_datas[n] # None /\ m_datas[n].m_isSocket
<1>1. Types /\ None \notin Contexts
  BY Zenon, HookAssumption DEF HookIInv, Contexts
<1>2. pc[f] = "begin" /\ "begin" # "end"
  BY DEF SetNonblock, Running
<1>3. n \in Numbers /\ call(f).on \in BOOLEAN
  BY Zenon, <1>2, CallTyped
<1>4. ASSUME NEW c \in Contexts, NEW x \in BOOLEAN
      PROVE  [c EXCEPT !.m_userNonblock = x] \in Contexts
  BY <1>4 DEF Contexts
<1>5. m_datas' = IF sock THEN [m_datas EXCEPT ![n] = [m_datas[n] EXCEPT !.m_userNonblock = call(f).on]] ELSE m_datas
  BY Zenon DEF SetNonblock
<1>6. ASSUME sock PROVE SameContexts
  <2> DEFINE c == [m_datas[n] EXCEPT !.m_userNonblock = call(f).on]
  <2>1. c \in Contexts
    BY Zenon, <1>6, <1>1, <1>3, <1>4 DEF Types
  <2>2. m_datas' = [m_datas EXCEPT ![n] = c]
    BY Zenon, <1>5, <1>6
  <2> HIDE DEF c, n
  <2>3. m_datas' \in [Numbers -> Contexts \cup {None}] /\ m_datas'[n] = c
    BY Zenon, <2>1, <2>2, <1>1, <1>3 DEF Types
  <2>4. \A m \in Numbers \ {n} : m_datas'[m] = m_datas[m]
    BY Zenon, <2>2, <1>1 DEF Types
  <2> QED
    BY Zenon, <2>1, <2>3, <2>4, <1>1, <1>6 DEF SameContexts
<1>7. ASSUME ~sock PROVE SameContexts
  BY Zenon, <1>5, <1>7, SameContextsKept
<1>8. SameContexts
  BY Zenon, <1>6, <1>7
<1> QED
  BY Zenon, <1>8, ReturnIInv, CalmLabels DEF SetNonblock, Running

-----------------------------------------------------------------------------
(* socket() and accept() open a number: nobody has it, and a fiber that is  *)
(* left as the waiter of the number was passed over by a close.             *)
LEMMA OpenIInv ==
  ASSUME HookIInv, NEW f \in Fibers, pc[f] \in Calm, NEW n \in FreeNumber, NEW state, Open(f, n, state),
         UNCHANGED <<program, workers, pos, firing, eventVars, m_datas>>, FiberTypes',
         \A g \in Fibers \ {f} : Still(g), ~armed'[f], ~due'[f], ~cancelled'[f]
  PROVE  HookIInv'
<1>0. UNCHANGED <<program, workers, pos, firing, queue, events, waiter, interest, m_datas>>
  BY Zenon DEF eventVars
<1>1. pc[f] \in Inside /\ pc[f] \notin {"del", "close_f", "get"} /\ pc'[f] = "get" /\ newfd'[f] = n
  BY FiberTyped DEF Calm, Open, Goto, FiberTypes
<1>2. f \notin queue /\ pos[f] \in 1..Len(program[f])
  BY Zenon, <1>1, NotQueued
<1>3. n \in Numbers /\ socket[n] = 0 /\ opened \in Sockets /\ opened < MaxSockets
      /\ opened' = opened + 1 /\ socket' = [socket EXCEPT ![n] = opened + 1]
  BY Zenon DEF FreeNumber, Open, HookIInv, Types
<1>4. MaxSockets \in Nat /\ socket \in [Numbers -> 0..MaxSockets]
  BY Zenon, HookAssumption DEF HookIInv, Types
<1>5. opened \in Nat /\ opened + 1 \in Sockets /\ opened + 1 \in 0..MaxSockets /\ opened + 1 # 0 /\ opened + 1 > opened
  BY <1>3, <1>4 DEF Sockets
<1>6. socket' \in [Numbers -> 0..MaxSockets] /\ socket'[n] = opened + 1 /\ \A m \in Numbers \ {n} : socket'[m] = socket[m]
  BY Zenon, <1>3, <1>4, <1>5
<1>7. Types'
  BY Zenon, <1>0, <1>3, <1>5, <1>6 DEF HookIInv, Types, FiberTypes, Sockets
<1>8. SocketOK
  BY Zenon DEF HookIInv
<1>9. \A m \in Numbers : socket[m] \in Nat /\ socket[m] <= opened
  BY <1>4, <1>8 DEF SocketOK
<1>10. SocketOK'
  <2>1. \A m \in Numbers \ {n} : socket'[m] # opened + 1
    BY <1>5, <1>6, <1>9
  <2>2. \A m \in Numbers : socket'[m] <= opened'
    BY <1>3, <1>5, <1>6, <1>9
  <2>3. \A s \in Sockets : s > opened' => s > opened
    BY <1>3, <1>5 DEF Sockets
  <2>4. ASSUME NEW m1 \in Numbers, NEW m2 \in Numbers, socket'[m1] = socket'[m2], socket'[m1] # 0 PROVE m1 = m2
    BY Zenon, <2>1, <2>4, <1>6, <1>8 DEF SocketOK
  <2> QED
    BY Zenon, <2>2, <2>3, <2>4, <1>0, <1>8 DEF SocketOK, Sockets
<1>11. \A g \in Fibers : PlaceOK(g)' /\ WakeOK(g)'
  <2>1. TAKE g \in Fibers
  <2>2. CASE g # f
    BY Zenon, <2>2, <1>0, StillOK DEF HookIInv
  <2>3. CASE g = f
    <3>1. pc'[f] \notin Away \cup {"try", "arm", "add", "test", "getsockopt", "woken", "del", "close_f", "end"}
      BY <1>1 DEF Away
    <3>2. PlaceOK(f)'
      BY Zenon, <3>1, <1>0, <1>1, <1>2, <1>3 DEF PlaceOK, Away
    <3>3. WakeOK(f)'
      BY Zenon, <3>1 DEF WakeOK, Waiting
    <3> QED
      BY ZenonT(60), <3>2, <3>3, <2>3
  <2> QED
    BY Zenon, <2>2, <2>3
<1>12. \A k \in firing' : CallbackOK(k)'
  BY Zenon, <1>0 DEF HookIInv, CallbackOK, call, event
<1>13. \A m : Closing(m)' = Closing(m) /\ (Getting(m) => Getting(m)')
  <2>1. ASSUME NEW g \in Fibers, g # f
        PROVE  pc'[g] = pc[g] /\ call(g)' = call(g) /\ newfd'[g] = newfd[g]
    BY Zenon, <2>1 DEF Still, call
  <2>2. pc'[f] \notin {"del", "close_f"}
    BY <1>1
  <2> QED
    BY ZenonT(60), <2>1, <2>2, <1>1 DEF Closing, Getting
<1>14. \A m \in Numbers : ContextOK(m)' /\ InterestOK(m)'
  <2>1. TAKE m \in Numbers
  <2>2. CASE m = n
    <3>1. Getting(n)'
      BY Zenon, <1>1 DEF Getting
    <3>2. interest[opened + 1] = {}
      BY Zenon, <1>5, <1>8 DEF SocketOK
    <3> QED
      BY Zenon, <3>1, <3>2, <2>2, <1>0, <1>6 DEF ContextOK, InterestOK
  <2>3. CASE m # n
    BY Zenon, <2>3, <1>0, <1>6, <1>13 DEF HookIInv, ContextOK, InterestOK
  <2> QED
    BY Zenon, <2>2, <2>3
<1>15. \A m \in Numbers : \A e \in Event : WaiterOK(m, e)'
  <2>1. TAKE m \in Numbers
  <2>2. TAKE e \in Event
  <2>3. WaiterOK(m, e)
    BY Zenon DEF HookIInv
  <2>4. waiter[m][e] # None => Still(waiter[m][e])
    <3>1. waiter[m][e] \in Fibers \cup {None}
      BY DEF HookIInv, Types
    <3>2. waiter[m][e] # None => pc[waiter[m][e]] \in Away
      BY Zenon, <2>3 DEF WaiterOK, Waiting
    <3>3. pc[f] \notin Away
      BY <1>1 DEF Inside, Away
    <3> QED
      BY ZenonT(60), <3>1, <3>2, <3>3
  <2>5. Clean(m, e) => Clean(m, e)'
    BY Zenon, <1>0, <1>3, <1>6, <1>13 DEF Clean, Watched
  <2> QED
    BY Zenon, <2>3, <2>4, <2>5, <1>0, WaiterStill
<1> QED
  BY Zenon, <1>7, <1>10, <1>11, <1>12, <1>14, <1>15 DEF HookIInv

(* The types of what it changes.                                            *)
LEMMA OpenTypes ==
  ASSUME HookIInv, NEW f \in Fibers, NEW n \in FreeNumber, NEW state, Open(f, n, state)
  PROVE  pc' \in [Fibers -> Labels] /\ newfd' \in [Fibers -> Numbers \cup {None}]
         /\ \A g \in Fibers \ {f} : pc'[g] = pc[g] /\ newfd'[g] = newfd[g]
<1>1. n \in Numbers /\ "get" \in Labels
  BY DEF FreeNumber, Labels
<1> QED
  BY Zenon, <1>1, FiberTyped DEF Open, Goto, FiberTypes

(* socket().                                                                *)
LEMMA socket_fIInv ==
  ASSUME HookIInv, NEW f \in Fibers, socket_f(f)
  PROVE  HookIInv'
<1>1. pc[f] = "begin" /\ pc[f] \in Calm
  BY Zenon, CalmLabels DEF socket_f, Running
<1>2. CASE FreeNumber = {} /\ Return(f, "EMFILE") /\ UNCHANGED <<newfd, socket, conn, opened>>
  BY Zenon, <1>1, <1>2, ReturnIInv, SameContextsKept DEF socket_f
<1>3. ASSUME NEW n \in FreeNumber, Open(f, n, "none"), UNCHANGED <<pos, answer, to, race, timerVars>>
      PROVE  HookIInv'
  <2>1. UNCHANGED <<program, workers, pos, to, race, cancelled, armed, due, firing, eventVars, m_datas>>
    BY Zenon, <1>3 DEF timerVars, socket_f
  <2>2. FiberTypes' /\ \A g \in Fibers \ {f} : Still(g)
    BY Zenon, <2>1, <1>3, OpenTypes, FiberTyped DEF FiberTypes, Still
  <2>3. ~armed'[f] /\ ~due'[f] /\ ~cancelled'[f]
    BY Zenon, <2>1, <1>1, IdleBegin
  <2> QED
    BY ZenonT(60), <2>1, <2>2, <2>3, <1>1, <1>3, OpenIInv
<1> QED
  BY Zenon, <1>2, <1>3 DEF socket_f

(* tinfo is gone: no timer is left.                                         *)
LEMMA DropTinfoTypes ==
  ASSUME HookIInv, NEW f \in Fibers, DropTinfo(f)
  PROVE  /\ race' \in [Fibers -> SUBSET {"early", "stale", "closing"}]
         /\ to' \in [Fibers -> BOOLEAN] /\ cancelled' \in [Fibers -> BOOLEAN]
         /\ armed' \in [Fibers -> BOOLEAN] /\ due' \in [Fibers -> BOOLEAN]
         /\ ~armed'[f] /\ ~due'[f] /\ ~cancelled'[f]
         /\ \A g \in Fibers \ {f} : /\ race'[g] = race[g] /\ to'[g] = to[g] /\ cancelled'[g] = cancelled[g]
                                    /\ armed'[g] = armed[g] /\ due'[g] = due[g]
BY ZenonT(60), FiberTyped DEF FiberTypes, DropTinfo

(* fun: it returns, or opens a number, or goes on to wait.                  *)
LEMMA funIInv ==
  ASSUME HookIInv, NEW f \in Fibers, NEW label \in {"direct", "try"}, NEW ACTION again, fun(f, label, again),
         (again /\ UNCHANGED <<newfd, kernelVars>>) => HookIInv'
  PROVE  HookIInv'
<1>1. pc[f] \in Calm
  BY CalmLabels DEF fun, Running
<1>2. UNCHANGED <<program, workers, eventVars, m_datas>>
  BY Zenon DEF fun
<1>3. CASE \E r \in {"EBADF", "ENOTCONN", "ok", "EMFILE"} : Return(f, r) /\ UNCHANGED <<newfd, socket, opened>>
  BY Zenon, <1>1, <1>2, <1>3, ReturnIInv, SameContextsKept
<1>4. ASSUME NEW n \in FreeNumber, Open(f, n, "up"), DropTinfo(f), UNCHANGED <<pos, answer>>
      PROVE  HookIInv'
  <2>1. firing' = firing
    BY Zenon, <1>4 DEF DropTinfo
  <2>2. FiberTypes' /\ \A g \in Fibers \ {f} : Still(g)
    BY ZenonT(60), <1>4, OpenTypes, DropTinfoTypes, FiberTyped DEF FiberTypes, Still
  <2>3. ~armed'[f] /\ ~due'[f] /\ ~cancelled'[f]
    BY Zenon, <1>4, DropTinfoTypes
  <2> QED
    BY Zenon, <2>1, <2>2, <2>3, <1>1, <1>2, <1>4, OpenIInv
<1>5. CASE again /\ UNCHANGED <<newfd, kernelVars>>
  BY Zenon, <1>5
<1>6. \/ \E r \in {"EBADF", "ENOTCONN", "ok", "EMFILE"} : Return(f, r) /\ UNCHANGED <<newfd, socket, opened>>
      \/ \E n \in FreeNumber : Open(f, n, "up") /\ DropTinfo(f) /\ UNCHANGED <<pos, answer>>
      \/ again /\ UNCHANGED <<newfd, kernelVars>>
  BY Zenon DEF fun, kernelVars
<1> QED
  BY Zenon, <1>3, <1>4, <1>5, <1>6

(* The system call without a context.                                       *)
LEMMA directIInv ==
  ASSUME HookIInv, NEW f \in Fibers, direct(f)
  PROVE  HookIInv'
<1>1. pc[f] \in Calm /\ UNCHANGED <<program, workers, eventVars, m_datas>>
  BY Zenon, CalmLabels DEF direct, fun, Running
<1>2. (Return(f, "EAGAIN") /\ UNCHANGED <<newfd, kernelVars>>) => HookIInv'
  BY Zenon, <1>1, ReturnIInv, SameContextsKept DEF kernelVars
<1>3. "direct" \in {"direct", "try"}
  OBVIOUS
<1> QED
  BY Zenon, <1>2, <1>3, funIInv DEF direct

(* The system call in do_io: with EAGAIN it goes on to wait.                *)
LEMMA tryIInv ==
  ASSUME HookIInv, NEW f \in Fibers, try(f)
  PROVE  HookIInv'
<1>1. pc[f] = "try" /\ pc[f] \in Calm /\ call(f).op \in WaitCalls /\ UNCHANGED <<program, workers, eventVars, m_datas>>
  BY Zenon, CalmLabels DEF try, fun, Running, WaitCalls
<1>2. ASSUME Goto(f, "arm"), UNCHANGED <<pos, answer, to, race, timerVars>>, UNCHANGED <<newfd, kernelVars>>
      PROVE  HookIInv'
  <2>1. Types /\ ~armed[f]
    BY Zenon, <1>1, Disarmed DEF HookIInv
  <2>2. UNCHANGED <<program, workers, pos, to, race, newfd, armed, cancelled, due, firing, eventVars, socket, opened, m_datas>>
    BY Zenon, <1>1, <1>2 DEF kernelVars, timerVars
  <2>3. pc'[f] = "arm" /\ Goto(f, pc'[f])
    BY Zenon, <1>2, <2>1 DEF Types, Goto
  <2>4. "arm" \in InCall /\ "arm" \in {"direct", "try", "arm", "add", "test", "getsockopt"} /\ "arm" # "add"
        /\ "try" \notin {"woken", "test", "getsockopt"}
    BY DEF InCall
  <2>5. to' \in [Fibers -> BOOLEAN] /\ armed' \in [Fibers -> BOOLEAN] /\ ~armed'[f]
        /\ \A g \in Fibers \ {f} : to'[g] = to[g] /\ armed'[g] = armed[g]
    BY Zenon, <2>1, <2>2 DEF Types
  <2> QED
    BY Zenon, <1>1, <2>2, <2>3, <2>4, <2>5, GoIInv
<1>3. "try" \in {"direct", "try"}
  OBVIOUS
<1>4. fun(f, "try", Goto(f, "arm") /\ UNCHANGED <<pos, answer, to, race, timerVars>>)
  BY Zenon DEF try
<1> QED
  BY Zenon, <1>2, <1>3, <1>4, funIInv

-----------------------------------------------------------------------------
(* FdManager::get after socket() or accept().                               *)
LEMMA getIInv ==
  ASSUME HookIInv, NEW f \in Fibers, get(f)
  PROVE  HookIInv'
<1> DEFINE n == newfd[f]
<1>0. UNCHANGED <<program, workers, queue, events, waiter, interest, socket, opened>>
  BY Zenon DEF get, eventVars
<1>1. pc[f] = "get" /\ pc[f] \in Inside
  BY DEF get, Running, Inside, Labels
<1>2. Types /\ n \in Numbers /\ None \notin Contexts
  BY Zenon, <1>1, HookAssumption DEF HookIInv, PlaceOK, Contexts
<1>3. newfd' \in [Fibers -> Numbers \cup {None}] /\ newfd'[f] = None /\ \A g \in Fibers \ {f} : newfd'[g] = newfd[g]
  BY Zenon, <1>2 DEF get, Types
<1>4. Return(f, "ok")
  BY Zenon DEF get
<1>5. FiberTypes' /\ firing' = firing
  BY Zenon, <1>3, <1>4, ReturnTypes
<1>6. PlaceOK(f)' /\ WakeOK(f)' /\ (\A k \in firing : k.fiber = f => CallbackOK(k)') /\ pc'[f] \in {"begin", "end"}
  BY Zenon, <1>0, <1>1, <1>3, <1>4, ReturnOK
<1>7. \A g \in Fibers \ {f} : Still(g)
  BY Zenon, <1>3, <1>4, ReturnStill
<1>8. pc'[f] \in Inside \cup {"end"} /\ pc'[f] \notin {"del", "close_f", "get"}
  BY <1>6 DEF Inside, Labels
<1>9. FdCtx(socket[n]) \in Contexts
  BY DEF FdCtx, Contexts
<1>10. m_datas' \in [Numbers -> Contexts \cup {None}] /\ m_datas'[n] # None /\ \A m \in Numbers \ {n} : m_datas'[m] = m_datas[m]
  <2>1. m_datas[n] # None => m_datas' = m_datas
    BY Zenon DEF get
  <2>2. m_datas[n] = None => m_datas' = [m_datas EXCEPT ![n] = FdCtx(socket[n])]
    BY Zenon DEF get
  <2> DEFINE c == FdCtx(socket[n])
  <2> HIDE DEF n, c
  <2>3. m_datas[n] = None => m_datas' = [m_datas EXCEPT ![n] = c] /\ c \in Contexts
    BY Zenon, <2>2, <1>9 DEF c
  <2> QED
    BY ZenonT(60), <2>1, <2>3, <1>2 DEF Types
<1>11. ASSUME NEW g \in Fibers, g # f
       PROVE  pc'[g] = pc[g] /\ call(g)' = call(g) /\ newfd'[g] = newfd[g]
  BY Zenon, <1>0, <1>7, <1>11 DEF Still, call
<1>12. \A m : Closing(m)' = Closing(m)
  <2>1. pc[f] \notin {"del", "close_f"} /\ pc'[f] \notin {"del", "close_f"}
    BY <1>1, <1>8
  <2> QED
    BY Zenon, <2>1, <1>11 DEF Closing
<1>13. \A m \in Numbers \ {n} : Getting(m) => Getting(m)'
  BY Zenon, <1>11 DEF Getting
<1>14. \A m \in Numbers : ContextOK(m)'
  BY Zenon, <1>0, <1>2, <1>10, <1>12, <1>13 DEF HookIInv, ContextOK
<1>15. \A m \in Numbers : Held2(m) => Held2(m)'
  BY Zenon, <1>2, <1>10, <1>12, <1>13 DEF Held2
<1>16. Moves(f)
  BY ZenonT(60), <1>0, <1>1, <1>5, <1>6, <1>7, <1>8, <1>10, <1>14, <1>15 DEF Moves
<1> QED
  BY Zenon, <1>16, MovesIInv

(* What a step of close does when it wakes nobody: the fiber is at del or   *)
(* at close_f.                                                              *)
LEMMA ClosingOK ==
  ASSUME HookIInv, NEW f \in Fibers, pc[f] \in {"begin", "del"}, NEW label \in {"del", "close_f"}, Goto(f, label),
         call(f).op = "close", UNCHANGED <<program, workers, pos, to, race, newfd, timerVars>>
  PROVE  /\ FiberTypes' /\ (\A g \in Fibers \ {f} : Still(g))
         /\ (f \notin queue' => PlaceOK(f)' /\ WakeOK(f)') /\ f \notin queue
         /\ (\A k \in firing : CallbackOK(k)') /\ pc'[f] = label /\ call(f)' = call(f) /\ firing' = firing
<1>0. UNCHANGED <<cancelled, armed, due, firing>>
  BY Zenon DEF timerVars
<1>1. pc[f] \in Inside /\ label \in Labels
  BY DEF Inside, Labels
<1>2. f \notin queue /\ pos[f] \in 1..Len(program[f])
  BY Zenon, <1>1, NotQueued
<1>3. pc' \in [Fibers -> Labels] /\ pc'[f] = label /\ \A g \in Fibers \ {f} : pc'[g] = pc[g]
  BY Zenon, <1>1, FiberTyped DEF FiberTypes, Goto
<1>4. FiberTypes' /\ \A g \in Fibers \ {f} : Still(g)
  BY Zenon, <1>0, <1>3, FiberTyped DEF FiberTypes, Still
<1>5. call(f)' = call(f)
  BY Zenon DEF call
<1>6. ~armed[f] /\ ~due[f] /\ ~cancelled[f]
  <2>1. PlaceOK(f)
    BY Zenon DEF HookIInv
  <2>2. pc[f] \notin Away \cup {"add", "woken"} /\ pc[f] \notin InCall
    BY DEF Away, InCall
  <2> QED
    BY Zenon, <2>1, <2>2 DEF PlaceOK
<1>7. pc'[f] \notin Away \cup {"try", "arm", "add", "test", "getsockopt", "woken", "get", "end"}
  BY <1>3 DEF Away
<1>8. ASSUME f \notin queue' PROVE PlaceOK(f)' /\ WakeOK(f)'
  <2>1. PlaceOK(f)'
    BY Zenon, <1>0, <1>2, <1>5, <1>6, <1>7, <1>8 DEF PlaceOK, Away
  <2>2. WakeOK(f)'
    BY Zenon, <1>0, <1>6, <1>7 DEF WakeOK, Waiting
  <2> QED
    BY Zenon, <2>1, <2>2
<1>9. \A k \in firing : CallbackOK(k)'
  BY Zenon, <1>0 DEF HookIInv, CallbackOK, call, event
<1> QED
  BY ZenonT(60), <1>0, <1>2, <1>3, <1>4, <1>5, <1>8, <1>9

(* FdManager::del.                                                          *)
LEMMA delIInv ==
  ASSUME HookIInv, NEW f \in Fibers, del(f)
  PROVE  HookIInv'
<1> DEFINE n == call(f).fd
<1>0. UNCHANGED <<program, workers, pos, to, race, newfd, timerVars, queue, events, waiter, interest, socket, opened>>
  BY Zenon DEF del, eventVars, kernelVars
<1>1. pc[f] = "del" /\ call(f).op = "close" /\ pc[f] \in Inside /\ "close_f" \in Inside /\ pc[f] # "end" /\ pc[f] # "get"
      /\ pc[f] \in {"begin", "del"} /\ "close_f" \in {"del", "close_f"}
  BY DEF del, Running, HookIInv, PlaceOK, Inside, Labels
<1>2. n \in Numbers /\ Types
  BY Zenon, <1>1, CallTyped DEF HookIInv
<1>3. Goto(f, "close_f") /\ m_datas' = [m_datas EXCEPT ![n] = None]
  BY Zenon DEF del
<1>4. m_datas' \in [Numbers -> Contexts \cup {None}] /\ \A m \in Numbers \ {n} : m_datas'[m] = m_datas[m]
  BY Zenon, <1>2, <1>3 DEF Types
<1>5. /\ FiberTypes' /\ (\A g \in Fibers \ {f} : Still(g)) /\ PlaceOK(f)' /\ WakeOK(f)'
      /\ (\A k \in firing : CallbackOK(k)') /\ pc'[f] = "close_f" /\ call(f)' = call(f) /\ firing' = firing
  BY Zenon, <1>0, <1>1, <1>3, ClosingOK
<1>6. ASSUME NEW g \in Fibers, g # f
      PROVE  pc'[g] = pc[g] /\ call(g)' = call(g) /\ newfd'[g] = newfd[g]
  BY ZenonT(60), <1>0, <1>5, <1>6 DEF Still, call
<1>7. pc[f] \in {"del", "close_f"} /\ pc'[f] \in {"del", "close_f"} /\ pc'[f] # "get"
  BY <1>1, <1>5
<1>8. \A m : Closing(m)' = Closing(m) /\ Getting(m)' = Getting(m)
  BY ZenonT(60), <1>1, <1>5, <1>6, <1>7 DEF Closing, Getting
<1>9. Closing(n)
  BY Zenon, <1>7 DEF Closing
<1>10. \A m \in Numbers : ContextOK(m)'
  BY Zenon, <1>0, <1>4, <1>8, <1>9 DEF HookIInv, ContextOK
<1>11. \A m \in Numbers : Held2(m) => Held2(m)'
  BY Zenon, <1>4, <1>8, <1>9 DEF Held2
<1>12. Moves(f)
  BY Zenon, <1>0, <1>1, <1>4, <1>5, <1>10, <1>11 DEF Moves
<1> QED
  BY Zenon, <1>12, MovesIInv

-----------------------------------------------------------------------------
(* triggerEvent: the waiters of the events S of n are woken, and those only. *)
CanTrigger(n, S) ==
  /\ n \in Numbers /\ S \subseteq events[n] /\ socket[n] # 0 /\ interest[socket[n]] = events[n]
NearStill(g) ==
  /\ pos'[g] = pos[g] /\ pc'[g] = pc[g] /\ to'[g] = to[g] /\ race[g] \subseteq race'[g] /\ newfd'[g] = newfd[g]
  /\ cancelled'[g] = cancelled[g] /\ armed'[g] = armed[g] /\ due'[g] = due[g]
TriggersAre(n, S) ==
  /\ \A e \in S : waiter[n][e] \in Fibers /\ WaiterOK(n, e) /\ e \in Event
  /\ \A x : x \in queue' <=> (x \in queue \/ \E e \in S : waiter[n][e] = x)
  /\ queue' \subseteq Fibers
  /\ events' \in [Numbers -> SUBSET Event] /\ events'[n] = events[n] \ S
  /\ \A m \in Numbers \ {n} : events'[m] = events[m] /\ waiter'[m] = waiter[m]
  /\ waiter' \in [Numbers -> [Event -> Fibers \cup {None}]]
  /\ \A e \in Event : waiter'[n][e] = IF e \in S THEN None ELSE waiter[n][e]
  /\ interest' \in [Sockets -> SUBSET Event] /\ interest'[socket[n]] = events[n] \ S
  /\ \A s \in Sockets : s # socket[n] => interest'[s] = interest[s]

(* What triggerEvent changes.                                               *)
LEMMA TriggerFacts ==
  ASSUME HookIInv, NEW n, NEW S, CanTrigger(n, S), trigger(n, S)
  PROVE  TriggersAre(n, S)
<1>1. Types /\ n \in Numbers /\ S \subseteq events[n] /\ events[n] \subseteq Event
  BY Zenon DEF HookIInv, CanTrigger, Types
<1>2. \A e \in S : waiter[n][e] \in Fibers /\ WaiterOK(n, e) /\ e \in Event
  <2>1. TAKE e \in S
  <2>2. e \in Event /\ e \in events[n]
    BY Zenon, <1>1
  <2>3. WaiterOK(n, e) /\ waiter[n][e] \in Fibers \cup {None}
    <3>1. WaiterOK(n, e)
      BY Zenon, <2>2, <1>1 DEF HookIInv
    <3>2. waiter[n][e] \in Fibers \cup {None}
      BY <2>2, <1>1 DEF Types
    <3> QED
      BY Zenon, <3>1, <3>2
  <2> QED
    BY Zenon, <2>2, <2>3 DEF WaiterOK
<1>3. \A x : x \in queue' <=> (x \in queue \/ \E e \in S : waiter[n][e] = x)
  BY Zenon DEF trigger
<1>4. queue' \subseteq Fibers
  <2>1. queue \subseteq Fibers
    BY Zenon, <1>1 DEF Types
  <2> QED
    BY Zenon, <2>1, <1>2, <1>3
<1>5. /\ events' \in [Numbers -> SUBSET Event] /\ events'[n] = events[n] \ S
      /\ \A m \in Numbers \ {n} : events'[m] = events[m]
  <2>1. events[n] \ S \in SUBSET Event
    BY Zenon, <1>1
  <2>2. events' = [events EXCEPT ![n] = events[n] \ S]
    BY Zenon DEF trigger
  <2> QED
    BY Zenon, <2>1, <2>2, <1>1 DEF Types
<1>6. /\ waiter' \in [Numbers -> [Event -> Fibers \cup {None}]]
      /\ \A m \in Numbers \ {n} : waiter'[m] = waiter[m]
      /\ \A e \in Event : waiter'[n][e] = IF e \in S THEN None ELSE waiter[n][e]
  <2> DEFINE w == [e \in Event |-> IF e \in S THEN None ELSE waiter[n][e]]
  <2>1. \A e \in Event : waiter[n][e] \in Fibers \cup {None}
    BY <1>1 DEF Types
  <2>2. w \in [Event -> Fibers \cup {None}] /\ \A e \in Event : w[e] = IF e \in S THEN None ELSE waiter[n][e]
    BY Zenon, <2>1
  <2>3. waiter' = [waiter EXCEPT ![n] = w]
    BY Zenon DEF trigger
  <2> HIDE DEF w
  <2>4. waiter' \in [Numbers -> [Event -> Fibers \cup {None}]] /\ waiter'[n] = w
        /\ \A m \in Numbers \ {n} : waiter'[m] = waiter[m]
    BY Zenon, <2>2, <2>3, <1>1 DEF Types
  <2> QED
    BY Zenon, <2>2, <2>4
<1>7. /\ interest' \in [Sockets -> SUBSET Event] /\ interest'[socket[n]] = events[n] \ S
      /\ \A s \in Sockets : s # socket[n] => interest'[s] = interest[s]
  <2>1. socket[n] \in Sockets
    BY <1>1, HookAssumption DEF CanTrigger, Types, Sockets
  <2>2. events[n] \ S \in SUBSET Event
    BY Zenon, <1>1
  <2>3. interest' = [interest EXCEPT ![socket[n]] = events[n] \ S]
    BY Zenon DEF trigger
  <2> QED
    BY ZenonT(60), <2>1, <2>2, <2>3, <1>1 DEF Types
<1> QED
  BY Zenon, <1>2, <1>3, <1>4, <1>5, <1>6, <1>7 DEF TriggersAre

WakeKept(g) ==
  \A k \in firing : Same(g, k) /\ cancelled[g] =>
    k \in firing' \/ g \in queue' \/ race'[g] \cap {"early", "closing"} # {} \/ pc[g] \in {"woken", "test", "getsockopt"}

(* The fibers it schedules, and the others.                                 *)
LEMMA TriggerFiber ==
  ASSUME HookIInv, NEW n, NEW S, CanTrigger(n, S), trigger(n, S), program' = program,
         NEW g \in Fibers, NearStill(g), WakeKept(g)
  PROVE  PlaceOK(g)' /\ WakeOK(g)'
<1>1. PlaceOK(g) /\ WakeOK(g)
  BY Zenon DEF HookIInv
<1>2. call(g)' = call(g) /\ event(call(g))' = event(call(g))
  BY Zenon DEF NearStill, call, event
<1>3. /\ \A e \in S : WaiterOK(n, e) /\ waiter[n][e] \in Fibers
      /\ \A x : x \in queue' <=> (x \in queue \/ \E e \in S : waiter[n][e] = x)
  <2>1. TriggersAre(n, S)
    BY Zenon, TriggerFacts
  <2> QED
    BY Zenon, <2>1 DEF TriggersAre
<1>4. \A e \in S : waiter[n][e] # None
  BY Zenon, <1>3, HookAssumption
<1>5. g \in queue' => g \in queue \/ (pc[g] \in Away /\ call(g).op # "sleep")
  BY Zenon, <1>3, <1>4 DEF WaiterOK, Waiting
<1>6. call(g).op = "sleep" /\ Waiting(g) => Waiting(g)'
  BY Zenon, <1>5 DEF Waiting, NearStill
<1>7. Waiting(g)' => Waiting(g)
  BY Zenon, <1>3 DEF Waiting, NearStill
<1>8. PlaceOK(g)'
  BY Zenon, <1>1, <1>2, <1>5, <1>6 DEF PlaceOK, NearStill
<1>9. Waiting(g)' /\ call(g).op # "sleep" => waiter'[call(g).fd][event(call(g))] = g
  <2> DEFINE m == call(g).fd
             e == event(call(g))
  <2>1. SUFFICES ASSUME Waiting(g)', call(g).op # "sleep" PROVE waiter'[m][e] = g
    OBVIOUS
  <2>2. waiter[m][e] = g /\ g \notin queue' /\ pc[g] # "end"
    <3>1. Waiting(g) /\ g \notin queue'
      BY Zenon, <2>1, <1>7 DEF Waiting
    <3>2. pc[g] # "end"
      BY <3>1 DEF Waiting, Away
    <3> QED
      BY Zenon, <3>1, <3>2, <2>1, <1>1 DEF WakeOK
  <2>3. m \in Numbers /\ e \in Event
    BY <2>2, CallTyped DEF event, Event
  <2> HIDE DEF m, e
  <2>4. n \in Numbers /\ (m = n => e \notin S)
    BY Zenon, <2>2, <1>3 DEF CanTrigger
  <2>5. TriggersAre(n, S)
    BY Zenon, TriggerFacts
  <2>6. CASE m = n
    BY Zenon, <2>2, <2>3, <2>4, <2>5, <2>6 DEF TriggersAre
  <2>7. CASE m # n
    BY Zenon, <2>2, <2>3, <2>5, <2>7 DEF TriggersAre
  <2> QED
    BY Zenon, <2>6, <2>7
<1>10. \A k : Same(g, k)' = Same(g, k)
  BY Zenon DEF Same, NearStill
<1>11. cancelled[g] => \/ \E k \in firing' : Same(g, k)
                       \/ race'[g] \cap {"early", "closing"} # {}
                       \/ g \in queue' \/ pc[g] \in {"woken", "test", "getsockopt"}
  BY Zenon, <1>1, <1>3 DEF WakeOK, WakeKept, NearStill
<1>12. WakeOK(g)'
  BY Zenon, <1>1, <1>2, <1>6, <1>7, <1>9, <1>10, <1>11 DEF WakeOK, NearStill
<1> QED
  BY Zenon, <1>8, <1>12

(* The waiters that remain.                                                 *)
LEMMA TriggerWaiter ==
  ASSUME HookIInv, NEW n, NEW S, CanTrigger(n, S), trigger(n, S), program' = program, socket' = socket,
         NEW m \in Numbers, NEW e \in Event, waiter[m][e] # None => NearStill(waiter[m][e]),
         Held2(m) => Held2(m)' \/ (m = n /\ S = events[n])
  PROVE  WaiterOK(m, e)'
<1>0. SUFFICES ASSUME NEW f, f = waiter[m][e] PROVE WaiterOK(m, e)'
  OBVIOUS
<1>1. TriggersAre(n, S) /\ n \in Numbers /\ WaiterOK(m, e)
  BY Zenon, TriggerFacts DEF CanTrigger, HookIInv
<1>2. CASE m = n /\ e \in S
  <2>1. waiter'[m][e] = None /\ e \notin events'[m]
    BY Zenon, <1>1, <1>2 DEF TriggersAre
  <2> QED
    BY Zenon, <2>1 DEF WaiterOK
<1>3. CASE ~(m = n /\ e \in S)
  <2>1. waiter'[m][e] = f /\ (e \in events'[m] <=> e \in events[m])
    <3>1. CASE m = n
      BY Zenon, <1>0, <3>1, <1>1, <1>3 DEF TriggersAre
    <3>2. CASE m # n
      BY Zenon, <1>0, <3>2, <1>1 DEF TriggersAre
    <3> QED
      BY Zenon, <3>1, <3>2
  <2>2. CASE f = None
    BY Zenon, <1>0, <2>1, <2>2, <1>1 DEF WaiterOK
  <2>3. CASE f # None
    <3>1. Waiting(f) /\ call(f).op # "sleep" /\ call(f).fd = m /\ event(call(f)) = e /\ e \in events[m]
          /\ ("closing" \in race[f] \/ (Watched(m, e) /\ Held2(m)))
      BY Zenon, <1>0, <2>3, <1>1 DEF WaiterOK, Held2
    <3>2. call(f)' = call(f) /\ event(call(f))' = event(call(f)) /\ race[f] \subseteq race'[f] /\ pc'[f] = pc[f]
      BY Zenon, <1>0, <2>3 DEF NearStill, call, event
    <3>3. f \notin queue'
      <4>1. SUFFICES ASSUME NEW d \in S, waiter[n][d] = f PROVE FALSE
        BY Zenon, <1>1, <3>1 DEF TriggersAre, Waiting
      <4>2. WaiterOK(n, d)
        BY Zenon, <1>1 DEF TriggersAre
      <4>3. call(f).fd = n /\ event(call(f)) = d
        BY Zenon, <4>1, <4>2, <2>3 DEF WaiterOK
      <4> QED
        BY Zenon, <4>3, <3>1, <1>3
    <3>4. Watched(m, e) => Watched(m, e)'
      <4>1. CASE m = n
        <5>1. interest'[socket[n]] = events[n] \ S
          BY Zenon, <1>1 DEF TriggersAre
        <5> QED
          BY Zenon, <5>1, <4>1, <3>1, <1>3 DEF Watched
      <4>2. CASE m # n
        <5>1. SUFFICES ASSUME Watched(m, e) PROVE Watched(m, e)'
          OBVIOUS
        <5>2. socket[m] # 0 /\ e \in interest[socket[m]] /\ socket[m] \in 0..MaxSockets /\ MaxSockets \in Nat
          BY Zenon, <5>1, HookAssumption DEF Watched, HookIInv, Types
        <5>3. socket[m] \in Sockets
          BY <5>2 DEF Sockets
        <5>4. socket[m] # socket[n]
          BY Zenon, <5>2, <4>2, <1>1 DEF HookIInv, SocketOK
        <5>5. interest'[socket[m]] = interest[socket[m]]
          BY Zenon, <5>3, <5>4, <1>1 DEF TriggersAre
        <5> QED
          BY Zenon, <5>2, <5>5 DEF Watched
      <4> QED
        BY Zenon, <4>1, <4>2
    <3>5. Held2(m) => Held2(m)'
      BY Zenon, <3>1, <1>3
    <3>6. "closing" \in race'[f] \/ (Watched(m, e)' /\ Held2(m)')
      BY Zenon, <3>1, <3>2, <3>4, <3>5
    <3>7. pc'[f] \in Away /\ Waiting(f)'
      BY Zenon, <3>1, <3>2, <3>3 DEF Waiting
    <3>8. /\ e \in events'[m] /\ Waiting(f)' /\ call(f)'.op # "sleep" /\ call(f)'.fd = m /\ event(call(f))' = e
      BY Zenon, <2>1, <2>3, <3>1, <3>2, <3>7
    <3> QED
      BY Zenon, <2>1, <2>3, <3>6, <3>8 DEF WaiterOK, Held2, Waiting, call, event
  <2> QED
    BY Zenon, <2>2, <2>3
<1> QED
  BY Zenon, <1>2, <1>3

MovedOK(M) == \A g \in M : pc[g] \in Inside /\ (g \notin queue' => PlaceOK(g)' /\ WakeOK(g)')
OthersOK(M) == \A g \in Fibers \ M : NearStill(g) /\ WakeKept(g)

(* triggerEvent keeps the invariant, if the fibers it does not schedule     *)
(* stay right.                                                              *)
LEMMA TriggerIInv ==
  ASSUME HookIInv, NEW n, NEW S, CanTrigger(n, S), trigger(n, S), FiberTypes',
         UNCHANGED <<program, workers, socket, opened, m_datas>>, firing' \subseteq firing,
         NEW M \in SUBSET Fibers, MovedOK(M), OthersOK(M),
         \A k \in firing' : CallbackOK(k)', \A m \in Numbers : ContextOK(m)',
         \A m \in Numbers : Held2(m) => Held2(m)' \/ (m = n /\ S = events[n])
  PROVE  HookIInv'
<1>1. TriggersAre(n, S) /\ n \in Numbers /\ Types /\ SocketOK
  BY Zenon, TriggerFacts DEF CanTrigger, HookIInv
<1>2. Types'
  <2>1. firing' \subseteq [fiber : Fibers, pos : Nat, fd : Numbers, event : Event]
    BY Zenon, <1>1 DEF Types
  <2> QED
    BY Zenon, <2>1, <1>1 DEF Types, FiberTypes, TriggersAre, Sockets
<1>3. SocketOK'
  <2>1. ASSUME NEW s \in Sockets, s > opened PROVE interest'[s] = {}
    <3>1. s # socket[n]
      <4>1. socket[n] <= opened /\ socket[n] \in 0..MaxSockets /\ opened \in Sockets
        BY Zenon, <1>1 DEF SocketOK, Types
      <4> QED
        BY <4>1, <2>1, HookAssumption DEF Sockets
    <3> QED
      BY Zenon, <3>1, <2>1, <1>1 DEF TriggersAre, SocketOK
  <2> QED
    BY Zenon, <2>1, <1>1 DEF SocketOK, Sockets
<1>4. \A g \in M : g \notin queue'
  <2>1. TAKE g \in M
  <2>2. g \notin queue /\ ~Waiting(g)
    BY Zenon, NotQueued DEF MovedOK
  <2>3. ASSUME NEW e \in S, waiter[n][e] = g PROVE FALSE
    <3>1. WaiterOK(n, e) /\ g \in Fibers
      BY Zenon, <1>1 DEF TriggersAre
    <3>2. g # None
      BY Zenon, <3>1, HookAssumption
    <3> QED
      BY Zenon, <3>1, <3>2, <2>2, <2>3 DEF WaiterOK
  <2> QED
    BY Zenon, <2>2, <2>3, <1>1 DEF TriggersAre
<1>5. \A g \in Fibers : PlaceOK(g)' /\ WakeOK(g)'
  <2>1. TAKE g \in Fibers
  <2>2. CASE g \in M
    BY Zenon, <2>2, <1>4 DEF MovedOK
  <2>3. CASE g \notin M
    BY Zenon, <2>3, TriggerFiber DEF OthersOK
  <2> QED
    BY Zenon, <2>2, <2>3
<1>6. ASSUME NEW m \in Numbers, NEW e \in Event PROVE WaiterOK(m, e)'
  <2>1. waiter[m][e] # None => NearStill(waiter[m][e])
    <3>1. waiter[m][e] \in Fibers \cup {None}
      BY <1>1 DEF Types
    <3>2. waiter[m][e] # None => Waiting(waiter[m][e])
      BY Zenon DEF HookIInv, WaiterOK
    <3>3. waiter[m][e] # None => waiter[m][e] \notin M
      BY Zenon, <3>2, NotQueued DEF MovedOK
    <3> QED
      BY ZenonT(60), <3>1, <3>3 DEF OthersOK
  <2> QED
    BY Zenon, <2>1, TriggerWaiter
<1>7. ASSUME NEW m \in Numbers PROVE InterestOK(m)'
  <2>1. CASE m = n
    <3>1. interest'[socket[n]] = events[n] \ S /\ events'[n] = events[n] \ S
      BY Zenon, <1>1 DEF TriggersAre
    <3> QED
      BY Zenon, <3>1, <2>1 DEF InterestOK
  <2>2. CASE m # n
    <3>1. SUFFICES ASSUME socket[m] # 0 PROVE interest'[socket[m]] = {} \/ interest'[socket[m]] = events'[m]
      BY Zenon DEF InterestOK
    <3>2. socket[m] \in 0..MaxSockets /\ MaxSockets \in Nat
      BY ZenonT(60), <1>1, HookAssumption DEF Types
    <3>3. socket[m] \in Sockets
      BY <3>1, <3>2 DEF Sockets
    <3>4. socket[m] # socket[n]
      BY Zenon, <3>1, <2>2, <1>1 DEF SocketOK
    <3>5. interest'[socket[m]] = interest[socket[m]] /\ events'[m] = events[m]
      BY Zenon, <3>3, <3>4, <2>2, <1>1 DEF TriggersAre
    <3> QED
      BY Zenon, <3>1, <3>5 DEF HookIInv, InterestOK
  <2> QED
    BY Zenon, <2>1, <2>2
<1> QED
  BY Zenon, <1>2, <1>3, <1>5, <1>6, <1>7 DEF HookIInv

(* Contexts and who opens or closes stay the same.                          *)
LEMMA SameNumbers ==
  ASSUME UNCHANGED <<program, pos, pc, newfd, socket, m_datas>>
  PROVE  \A n : Closing(n)' = Closing(n) /\ Getting(n)' = Getting(n) /\ Held2(n)' = Held2(n) /\ ContextOK(n)' = ContextOK(n)
<1>1. \A n : Closing(n)' = Closing(n) /\ Getting(n)' = Getting(n)
  BY Zenon DEF Closing, Getting, call
<1> QED
  BY Zenon, <1>1 DEF Held2, ContextOK

(* idle() dispatches what is ready.                                         *)
LEMMA DispatchIInv ==
  ASSUME HookIInv, NEW n \in Numbers, Dispatch(n)
  PROVE  HookIInv'
<1>0. UNCHANGED <<program, workers, pos, pc, to, race, newfd, cancelled, armed, due, firing, socket, opened, m_datas>>
  BY Zenon DEF Dispatch, fiberVars, timerVars, kernelVars
<1>1. PICK S : S # {} /\ S \subseteq interest[socket[n]] /\ S \subseteq events[n] /\ trigger(n, S) /\ socket[n] # 0
  <2> DEFINE T == {e \in interest[socket[n]] \cap events[n] : Ready(socket[n], e)}
  <2>1. T # {} /\ trigger(n, T) /\ socket[n] # 0
    BY Zenon DEF Dispatch
  <2>2. T \subseteq interest[socket[n]] /\ T \subseteq events[n]
    BY Zenon
  <2> HIDE DEF T
  <2> QED
    BY Zenon, <2>1, <2>2
<1>2. CanTrigger(n, S)
  BY Zenon, <1>1 DEF HookIInv, InterestOK, CanTrigger
<1>3. FiberTypes'
  BY Zenon, <1>0, FiberTyped DEF FiberTypes
<1>4. OthersOK({}) /\ MovedOK({})
  BY Zenon, <1>0 DEF NearStill, WakeKept, OthersOK, MovedOK
<1>5. \A k \in firing' : CallbackOK(k)'
  BY Zenon, <1>0 DEF HookIInv, CallbackOK, call, event
<1>6. (\A m \in Numbers : ContextOK(m)') /\ \A m \in Numbers : Held2(m) => Held2(m)'
  BY Zenon, <1>0, SameNumbers DEF HookIInv
<1>7. {} \in SUBSET Fibers /\ firing' \subseteq firing
  BY Zenon, <1>0
<1> QED
  BY Zenon, <1>0, <1>1, <1>2, <1>3, <1>4, <1>5, <1>6, <1>7, TriggerIInv

(* cancelEvent: whoever the callback belongs to is woken, or has met one of *)
(* the two races.                                                           *)
LEMMA CallbackWakes ==
  ASSUME HookIInv, NEW k \in firing, cancelEvent(k), NEW g \in Fibers
  PROVE  NearStill(g) /\ WakeKept(g)
<1> DEFINE n == k.fd
           e == k.event
           added == (IF Same(g, k) /\ pc[g] \in {"try", "arm", "add"} THEN {"early"} ELSE {})
                      \cup (IF ~Same(g, k) /\ waiter[k.fd][k.event] = g THEN {"stale"} ELSE {})
<1>0. UNCHANGED <<program, workers, pos, pc, to, newfd, cancelled, armed, due, socket, opened, m_datas>>
  BY Zenon DEF cancelEvent, kernelVars
<1>1. race'[g] = race[g] \cup added
  <2>1. race'[g] = race[g] \cup (IF Same(g, k) /\ pc[g] \in {"try", "arm", "add"} THEN {"early"} ELSE {})
                      \cup (IF ~Same(g, k) /\ waiter[k.fd][k.event] = g THEN {"stale"} ELSE {})
    BY Zenon DEF cancelEvent
  <2> QED
    BY <2>1
<1>2. NearStill(g)
  <2> HIDE DEF added
  <2> QED
    BY Zenon, <1>0, <1>1 DEF NearStill
<1>3. n \in Numbers /\ e \in Event /\ PlaceOK(g) /\ WakeOK(g) /\ CallbackOK(k)
  BY DEF HookIInv, Types
<1>4. firing' = firing \ {k}
  BY Zenon DEF cancelEvent
<1>5. SUFFICES ASSUME Same(g, k), cancelled[g]
               PROVE  g \in queue' \/ race'[g] \cap {"early", "closing"} # {} \/ pc[g] \in {"woken", "test", "getsockopt"}
  BY Zenon, <1>2, <1>4 DEF WakeKept
<1>6. n = call(g).fd /\ e = event(call(g)) /\ pc[g] \in InCall /\ call(g).op \in WaitCalls
  BY Zenon, <1>3, <1>5 DEF CallbackOK, Same, PlaceOK
<1>7. CASE pc[g] \in {"try", "arm", "add"}
  <2>1. "early" \in race'[g]
    BY <1>1, <1>5, <1>7
  <2> QED
    BY ZenonT(60), <2>1
<1>8. CASE pc[g] \in Away
  <2>1. ASSUME g \in queue PROVE g \in queue'
    BY Zenon, <2>1 DEF cancelEvent, trigger, eventVars
  <2>2. ASSUME g \notin queue PROVE g \in queue' \/ "closing" \in race[g]
    <3>1. call(g).op # "sleep"
      BY <1>6 DEF WaitCalls, IoCalls
    <3>2. waiter[n][e] = g
      BY Zenon, <3>1, <2>2, <1>3, <1>6, <1>8 DEF WakeOK, Waiting
    <3>3. g # None
      BY Zenon, HookAssumption
    <3>4. e \in events[n] /\ ("closing" \in race[g] \/ Watched(n, e))
      BY Zenon, <3>2, <3>3, <1>3 DEF HookIInv, WaiterOK
    <3>5. CASE ~EpollCtlFails(n)
      <4>1. trigger(n, {e})
        BY Zenon, <3>4, <3>5 DEF cancelEvent
      <4> QED
        BY Zenon, <4>1, <3>2 DEF trigger
    <3>6. CASE EpollCtlFails(n)
      BY Zenon, <3>4, <3>6 DEF EpollCtlFails, Watched
    <3> QED
      BY ZenonT(60), <3>5, <3>6
  <2>3. race[g] \subseteq race'[g]
    BY Zenon, <1>2 DEF NearStill
  <2> QED
    BY Zenon, <2>1, <2>2, <2>3
<1>9. pc[g] \in {"try", "arm", "add"} \/ pc[g] \in Away \/ pc[g] \in {"woken", "test", "getsockopt"}
  BY <1>6 DEF InCall, Away
<1> QED
  BY Zenon, <1>7, <1>8, <1>9

(* A step that touches only timers and races keeps the invariant, if fibers *)
(* and callbacks stay right.                                                *)
LEMMA NearIInv ==
  ASSUME HookIInv, UNCHANGED <<program, workers, pos, pc, to, newfd, cancelled, armed, due, eventVars, socket, opened, m_datas>>,
         race' \in [Fibers -> SUBSET {"early", "stale", "closing"}], firing' \subseteq firing,
         \A g \in Fibers : NearStill(g) /\ WakeKept(g)
  PROVE  HookIInv'
<1>0. UNCHANGED <<program, workers, pos, pc, to, newfd, cancelled, armed, due, queue, events, waiter, interest, socket, opened, m_datas>>
  BY Zenon DEF eventVars
<1>1. Types'
  BY Zenon, <1>0 DEF HookIInv, Types, Sockets
<1>2. SocketOK'
  BY Zenon, <1>0 DEF HookIInv, SocketOK, Sockets
<1>3. ASSUME NEW g \in Fibers PROVE PlaceOK(g)' /\ WakeOK(g)'
  <2>1. PlaceOK(g) /\ WakeOK(g) /\ NearStill(g) /\ WakeKept(g)
    BY Zenon DEF HookIInv
  <2>2. call(g)' = call(g) /\ event(call(g))' = event(call(g)) /\ Waiting(g)' = Waiting(g)
    BY Zenon, <1>0 DEF call, event, Waiting
  <2>3. \A k : Same(g, k)' = Same(g, k)
    BY Zenon, <1>0 DEF Same
  <2>4. PlaceOK(g)'
    BY Zenon, <1>0, <2>1, <2>2 DEF PlaceOK
  <2>5. WakeOK(g)'
    BY Zenon, <1>0, <2>1, <2>2, <2>3 DEF WakeOK, WakeKept, NearStill
  <2> QED
    BY Zenon, <2>4, <2>5
<1>4. \A k \in firing' : CallbackOK(k)'
  BY Zenon, <1>0 DEF HookIInv, CallbackOK, call, event
<1>5. ASSUME NEW n \in Numbers PROVE ContextOK(n)' /\ InterestOK(n)' /\ \A e \in Event : WaiterOK(n, e)'
  <2>1. Closing(n)' = Closing(n) /\ Getting(n)' = Getting(n) /\ ContextOK(n)' = ContextOK(n)
    BY Zenon, <1>0, SameNumbers
  <2>2. ContextOK(n)' /\ InterestOK(n)'
    BY Zenon, <1>0, <2>1 DEF HookIInv, InterestOK
  <2>3. ASSUME NEW e \in Event, NEW f, f = waiter[n][e] PROVE WaiterOK(n, e)'
    <3>1. WaiterOK(n, e)
      BY Zenon DEF HookIInv
    <3>2. f # None => race[f] \subseteq race'[f]
      <4>1. f \in Fibers \cup {None}
        BY <2>3 DEF HookIInv, Types
      <4> QED
        BY Zenon, <4>1 DEF NearStill
    <3>3. Watched(n, e)' = Watched(n, e) /\ waiter'[n][e] = f /\ events'[n] = events[n]
      BY Zenon, <1>0, <2>3 DEF Watched
    <3>4. Waiting(f)' = Waiting(f) /\ call(f)' = call(f) /\ event(call(f))' = event(call(f))
      BY Zenon, <1>0 DEF call, event, Waiting
    <3> QED
      BY Zenon, <1>0, <2>1, <2>3, <3>1, <3>2, <3>3, <3>4 DEF WaiterOK, call, event, Waiting
  <2> QED
    BY Zenon, <2>2, <2>3
<1> QED
  BY Zenon, <1>1, <1>2, <1>3, <1>4, <1>5 DEF HookIInv

(* The callback of a timer calls cancelEvent.                               *)
LEMMA cancelEventIInv ==
  ASSUME HookIInv, NEW k \in firing, cancelEvent(k)
  PROVE  HookIInv'
<1> DEFINE n == k.fd
           e == k.event
<1>0. UNCHANGED <<program, workers, pos, pc, to, newfd, cancelled, armed, due, socket, opened, m_datas>> /\ firing' = firing \ {k}
  BY Zenon DEF cancelEvent, kernelVars
<1>1. firing' \subseteq firing /\ Types
  BY Zenon, <1>0 DEF HookIInv
<1>2. n \in Numbers /\ e \in Event
  BY SMTT(60), <1>1 DEF Types
<1>3. race' \in [Fibers -> SUBSET {"early", "stale", "closing"}]
  <2>1. race \in [Fibers -> SUBSET {"early", "stale", "closing"}]
    BY Zenon, <1>1 DEF Types
  <2> QED
    BY ZenonT(60), <2>1 DEF cancelEvent
<1>4. \A g \in Fibers : NearStill(g) /\ WakeKept(g)
  BY Zenon, CallbackWakes
<1>5. CASE e \in events[n] /\ ~EpollCtlFails(n)
  <2>1. trigger(n, {e})
    BY Zenon, <1>5 DEF cancelEvent
  <2>2. CanTrigger(n, {e})
    BY Zenon, <1>2, <1>5 DEF EpollCtlFails, CanTrigger, HookIInv, InterestOK
  <2>3. FiberTypes'
    BY Zenon, <1>0, <1>3, FiberTyped DEF FiberTypes
  <2>4. \A j \in firing' : CallbackOK(j)'
    BY Zenon, <1>0, <1>1 DEF HookIInv, CallbackOK, call, event
  <2>5. (\A m \in Numbers : ContextOK(m)') /\ \A m \in Numbers : Held2(m) => Held2(m)'
    BY Zenon, <1>0, SameNumbers DEF HookIInv
  <2>6. {} \in SUBSET Fibers /\ OthersOK({}) /\ MovedOK({})
    BY Zenon, <1>4 DEF OthersOK, MovedOK
  <2> HIDE DEF n, e
  <2> QED
    BY Zenon, <1>0, <1>1, <2>1, <2>2, <2>3, <2>4, <2>5, <2>6, TriggerIInv
<1>6. CASE ~(e \in events[n] /\ ~EpollCtlFails(n))
  <2>1. UNCHANGED eventVars
    BY Zenon, <1>6 DEF cancelEvent
  <2> QED
    BY Zenon, <1>0, <1>1, <1>3, <1>4, <2>1, NearIInv
<1> QED
  BY Zenon, <1>5, <1>6

(* close(): whoever waits on the number is woken, unless epoll does not     *)
(* watch it any more.                                                       *)
LEMMA HeldNumber ==
  ASSUME HookIInv, NEW f \in Fibers, pc[f] = "begin", Held(f), call(f).op \notin {"socket", "sleep"}
  PROVE  call(f).fd \in Numbers /\ socket[call(f).fd] # 0 /\ ~Getting(call(f).fd)
<1>1. pc[f] # "end"
  OBVIOUS
<1>2. call(f).fd \in Numbers /\ pos[f] \in DOMAIN program[f] /\ program \in Programs
  BY Zenon, <1>1, CallTyped DEF HookIInv, Types
<1>3. call(f).sock # 0
  BY Zenon, <1>2, HookAssumption DEF call
<1> QED
  BY Zenon, <1>2, <1>3 DEF Held, Mine, Getting

(* cancelAll wakes all that wait for the number.                            *)
LEMMA closeIInv ==
  ASSUME HookIInv, NEW f \in Fibers, close(f)
  PROVE  HookIInv'
<1>n. SUFFICES ASSUME NEW n, n = call(f).fd PROVE HookIInv'
  OBVIOUS
<1> DEFINE label == IF m_datas[n] = None THEN "close_f" ELSE "del"
<1>0. UNCHANGED <<program, workers, pos, to, race, newfd, timerVars, socket, opened, m_datas>>
  BY Zenon DEF close, kernelVars
<1>1. pc[f] = "begin" /\ call(f).op = "close" /\ Held(f) /\ Goto(f, label)
  BY Zenon, <1>n DEF close, Running
<1>2. label \in {"del", "close_f"} /\ label \in Inside /\ pc[f] \in {"begin", "del"} /\ pc[f] \in Inside
      /\ call(f).op \notin {"socket", "sleep"} /\ pc[f] \notin {"del", "close_f", "get"} /\ label # "get"
  BY <1>1 DEF Inside, Labels
<1> HIDE DEF label
<1>3. n \in Numbers /\ socket[n] # 0 /\ ~Getting(n)
  BY Zenon, <1>n, <1>1, <1>2, HeldNumber
<1>4. /\ FiberTypes' /\ (\A g \in Fibers \ {f} : Still(g))
      /\ (f \notin queue' => PlaceOK(f)' /\ WakeOK(f)') /\ f \notin queue
      /\ (\A k \in firing : CallbackOK(k)') /\ pc'[f] = label /\ call(f)' = call(f) /\ firing' = firing
  BY Zenon, <1>0, <1>1, <1>2, ClosingOK
<1>5. ASSUME NEW g \in Fibers, g # f
      PROVE  pc'[g] = pc[g] /\ call(g)' = call(g) /\ newfd'[g] = newfd[g]
  BY Zenon, <1>0, <1>4, <1>5 DEF Still, call
<1>6. \A m : Getting(m)' = Getting(m)
  BY Zenon, <1>2, <1>4, <1>5 DEF Getting
<1>7. Closing(n)'
  BY Zenon, <1>n, <1>2, <1>4 DEF Closing
<1>8. \A m : m # n => Closing(m)' = Closing(m)
  BY Zenon, <1>n, <1>2, <1>4, <1>5 DEF Closing
<1>9. \A m \in Numbers : ContextOK(m)'
  BY Zenon, <1>0, <1>6, <1>7, <1>8 DEF HookIInv, ContextOK
<1>10. \A m \in Numbers : m # n => (Held2(m) => Held2(m)')
  BY Zenon, <1>0, <1>6, <1>8 DEF Held2
<1>11. m_datas' \in [Numbers -> Contexts \cup {None}]
  BY Zenon, <1>0 DEF HookIInv, Types
<1>12. CASE m_datas[n] = None \/ events[n] = {} \/ EpollCtlFails(n)
  <2>1. UNCHANGED <<queue, events, waiter, interest>>
    BY Zenon, <1>n, <1>12 DEF close, eventVars
  <2>2. Held2(n) => \A e \in Event : waiter[n][e] # None => "closing" \in race[waiter[n][e]]
    <3>1. SUFFICES ASSUME Held2(n), NEW e \in Event, waiter[n][e] # None PROVE "closing" \in race[waiter[n][e]]
      OBVIOUS
    <3>2. m_datas[n] # None
      BY Zenon, <3>1, <1>3 DEF Held2
    <3>3. e \in events[n] /\ ("closing" \in race[waiter[n][e]] \/ Watched(n, e))
      BY Zenon, <3>1, <1>3 DEF HookIInv, WaiterOK
    <3> QED
      BY Zenon, <3>2, <3>3, <1>3, <1>12 DEF EpollCtlFails, Watched
  <2>3. \A m \in Numbers : Held2(m) => Held2(m)' \/ \A e \in Event : waiter[m][e] # None => "closing" \in race[waiter[m][e]]
    BY Zenon, <2>2, <1>10
  <2>4. Moves(f)
    BY Zenon, <1>0, <1>2, <1>4, <1>9, <1>11, <2>1, <2>3 DEF Moves
  <2> QED
    BY Zenon, <2>4, MovesIInv
<1>13. CASE ~(m_datas[n] = None \/ events[n] = {} \/ EpollCtlFails(n))
  <2>s. SUFFICES ASSUME NEW S, S = events[n] PROVE HookIInv'
    OBVIOUS
  <2>1. trigger(n, S)
    BY Zenon, <1>n, <2>s, <1>13 DEF close
  <2>2. CanTrigger(n, S)
    BY Zenon, <2>s, <1>3, <1>13 DEF EpollCtlFails, CanTrigger, HookIInv, InterestOK
  <2>3. OthersOK({f})
    BY Zenon, <1>4 DEF Still, NearStill, WakeKept, OthersOK
  <2>4. \A m \in Numbers : Held2(m) => Held2(m)' \/ (m = n /\ S = events[n])
    BY Zenon, <2>s, <1>10
  <2>5. {f} \in SUBSET Fibers /\ MovedOK({f})
    BY Zenon, <1>2, <1>4 DEF MovedOK
  <2>6. firing' \subseteq firing /\ \A k \in firing' : CallbackOK(k)'
    BY Zenon, <1>4
  <2> QED
    BY Zenon, <1>0, <1>4, <1>9, <2>1, <2>2, <2>3, <2>4, <2>5, <2>6, TriggerIInv
<1> QED
  BY Zenon, <1>12, <1>13

-----------------------------------------------------------------------------
(* A fiber yields, is held, is resumed, or its timer expires.               *)
LEMMA WaiterNear ==
  ASSUME NEW n, NEW e, NEW f, f = waiter[n][e], waiter'[n][e] = f, events'[n] = events[n], program' = program,
         f # None => Waiting(f)' /\ pos'[f] = pos[f] /\ race'[f] = race[f],
         Clean(n, e) => Clean(n, e)', WaiterOK(n, e)
  PROVE  WaiterOK(n, e)'
<1>1. f # None => call(f)' = call(f) /\ event(call(f))' = event(call(f))
  BY Zenon DEF call, event
<1> QED
  BY Zenon, <1>1 DEF WaiterOK, Clean, Waiting, call, event

(* A step of one fiber that keeps its waiters keeps the invariant.          *)
LEMMA OneFiberIInv ==
  ASSUME HookIInv, NEW f \in Fibers, UNCHANGED <<program, workers, events, waiter, interest, socket, opened, m_datas>>,
         \A g \in Fibers \ {f} : Still(g) /\ (g \in queue' <=> g \in queue), queue' \subseteq Fibers, FiberTypes',
         firing \subseteq firing', firing' \subseteq [fiber : Fibers, pos : Nat, fd : Numbers, event : Event],
         \A k \in firing' : CallbackOK(k)', PlaceOK(f)', WakeOK(f)',
         pc[f] \notin {"del", "close_f", "get"}, pc'[f] \notin {"del", "close_f", "get"},
         Waiting(f) /\ call(f).op # "sleep" => Waiting(f)' /\ pos'[f] = pos[f] /\ race'[f] = race[f]
  PROVE  HookIInv'
<1>1. Types'
  BY Zenon DEF HookIInv, Types, FiberTypes, Sockets
<1>2. SocketOK'
  BY Zenon DEF HookIInv, SocketOK, Sockets
<1>3. ASSUME NEW g \in Fibers PROVE PlaceOK(g)' /\ WakeOK(g)'
  <2>1. CASE g = f
    BY Zenon, <2>1
  <2>2. CASE g # f
    <3>1. Still(g) /\ PlaceOK(g) /\ WakeOK(g) /\ (g \in queue' <=> g \in queue)
      BY Zenon, <2>2 DEF HookIInv
    <3>2. \A k \in firing : Same(g, k) => k \in firing'
      BY Zenon
    <3> QED
      BY Zenon, <3>1, <3>2, StillOK
  <2> QED
    BY Zenon, <2>1, <2>2
<1>4. \A n : Closing(n)' = Closing(n) /\ Getting(n)' = Getting(n)
  BY Zenon, SameClosing
<1>5. ASSUME NEW n \in Numbers PROVE ContextOK(n)' /\ InterestOK(n)' /\ \A e \in Event : WaiterOK(n, e)'
  <2>1. ContextOK(n)' /\ InterestOK(n)'
    BY Zenon, <1>4 DEF HookIInv, ContextOK, InterestOK
  <2>2. ASSUME NEW e \in Event PROVE WaiterOK(n, e)'
    <3>1. SUFFICES ASSUME NEW w, w = waiter[n][e] PROVE WaiterOK(n, e)'
      OBVIOUS
    <3>2. WaiterOK(n, e) /\ w \in Fibers \cup {None}
      <4>1. WaiterOK(n, e) /\ waiter \in [Numbers -> [Event -> Fibers \cup {None}]]
        BY Zenon DEF HookIInv, Types
      <4> QED
        BY Zenon, <3>1, <4>1
    <3>3. w # None => Waiting(w) /\ call(w).op # "sleep"
      BY Zenon, <3>1, <3>2 DEF WaiterOK
    <3>4. w # None => Waiting(w)' /\ pos'[w] = pos[w] /\ race'[w] = race[w]
      <4>1. CASE w = f
        BY Zenon, <4>1, <3>3
      <4>2. CASE w # f
        BY Zenon, <4>2, <3>2, <3>3 DEF Still, Waiting
      <4> QED
        BY Zenon, <4>1, <4>2
    <3>5. Clean(n, e) => Clean(n, e)'
      BY Zenon, <1>4 DEF Clean, Watched
    <3>6. waiter'[n][e] = w /\ events'[n] = events[n] /\ program' = program
      BY Zenon, <3>1
    <3> QED
      BY ZenonT(60), <3>1, <3>2, <3>4, <3>5, <3>6, WaiterNear
  <2> QED
    BY Zenon, <2>1, <2>2
<1> QED
  BY Zenon, <1>1, <1>2, <1>3, <1>5 DEF HookIInv

(* The fiber leaves its worker.                                             *)
LEMMA YieldToHoldIInv ==
  ASSUME HookIInv, NEW f \in Fibers, YieldToHold(f)
  PROVE  HookIInv'
<1>0. UNCHANGED <<program, workers, pos, to, race, newfd, cancelled, armed, due, firing, queue, events, waiter, interest, socket, opened, m_datas>>
  BY Zenon DEF YieldToHold, timerVars, eventVars, kernelVars
<1>1. pc[f] = "yield" /\ Types /\ PlaceOK(f) /\ WakeOK(f)
  BY Zenon DEF YieldToHold, Running, HookIInv
<1>2. pc' \in [Fibers -> Labels] /\ pc'[f] = "hold" /\ \A g \in Fibers \ {f} : pc'[g] = pc[g]
  <2>1. "hold" \in Labels
    BY DEF Labels
  <2> QED
    BY Zenon, <2>1, <1>1 DEF YieldToHold, Goto, Types
<1>3. FiberTypes'
  BY Zenon, <1>0, <1>2, FiberTyped DEF FiberTypes
<1>4. \A g \in Fibers \ {f} : Still(g) /\ (g \in queue' <=> g \in queue)
  BY Zenon, <1>0, <1>2 DEF Still
<1>5. queue' \subseteq Fibers /\ firing \subseteq firing' /\ firing' \subseteq [fiber : Fibers, pos : Nat, fd : Numbers, event : Event]
  BY Zenon, <1>0, <1>1 DEF Types
<1>6. \A k \in firing' : CallbackOK(k)'
  BY Zenon, <1>0 DEF HookIInv, CallbackOK, call, event
<1>7. call(f)' = call(f) /\ event(call(f))' = event(call(f))
  BY Zenon, <1>0 DEF call, event
<1>8. /\ pc[f] \in Away /\ pc'[f] \in Away /\ pc'[f] \in InCall /\ pc'[f] \notin {"try", "arm", "add", "test", "getsockopt"}
      /\ pc'[f] \in {"yield", "hold", "woken"} /\ pc[f] \in {"yield", "hold", "woken"}
      /\ pc[f] \notin {"del", "close_f", "get"} /\ pc'[f] \notin {"del", "close_f", "get"} /\ pc[f] # "add"
      /\ pc[f] \notin {"woken", "test", "getsockopt"} /\ pc'[f] # "add" /\ pc[f] # "end"
  BY <1>1, <1>2 DEF Away, InCall
<1>9. Waiting(f)' = Waiting(f)
  BY Zenon, <1>0, <1>8 DEF Waiting
<1>10. PlaceOK(f)'
  BY Zenon, <1>0, <1>1, <1>7, <1>8, <1>9 DEF PlaceOK
<1>11. WakeOK(f)'
  <2>1. \A k : Same(f, k)' = Same(f, k)
    BY Zenon, <1>0 DEF Same
  <2> QED
    BY Zenon, <2>1, <1>0, <1>1, <1>7, <1>8, <1>9 DEF WakeOK
<1> QED
  BY Zenon, <1>0, <1>3, <1>4, <1>5, <1>6, <1>8, <1>9, <1>10, <1>11, OneFiberIInv

(* sleep() arms a timer and yields.                                         *)
LEMMA sleepIInv ==
  ASSUME HookIInv, NEW f \in Fibers, sleep(f)
  PROVE  HookIInv'
<1>0. UNCHANGED <<program, workers, pos, to, race, newfd, cancelled, due, firing, queue, events, waiter, interest, socket, opened, m_datas>>
  BY Zenon DEF sleep, eventVars, kernelVars
<1>1. pc[f] = "begin" /\ call(f).op = "sleep" /\ Types
  BY Zenon DEF sleep, Running, HookIInv
<1>2. pc[f] \in Inside /\ pc[f] \in {"begin", "direct"} /\ "yield" \in Labels /\ pc[f] \notin {"del", "close_f", "get"}
  BY <1>1 DEF Inside, Labels
<1>3. pc' \in [Fibers -> Labels] /\ pc'[f] = "yield" /\ (\A g \in Fibers \ {f} : pc'[g] = pc[g] /\ armed'[g] = armed[g])
      /\ armed' \in [Fibers -> BOOLEAN] /\ armed'[f]
  BY Zenon, <1>1, <1>2 DEF sleep, Goto, Types
<1>4. FiberTypes'
  BY Zenon, <1>0, <1>3, FiberTyped DEF FiberTypes
<1>5. \A g \in Fibers \ {f} : Still(g) /\ (g \in queue' <=> g \in queue)
  BY Zenon, <1>0, <1>3 DEF Still
<1>6. queue' \subseteq Fibers /\ firing \subseteq firing' /\ firing' \subseteq [fiber : Fibers, pos : Nat, fd : Numbers, event : Event]
  BY Zenon, <1>0, <1>1 DEF Types
<1>7. \A k \in firing' : CallbackOK(k)'
  BY Zenon, <1>0 DEF HookIInv, CallbackOK, call, event
<1>8. call(f)' = call(f) /\ f \notin queue /\ pos[f] \in 1..Len(program[f]) /\ ~Waiting(f) /\ ~due[f] /\ ~cancelled[f]
  BY Zenon, <1>0, <1>2, NotQueued, IdleBegin DEF call
<1>9. /\ pc'[f] \in Away /\ pc'[f] \notin {"try", "arm", "add", "test", "getsockopt"} /\ pc'[f] # "add"
      /\ pc'[f] \notin {"del", "close_f", "get"}
  BY <1>3 DEF Away
<1>10. Waiting(f)'
  BY Zenon, <1>0, <1>8, <1>9 DEF Waiting
<1>11. PlaceOK(f)'
  BY Zenon, <1>0, <1>1, <1>8, <1>9, <1>10 DEF PlaceOK
<1>12. WakeOK(f)'
  BY Zenon, <1>0, <1>1, <1>3, <1>8, <1>9, <1>10 DEF WakeOK
<1> QED
  BY Zenon, <1>0, <1>2, <1>4, <1>5, <1>6, <1>7, <1>8, <1>9, <1>11, <1>12, OneFiberIInv

(* A worker takes a scheduled fiber.                                        *)
LEMMA ResumeIInv ==
  ASSUME HookIInv, NEW f \in Fibers, Resume(f)
  PROVE  HookIInv'
<1>0. UNCHANGED <<program, workers, pos, to, race, newfd, cancelled, armed, due, firing, events, waiter, interest, socket, opened, m_datas>>
  BY Zenon DEF Resume, timerVars, kernelVars
<1>1. f \in queue /\ pc[f] \in {"ready", "hold"} /\ queue' = queue \ {f} /\ Types /\ PlaceOK(f) /\ ~Waiting(f)
  BY Zenon DEF Resume, HookIInv, Waiting
<1>2. pc' \in [Fibers -> Labels] /\ pc'[f] = (IF pc[f] = "ready" THEN "begin" ELSE "woken") /\ \A g \in Fibers \ {f} : pc'[g] = pc[g]
  <2>1. (IF pc[f] = "ready" THEN "begin" ELSE "woken") \in Labels
    BY DEF Labels
  <2> QED
    BY Zenon, <2>1, <1>1 DEF Resume, Goto, Types
<1>3. FiberTypes'
  BY Zenon, <1>0, <1>2, FiberTyped DEF FiberTypes
<1>4. \A g \in Fibers \ {f} : Still(g) /\ (g \in queue' <=> g \in queue)
  BY Zenon, <1>0, <1>1, <1>2 DEF Still
<1>5. queue' \subseteq Fibers /\ firing \subseteq firing' /\ firing' \subseteq [fiber : Fibers, pos : Nat, fd : Numbers, event : Event]
  BY Zenon, <1>0, <1>1 DEF Types
<1>6. \A k \in firing' : CallbackOK(k)'
  BY Zenon, <1>0 DEF HookIInv, CallbackOK, call, event
<1>7. call(f)' = call(f) /\ f \notin queue'
  BY Zenon, <1>0, <1>1 DEF call
<1>8. /\ pc[f] \notin {"del", "close_f", "get"} /\ pc'[f] \notin {"del", "close_f", "get"} /\ pc'[f] \notin Away
      /\ pc'[f] \notin {"try", "arm", "add", "test", "getsockopt"} /\ pc'[f] # "add" /\ pc[f] # "end"
      /\ (pc[f] = "ready" => pc'[f] = "begin" /\ pc'[f] \notin {"yield", "hold", "woken"}
                             /\ pc[f] \notin Away \cup {"add", "woken"} /\ pc[f] \notin InCall)
      /\ (pc[f] # "ready" => pc[f] \in {"yield", "hold", "woken"} /\ pc'[f] \in InCall /\ pc'[f] \in Away \cup {"add", "woken"}
                             /\ pc'[f] \in {"woken", "test", "getsockopt"})
  BY <1>1, <1>2 DEF Away, InCall
<1>9. PlaceOK(f)' /\ WakeOK(f)'
  <2>1. CASE pc[f] = "ready"
    <3>1. ~armed[f] /\ ~due[f] /\ ~cancelled[f]
      BY Zenon, <2>1, <1>1, <1>8 DEF PlaceOK
    <3>2. PlaceOK(f)'
      BY Zenon, <3>1, <2>1, <1>0, <1>1, <1>7, <1>8 DEF PlaceOK
    <3>3. WakeOK(f)'
      BY Zenon, <3>1, <1>0, <1>8 DEF WakeOK, Waiting
    <3> QED
      BY Zenon, <3>2, <3>3
  <2>2. CASE pc[f] # "ready"
    <3>1. PlaceOK(f)'
      BY Zenon, <2>2, <1>0, <1>1, <1>7, <1>8 DEF PlaceOK
    <3>2. WakeOK(f)'
      BY Zenon, <2>2, <1>0, <1>8 DEF WakeOK, Waiting
    <3> QED
      BY Zenon, <3>1, <3>2
  <2> QED
    BY Zenon, <2>1, <2>2
<1> QED
  BY Zenon, <1>0, <1>1, <1>3, <1>4, <1>5, <1>6, <1>8, <1>9, OneFiberIInv

(* A timer expires.                                                         *)
LEMMA ExpireIInv ==
  ASSUME HookIInv, NEW f \in Fibers, Expire(f)
  PROVE  HookIInv'
<1>0. UNCHANGED <<program, workers, pos, pc, to, race, newfd, cancelled, firing, events, waiter, interest, socket, opened, m_datas>>
  BY Zenon DEF Expire, fiberVars, kernelVars
<1>1. armed[f] /\ Types /\ PlaceOK(f) /\ WakeOK(f)
  BY Zenon DEF Expire, HookIInv
<1>2. armed' \in [Fibers -> BOOLEAN] /\ ~armed'[f] /\ \A g \in Fibers \ {f} : armed'[g] = armed[g]
  BY Zenon, <1>1 DEF Expire, Types
<1>3. firing \subseteq firing' /\ firing' \subseteq [fiber : Fibers, pos : Nat, fd : Numbers, event : Event]
  BY Zenon, <1>0, <1>1 DEF Types
<1>4. \A k \in firing' : CallbackOK(k)'
  BY Zenon, <1>0 DEF HookIInv, CallbackOK, call, event
<1>5. call(f)' = call(f) /\ event(call(f))' = event(call(f)) /\ \A k : Same(f, k)' = Same(f, k)
  BY Zenon, <1>0 DEF call, event, Same
<1>6. pc[f] \in Away \cup {"add", "woken"} /\ (call(f).op = "sleep" => Waiting(f))
  BY Zenon, <1>1 DEF PlaceOK
<1>7. pc[f] \notin {"del", "close_f", "get"} /\ pc[f] \in InCall /\ pc[f] # "end"
      /\ (pc[f] \in {"try", "arm", "add", "test", "getsockopt"} \/ pc[f] \in {"yield", "hold", "woken"})
      /\ "sleep" \notin WaitCalls /\ (pc[f] \in Away => pc[f] # "add")
  BY <1>6 DEF Away, InCall, WaitCalls, IoCalls
<1>8. CASE call(f).op = "sleep"
  <2>1. queue' = queue \cup {f} /\ due' = due
    BY Zenon, <1>8 DEF Expire
  <2>2. FiberTypes' /\ queue' \subseteq Fibers
    BY Zenon, <2>1, <1>0, <1>1, <1>2, FiberTyped DEF FiberTypes, Types
  <2>3. \A g \in Fibers \ {f} : Still(g) /\ (g \in queue' <=> g \in queue)
    BY Zenon, <2>1, <1>0, <1>2 DEF Still
  <2>4. ~due[f] /\ ~cancelled[f] /\ pc[f] \in Away /\ ~Waiting(f)'
    BY Zenon, <2>1, <1>1, <1>6, <1>7, <1>8 DEF PlaceOK, Waiting
  <2>5. PlaceOK(f)'
    BY Zenon, <2>1, <2>4, <1>0, <1>1, <1>2, <1>5 DEF PlaceOK
  <2>6. WakeOK(f)'
    BY Zenon, <2>4, <1>0, <1>7 DEF WakeOK
  <2> QED
    BY Zenon, <2>2, <2>3, <2>5, <2>6, <1>0, <1>3, <1>4, <1>7, <1>8, OneFiberIInv
<1>9. CASE call(f).op # "sleep"
  <2>1. queue' = queue /\ due' = [due EXCEPT ![f] = TRUE]
    BY Zenon, <1>9 DEF Expire
  <2>2. due' \in [Fibers -> BOOLEAN] /\ due'[f] /\ \A g \in Fibers \ {f} : due'[g] = due[g]
    BY Zenon, <2>1, <1>1 DEF Types
  <2>3. FiberTypes' /\ queue' \subseteq Fibers
    BY Zenon, <2>1, <2>2, <1>0, <1>1, <1>2, FiberTyped DEF FiberTypes, Types
  <2>4. \A g \in Fibers \ {f} : Still(g) /\ (g \in queue' <=> g \in queue)
    BY Zenon, <2>1, <2>2, <1>0, <1>2 DEF Still
  <2>5. call(f).op \in WaitCalls
    BY Zenon, <1>1, <1>7, <1>9 DEF PlaceOK
  <2>6. Waiting(f)' = Waiting(f)
    BY Zenon, <2>1, <1>0 DEF Waiting
  <2>7. PlaceOK(f)'
    BY Zenon, <2>1, <2>2, <2>5, <2>6, <1>0, <1>1, <1>2, <1>5, <1>7 DEF PlaceOK
  <2>8. WakeOK(f)'
    BY Zenon, <2>1, <2>2, <2>6, <1>0, <1>1, <1>5, <1>9 DEF WakeOK
  <2> QED
    BY Zenon, <2>3, <2>4, <2>6, <2>7, <2>8, <1>0, <1>3, <1>4, <1>7, OneFiberIInv
<1> QED
  BY Zenon, <1>8, <1>9

(* Its callback sets tinfo->cancelled.                                      *)
LEMMA OnTimerIInv ==
  ASSUME HookIInv, NEW f \in Fibers, OnTimer(f)
  PROVE  HookIInv'
<1> DEFINE k == [fiber |-> f, pos |-> pos[f], fd |-> call(f).fd, event |-> event(call(f))]
<1>0. UNCHANGED <<program, workers, pos, pc, to, race, newfd, armed, queue, events, waiter, interest, socket, opened, m_datas>>
  BY Zenon DEF OnTimer, fiberVars, eventVars, kernelVars
<1>1. due[f] /\ Types /\ PlaceOK(f) /\ WakeOK(f)
  BY Zenon DEF OnTimer, HookIInv
<1>2. due' \in [Fibers -> BOOLEAN] /\ ~due'[f] /\ cancelled' \in [Fibers -> BOOLEAN] /\ cancelled'[f]
      /\ \A g \in Fibers \ {f} : due'[g] = due[g] /\ cancelled'[g] = cancelled[g]
  BY Zenon, <1>1 DEF OnTimer, Types
<1>3. pc[f] \in InCall /\ call(f).op \in WaitCalls
  BY Zenon, <1>1 DEF PlaceOK
<1>4. pc[f] # "end" /\ pc[f] \notin {"del", "close_f", "get"}
  BY <1>3 DEF InCall
<1>5. k \in [fiber : Fibers, pos : Nat, fd : Numbers, event : Event]
  <2>1. call(f).fd \in Numbers /\ event(call(f)) \in Event /\ pos[f] \in Nat
    BY <1>1, <1>4, CallTyped DEF event, Event, Types
  <2> QED
    BY ZenonT(60), <2>1
<1>6. k.fiber = f /\ k.pos = pos[f] /\ k.fd = call(f).fd /\ k.event = event(call(f))
  BY Zenon
<1>7. firing' = IF cancelled[f] THEN firing ELSE firing \cup {k}
  BY Zenon DEF OnTimer
<1>8. SUFFICES ASSUME NEW j, j = k PROVE HookIInv'
  BY ZenonT(60)
<1> HIDE DEF k
<1>9. j \in [fiber : Fibers, pos : Nat, fd : Numbers, event : Event] /\ j.fiber = f /\ j.pos = pos[f]
      /\ j.fd = call(f).fd /\ j.event = event(call(f)) /\ firing' = IF cancelled[f] THEN firing ELSE firing \cup {j}
  BY Zenon, <1>5, <1>6, <1>7, <1>8
<1>10. firing \subseteq firing' /\ firing' \subseteq [fiber : Fibers, pos : Nat, fd : Numbers, event : Event]
  <2>1. firing \subseteq [fiber : Fibers, pos : Nat, fd : Numbers, event : Event]
    BY Zenon, <1>1 DEF Types
  <2> QED
    BY Zenon, <2>1, <1>9
<1>11. call(f)' = call(f) /\ event(call(f))' = event(call(f)) /\ (\A i : Same(f, i)' = Same(f, i)) /\ Waiting(f)' = Waiting(f)
  BY Zenon, <1>0 DEF call, event, Same, Waiting
<1>12. ASSUME NEW i \in firing' PROVE CallbackOK(i)'
  <2>1. CASE i \in firing
    BY Zenon, <2>1, <1>0 DEF HookIInv, CallbackOK, call, event
  <2>2. CASE i = j
    <3>1. j.pos <= pos[f]
      BY <1>1, <1>9 DEF Types
    <3> QED
      BY ZenonT(60), <3>1, <2>2, <1>0, <1>9, <1>11 DEF CallbackOK
  <2> QED
    BY Zenon, <2>1, <2>2, <1>9
<1>13. FiberTypes' /\ queue' \subseteq Fibers
  BY Zenon, <1>0, <1>1, <1>2, FiberTyped DEF FiberTypes, Types
<1>14. \A g \in Fibers \ {f} : Still(g) /\ (g \in queue' <=> g \in queue)
  BY Zenon, <1>0, <1>2 DEF Still
<1>15. PlaceOK(f)'
  BY ZenonT(60), <1>0, <1>1, <1>2, <1>3, <1>11 DEF PlaceOK
<1>16. WakeOK(f)'
  <2>1. Same(f, j) /\ (~cancelled[f] => j \in firing')
    BY Zenon, <1>9 DEF Same
  <2> QED
    BY ZenonT(60), <2>1, <1>0, <1>1, <1>2, <1>10, <1>11 DEF WakeOK
<1> QED
  BY ZenonT(60), <1>0, <1>4, <1>10, <1>11, <1>12, <1>13, <1>14, <1>15, <1>16, OneFiberIInv

-----------------------------------------------------------------------------
(* addEvent: the fiber is the waiter of its event.  epoll watches it, or a  *)
(* close is under way that will not wake it.                                *)
Registers(f, n, e) ==
  /\ n = call(f).fd /\ e = event(call(f)) /\ pc[f] = "add"
  /\ e \notin events[n] /\ ~EpollCtlFails(n) /\ addEvent(f, n, e) /\ Goto(f, "yield")
  /\ race' = [race EXCEPT ![f] = IF Closing(n) THEN @ \cup {"closing"} ELSE @]
  /\ UNCHANGED <<program, workers, pos, to, newfd, timerVars, socket, opened, m_datas>>
Registered(f, n, e) ==
  /\ n \in Numbers /\ e \in Event /\ socket[n] \in Sockets /\ interest[socket[n]] = events[n] /\ waiter[n][e] = None
  /\ events' \in [Numbers -> SUBSET Event] /\ events'[n] = events[n] \cup {e}
  /\ \A m \in Numbers \ {n} : events'[m] = events[m] /\ waiter'[m] = waiter[m]
  /\ waiter' \in [Numbers -> [Event -> Fibers \cup {None}]] /\ waiter'[n][e] = f
  /\ \A d \in Event \ {e} : waiter'[n][d] = waiter[n][d]
  /\ interest' \in [Sockets -> SUBSET Event] /\ interest'[socket[n]] = events[n] \cup {e}
  /\ \A s \in Sockets : s # socket[n] => interest'[s] = interest[s]
  /\ queue' = queue
  /\ pc' \in [Fibers -> Labels] /\ pc'[f] = "yield"
  /\ race' \in [Fibers -> SUBSET {"early", "stale", "closing"}] /\ race[f] \subseteq race'[f]
  /\ Closing(n) => "closing" \in race'[f]
  /\ \A g \in Fibers \ {f} : Still(g)

(* What addEvent changes.                                                   *)
LEMMA RegisterFacts ==
  ASSUME HookIInv, NEW f \in Fibers, NEW n, NEW e, Registers(f, n, e)
  PROVE  Registered(f, n, e)
<1>1. Types /\ pc[f] = "add" /\ pc[f] # "end"
  BY ZenonT(60) DEF HookIInv, Registers
<1>2. n \in Numbers /\ e \in Event
  BY <1>1, CallTyped DEF Registers, event, Event
<1>3. socket[n] # 0 /\ interest[socket[n]] = events[n]
  BY ZenonT(60), <1>2 DEF Registers, EpollCtlFails, HookIInv, InterestOK
<1>4. socket[n] \in Sockets
  BY <1>1, <1>2, <1>3, HookAssumption DEF Types, Sockets
<1>5. waiter[n][e] = None
  BY Zenon, <1>2 DEF HookIInv, WaiterOK, Registers
<1>6. /\ events' \in [Numbers -> SUBSET Event] /\ events'[n] = events[n] \cup {e}
      /\ \A m \in Numbers \ {n} : events'[m] = events[m]
  <2>1. events[n] \cup {e} \in SUBSET Event
    BY Zenon, <1>1, <1>2 DEF Types
  <2>2. events' = [events EXCEPT ![n] = events[n] \cup {e}]
    BY Zenon DEF Registers, addEvent
  <2> QED
    BY Zenon, <2>1, <2>2, <1>1, <1>2 DEF Types
<1>7. /\ waiter' \in [Numbers -> [Event -> Fibers \cup {None}]] /\ waiter'[n][e] = f
      /\ (\A d \in Event \ {e} : waiter'[n][d] = waiter[n][d]) /\ \A m \in Numbers \ {n} : waiter'[m] = waiter[m]
  <2> DEFINE w == [waiter[n] EXCEPT ![e] = f]
  <2>1. waiter[n] \in [Event -> Fibers \cup {None}]
    BY Zenon, <1>1, <1>2 DEF Types
  <2>2. w \in [Event -> Fibers \cup {None}] /\ w[e] = f /\ \A d \in Event \ {e} : w[d] = waiter[n][d]
    BY Zenon, <2>1, <1>2
  <2>3. waiter' = [waiter EXCEPT ![n] = w]
    BY Zenon DEF Registers, addEvent
  <2> HIDE DEF w
  <2>4. waiter' \in [Numbers -> [Event -> Fibers \cup {None}]] /\ waiter'[n] = w
        /\ \A m \in Numbers \ {n} : waiter'[m] = waiter[m]
    BY Zenon, <2>2, <2>3, <1>1, <1>2 DEF Types
  <2> QED
    BY Zenon, <2>2, <2>4
<1>8. /\ interest' \in [Sockets -> SUBSET Event] /\ interest'[socket[n]] = events[n] \cup {e}
      /\ \A s \in Sockets : s # socket[n] => interest'[s] = interest[s]
  <2>1. events[n] \cup {e} \in SUBSET Event
    BY Zenon, <1>1, <1>2 DEF Types
  <2>2. interest' = [interest EXCEPT ![socket[n]] = events[n] \cup {e}]
    BY Zenon DEF Registers, addEvent
  <2> QED
    BY ZenonT(60), <2>1, <2>2, <1>1, <1>4 DEF Types
<1>9. pc' \in [Fibers -> Labels] /\ pc'[f] = "yield" /\ \A g \in Fibers \ {f} : pc'[g] = pc[g]
  <2>1. "yield" \in Labels
    BY DEF Labels
  <2> QED
    BY Zenon, <2>1, <1>1 DEF Registers, Goto, Types
<1>10. /\ race' \in [Fibers -> SUBSET {"early", "stale", "closing"}] /\ race[f] \subseteq race'[f]
       /\ (Closing(n) => "closing" \in race'[f]) /\ \A g \in Fibers \ {f} : race'[g] = race[g]
  <2> DEFINE r == IF Closing(n) THEN race[f] \cup {"closing"} ELSE race[f]
  <2>1. r \in SUBSET {"early", "stale", "closing"} /\ race[f] \subseteq r /\ (Closing(n) => "closing" \in r)
    BY <1>1 DEF Types
  <2>2. race' = [race EXCEPT ![f] = r]
    BY Zenon DEF Registers
  <2> HIDE DEF r
  <2> QED
    BY ZenonT(60), <2>1, <2>2, <1>1 DEF Types
<1>11. \A g \in Fibers \ {f} : Still(g)
  BY Zenon, <1>9, <1>10 DEF Still, Registers, timerVars
<1>12. queue' = queue
  BY Zenon DEF Registers, addEvent
<1> QED
  BY ZenonT(60), <1>2, <1>3, <1>4, <1>5, <1>6, <1>7, <1>8, <1>9, <1>10, <1>11, <1>12 DEF Registered

(* addEvent makes the fiber the waiter of its event, which no other waits   *)
(* for.                                                                     *)
LEMMA RegisterIInv ==
  ASSUME HookIInv, NEW f \in Fibers, NEW n, NEW e, Registers(f, n, e)
  PROVE  HookIInv'
<1>0. UNCHANGED <<program, workers, pos, to, newfd, cancelled, armed, due, firing, socket, opened, m_datas>>
  BY Zenon DEF Registers, timerVars
<1>1. Registered(f, n, e)
  BY Zenon, RegisterFacts
<1>2. Types /\ SocketOK /\ PlaceOK(f) /\ WakeOK(f) /\ pc[f] = "add" /\ n = call(f).fd /\ e = event(call(f))
  BY ZenonT(60) DEF HookIInv, Registers
<1>3. /\ pc[f] \in Inside /\ pc'[f] \in Away /\ pc'[f] \in InCall /\ pc'[f] \notin {"try", "arm", "add", "test", "getsockopt"}
      /\ pc'[f] # "add" /\ pc[f] \notin {"del", "close_f", "get"} /\ pc'[f] \notin {"del", "close_f", "get"}
      /\ pc[f] \in {"try", "arm", "add", "test", "getsockopt"} /\ "sleep" \notin WaitCalls
      /\ pc[f] \notin {"woken", "test", "getsockopt"} /\ pc[f] \notin Away
  <2>1. pc[f] = "add" /\ pc'[f] = "yield"
    BY Zenon, <1>1, <1>2 DEF Registered
  <2> QED
    BY <2>1 DEF Inside, Labels, Away, InCall, WaitCalls, IoCalls
<1>4. f \notin queue /\ pos[f] \in 1..Len(program[f]) /\ call(f)' = call(f) /\ event(call(f))' = event(call(f))
      /\ (\A k : Same(f, k)' = Same(f, k)) /\ call(f).op \in WaitCalls
  BY ZenonT(60), <1>0, <1>2, <1>3, NotQueued DEF call, event, Same, PlaceOK
<1>5. Waiting(f)'
  BY Zenon, <1>1, <1>3, <1>4 DEF Registered, Waiting
<1>6. Types'
  BY Zenon, <1>0, <1>1, <1>2 DEF Types, Registered, Sockets
<1>7. SocketOK'
  <2>1. ASSUME NEW s \in Sockets, s > opened PROVE interest'[s] = {}
    <3>1. s # socket[n]
      <4>1. socket[n] <= opened /\ socket[n] \in Sockets /\ opened \in Sockets
        BY Zenon, <1>1, <1>2 DEF SocketOK, Types, Registered
      <4> QED
        BY <4>1, <2>1, HookAssumption DEF Sockets
    <3> QED
      BY ZenonT(60), <3>1, <2>1, <1>1, <1>2 DEF Registered, SocketOK
  <2> QED
    BY Zenon, <2>1, <1>0, <1>2 DEF SocketOK, Sockets
<1>8. PlaceOK(f)'
  BY Zenon, <1>0, <1>2, <1>3, <1>4, <1>5 DEF PlaceOK, Away
<1>9. WakeOK(f)'
  <2>1. call(f)'.op # "sleep" /\ waiter'[call(f)'.fd][event(call(f))'] = f
    BY Zenon, <1>1, <1>2, <1>3, <1>4 DEF Registered
  <2>2. to[f] => armed[f] \/ due[f] \/ cancelled[f]
    BY Zenon, <1>2 DEF WakeOK
  <2>3. cancelled[f] => (\E k \in firing : Same(f, k)) \/ race[f] \cap {"early", "closing"} # {}
    BY Zenon, <1>2, <1>3, <1>4 DEF WakeOK
  <2>4. race[f] \cap {"early", "closing"} # {} => race'[f] \cap {"early", "closing"} # {}
    BY Zenon, <1>1 DEF Registered
  <2>5. cancelled[f] => (\E k \in firing : Same(f, k)') \/ race'[f] \cap {"early", "closing"} # {}
    BY Zenon, <2>3, <2>4, <1>4
  <2> QED
    BY Zenon, <1>0, <2>1, <2>2, <2>5 DEF WakeOK
<1>10. ASSUME NEW g \in Fibers, g # f PROVE PlaceOK(g)' /\ WakeOK(g)'
  <2>1. Still(g) /\ PlaceOK(g) /\ WakeOK(g) /\ program' = program /\ (g \in queue' <=> g \in queue)
        /\ \A k \in firing : Same(g, k) => k \in firing'
    BY Zenon, <1>0, <1>1, <1>10 DEF HookIInv, Registered
  <2>2. Waiting(g) /\ call(g).op # "sleep" => waiter'[call(g).fd][event(call(g))] = waiter[call(g).fd][event(call(g))]
    <3>1. SUFFICES ASSUME NEW m, m = call(g).fd, NEW d, d = event(call(g)), Waiting(g), call(g).op # "sleep"
                   PROVE  waiter'[m][d] = waiter[m][d]
      BY Zenon
    <3>2. pc[g] # "end"
      BY <3>1 DEF Waiting, Away
    <3>3. m \in Numbers /\ d \in Event
      BY <3>1, <3>2, CallTyped DEF event, Event
    <3>4. CASE m # n
      BY Zenon, <3>3, <3>4, <1>1 DEF Registered
    <3>5. CASE m = n /\ d # e
      BY Zenon, <3>3, <3>5, <1>1 DEF Registered
    <3>6. CASE m = n /\ d = e
      <4>1. waiter[m][d] = g
        BY Zenon, <3>1, <2>1 DEF WakeOK
      <4>2. waiter[n][e] = None /\ g # None
        BY Zenon, <1>1, HookAssumption DEF Registered
      <4> QED
        BY Zenon, <4>1, <4>2, <3>6
    <3> QED
      BY Zenon, <3>4, <3>5, <3>6
  <2> QED
    BY Zenon, <2>1, <2>2, StillOK
<1>11. \A k \in firing' : CallbackOK(k)'
  BY Zenon, <1>0 DEF HookIInv, CallbackOK, call, event
<1>12. \A m : Closing(m)' = Closing(m) /\ Getting(m)' = Getting(m)
  BY Zenon, <1>0, <1>1, <1>3, SameClosing DEF Registered
<1>13. ASSUME NEW m \in Numbers PROVE ContextOK(m)' /\ InterestOK(m)'
  <2>1. ContextOK(m)'
    BY Zenon, <1>0, <1>12 DEF HookIInv, ContextOK
  <2>2. CASE m = n
    <3>1. interest'[socket[n]] = events'[n]
      BY Zenon, <1>1 DEF Registered
    <3> QED
      BY Zenon, <3>1, <2>1, <2>2, <1>0 DEF InterestOK
  <2>3. CASE m # n
    <3>1. SUFFICES ASSUME socket[m] # 0 PROVE interest'[socket[m]] = {} \/ interest'[socket[m]] = events'[m]
      BY Zenon, <2>1, <1>0 DEF InterestOK
    <3>2. socket[m] \in 0..MaxSockets /\ MaxSockets \in Nat /\ n \in Numbers
      BY Zenon, <1>1, <1>2, HookAssumption DEF Types, Registered
    <3>3. socket[m] \in Sockets
      BY <3>1, <3>2 DEF Sockets
    <3>4. socket[m] # socket[n]
      BY Zenon, <3>1, <3>2, <2>3, <1>2 DEF SocketOK
    <3>5. interest'[socket[m]] = interest[socket[m]] /\ events'[m] = events[m]
      BY Zenon, <3>3, <3>4, <2>3, <1>1 DEF Registered
    <3> QED
      BY Zenon, <3>1, <3>5 DEF HookIInv, InterestOK
  <2> QED
    BY Zenon, <2>2, <2>3
<1>14. ASSUME NEW m \in Numbers, NEW d \in Event PROVE WaiterOK(m, d)'
  <2>1. CASE m = n /\ d = e
    <3>1. waiter'[n][e] = f /\ e \in events'[n] /\ f # None
      BY Zenon, <1>1, HookAssumption DEF Registered
    <3>2. Watched(n, e)'
      <4>1. socket'[n] # 0 /\ interest'[socket'[n]] = events[n] \cup {e}
        <5>1. socket[n] \in Sockets /\ interest'[socket[n]] = events[n] \cup {e}
          BY Zenon, <1>1 DEF Registered
        <5>2. socket[n] # 0
          BY <5>1, HookAssumption DEF Sockets
        <5> QED
          BY Zenon, <5>1, <5>2, <1>0
      <4> QED
        BY Zenon, <4>1 DEF Watched
    <3>3. socket[n] # 0 /\ ContextOK(n)
      BY Zenon, <3>2, <1>0, <1>1 DEF Watched, HookIInv, Registered
    <3>4. "closing" \in race'[f] \/ (Watched(n, e)' /\ ~Closing(n)' /\ (m_datas'[n] # None \/ Getting(n)'))
      BY Zenon, <3>2, <3>3, <1>0, <1>1, <1>12 DEF ContextOK, Registered
    <3>5. call(f)'.op # "sleep" /\ call(f)'.fd = n /\ event(call(f))' = e
      BY Zenon, <1>2, <1>3, <1>4
    <3> QED
      BY ZenonT(60), <2>1, <3>1, <3>4, <3>5, <1>5 DEF WaiterOK, call, event, Waiting
  <2>2. CASE ~(m = n /\ d = e)
    <3>1. SUFFICES ASSUME NEW w, w = waiter[m][d] PROVE WaiterOK(m, d)'
      OBVIOUS
    <3>2. WaiterOK(m, d) /\ w \in Fibers \cup {None}
      <4>1. WaiterOK(m, d) /\ waiter \in [Numbers -> [Event -> Fibers \cup {None}]]
        BY Zenon DEF HookIInv, Types
      <4> QED
        BY Zenon, <3>1, <4>1
    <3>3. waiter'[m][d] = w /\ (d \in events'[m] <=> d \in events[m])
      <4>1. CASE m = n
        BY Zenon, <4>1, <3>1, <2>2, <1>1 DEF Registered
      <4>2. CASE m # n
        BY Zenon, <4>2, <3>1, <1>1 DEF Registered
      <4> QED
        BY Zenon, <4>1, <4>2
    <3>4. w # None => Waiting(w) /\ d \in events[m]
      BY Zenon, <3>1, <3>2 DEF WaiterOK
    <3>5. w # None => Still(w) /\ (w \in queue' <=> w \in queue)
      BY Zenon, <3>2, <3>4, <1>1, <1>3 DEF Waiting, Registered
    <3>6. w # None /\ Watched(m, d) => Watched(m, d)'
      <4>1. SUFFICES ASSUME d \in events[m], Watched(m, d) PROVE Watched(m, d)'
        BY Zenon, <3>4
      <4>2. CASE m = n
        BY Zenon, <4>1, <4>2, <1>0, <1>1 DEF Watched, Registered
      <4>3. CASE m # n
        <5>0. socket[m] # 0 /\ socket[m] \in 0..MaxSockets /\ MaxSockets \in Nat
          BY ZenonT(60), <4>1, <1>2, HookAssumption DEF Watched, Types
        <5>1. socket[m] # 0 /\ d \in interest[socket[m]] /\ n \in Numbers
          BY Zenon, <4>1, <1>1 DEF Watched, Registered
        <5>2. socket[m] \in Sockets
          BY <5>0 DEF Sockets
        <5>3. socket[m] # socket[n]
          BY Zenon, <5>1, <4>3, <1>2 DEF SocketOK
        <5>4. interest'[socket[m]] = interest[socket[m]]
          BY Zenon, <5>2, <5>3, <1>1 DEF Registered
        <5> QED
          BY Zenon, <5>1, <5>4, <1>0 DEF Watched
      <4> QED
        BY Zenon, <4>2, <4>3
    <3>7. w # None /\ Clean(m, d) => Clean(m, d)'
      BY Zenon, <3>6, <1>0, <1>12 DEF Clean
    <3> QED
      BY ZenonT(60), <3>1, <3>2, <3>3, <3>5, <3>7, <1>0, WaiterStill
  <2> QED
    BY Zenon, <2>1, <2>2
<1> QED
  BY ZenonT(60), <1>6, <1>7, <1>8, <1>9, <1>10, <1>11, <1>13, <1>14 DEF HookIInv

(* addEvent, whether it succeeds, fails or asserts.                         *)
LEMMA addIInv ==
  ASSUME HookIInv, NEW f \in Fibers, add(f)
  PROVE  HookIInv'
<1>0. SUFFICES ASSUME NEW n, n = call(f).fd, NEW e, e = event(call(f)) PROVE HookIInv'
  OBVIOUS
<1>1. pc[f] = "add" /\ pc[f] \in Calm /\ call(f).op \in WaitCalls /\ Types
  <2>1. "add" \in {"try", "arm", "add", "test", "getsockopt"}
    OBVIOUS
  <2> QED
    BY Zenon, <2>1, CalmLabels DEF add, Running, HookIInv, PlaceOK
<1>2. UNCHANGED <<program, workers, kernelVars, m_datas>>
  BY Zenon DEF add
<1>3. CASE UNCHANGED <<fiberVars, timerVars, eventVars>>
  <2>1. UNCHANGED <<pos, pc, to, race, newfd, cancelled, armed, due, firing, socket, opened>>
    BY Zenon, <1>2, <1>3 DEF fiberVars, timerVars, kernelVars
  <2>2. race' \in [Fibers -> SUBSET {"early", "stale", "closing"}] /\ firing' \subseteq firing
    BY Zenon, <2>1, <1>1 DEF Types
  <2>3. \A g \in Fibers : NearStill(g) /\ WakeKept(g)
    BY Zenon, <2>1 DEF NearStill, WakeKept
  <2> QED
    BY Zenon, <2>1, <2>2, <2>3, <1>2, <1>3, NearIInv
<1>4. CASE /\ UNCHANGED <<newfd, eventVars, aborted>>
           /\ armed' = [armed EXCEPT ![f] = FALSE] /\ Goto(f, "getsockopt")
           /\ UNCHANGED <<pos, answer, to, race, cancelled, due, firing>>
  <2>1. pc'[f] = "getsockopt" /\ Goto(f, pc'[f]) /\ armed' \in [Fibers -> BOOLEAN] /\ ~armed'[f]
        /\ \A g \in Fibers \ {f} : armed'[g] = armed[g]
    BY Zenon, <1>1, <1>4 DEF Types, Goto
  <2>2. "getsockopt" \in InCall /\ "getsockopt" \in {"direct", "try", "arm", "add", "test", "getsockopt"} /\ "getsockopt" # "add"
        /\ "getsockopt" \in {"test", "getsockopt"}
    BY DEF InCall
  <2>3. to' \in [Fibers -> BOOLEAN] /\ \A g \in Fibers \ {f} : to'[g] = to[g]
    BY Zenon, <1>1, <1>4 DEF Types
  <2>4. UNCHANGED <<program, workers, newfd, pos, race, cancelled, due, firing, eventVars, socket, opened, m_datas>>
    BY Zenon, <1>2, <1>4 DEF kernelVars
  <2> QED
    BY Zenon, <2>1, <2>2, <2>3, <2>4, <1>1, GoIInv
<1>5. CASE UNCHANGED <<newfd, eventVars, aborted>> /\ Return(f, "error")
  BY Zenon, <1>1, <1>2, <1>5, ReturnIInv, SameContextsKept DEF kernelVars
<1>6. CASE /\ e \notin events[n] /\ ~EpollCtlFails(n) /\ addEvent(f, n, e) /\ Goto(f, "yield")
           /\ race' = [race EXCEPT ![f] = IF Closing(n) THEN @ \cup {"closing"} ELSE @]
           /\ UNCHANGED <<pos, answer, to, newfd, timerVars, aborted>>
  <2>1. Registers(f, n, e)
    BY Zenon, <1>0, <1>1, <1>2, <1>6 DEF Registers, kernelVars
  <2> QED
    BY Zenon, <2>1, RegisterIInv
<1> QED
  BY Zenon, <1>0, <1>3, <1>4, <1>5, <1>6 DEF add

-----------------------------------------------------------------------------
(* close_f: the number is free, and epoll forgets the socket.               *)
LEMMA close_fIInv ==
  ASSUME HookIInv, NEW f \in Fibers, close_f(f)
  PROVE  HookIInv'
<1>0. SUFFICES ASSUME NEW n, n = call(f).fd PROVE HookIInv'
  OBVIOUS
<1>1. UNCHANGED <<program, workers, newfd, queue, events, waiter, opened, m_datas>>
  BY Zenon DEF close_f
<1>2. pc[f] = "close_f" /\ Types /\ SocketOK
  BY Zenon DEF close_f, Running, HookIInv
<1>3. pc[f] \in Inside /\ pc[f] \in {"del", "close_f"} /\ pc[f] # "get" /\ pc[f] # "end" /\ pc[f] \notin Away
  BY <1>2 DEF Inside, Labels, Away
<1>4. n \in Numbers /\ newfd' \in [Fibers -> Numbers \cup {None}]
  BY Zenon, <1>0, <1>1, <1>2, <1>3, CallTyped DEF Types
<1>5. PICK r : Return(f, r)
  BY Zenon DEF close_f
<1>6. FiberTypes' /\ firing' = firing
  BY Zenon, <1>4, <1>5, ReturnTypes
<1>7. PlaceOK(f)' /\ WakeOK(f)' /\ (\A k \in firing : k.fiber = f => CallbackOK(k)') /\ pc'[f] \in {"begin", "end"}
  BY Zenon, <1>1, <1>3, <1>4, <1>5, ReturnOK
<1>8. \A g \in Fibers \ {f} : Still(g)
  BY Zenon, <1>1, <1>5, ReturnStill
<1>9. MaxSockets \in Nat /\ socket' = [socket EXCEPT ![n] = 0]
      /\ interest' = [s \in Sockets |-> IF s = socket[n] THEN {} ELSE interest[s]]
  BY Zenon, <1>0, HookAssumption DEF close_f
<1>10. 0 \in 0..MaxSockets /\ 0 \notin Sockets
  BY <1>9 DEF Sockets
<1>11. socket' \in [Numbers -> 0..MaxSockets] /\ socket'[n] = 0 /\ \A m \in Numbers \ {n} : socket'[m] = socket[m]
  BY Zenon, <1>2, <1>4, <1>9, <1>10 DEF Types
<1>12. interest' \in [Sockets -> SUBSET Event] /\ \A s \in Sockets : interest'[s] = IF s = socket[n] THEN {} ELSE interest[s]
  BY Zenon, <1>2, <1>9 DEF Types
<1>13. Types'
  BY Zenon, <1>1, <1>2, <1>6, <1>11, <1>12 DEF Types, FiberTypes, Sockets
<1>14. SocketOK'
  <2>1. opened \in Nat
    BY <1>2, HookAssumption DEF Types, Sockets
  <2>2. 0 <= opened
    BY <2>1
  <2>3. \A m \in Numbers : socket'[m] <= opened'
    BY Zenon, <2>2, <1>1, <1>2, <1>11 DEF SocketOK
  <2>4. \A s \in Sockets : s > opened' => interest'[s] = {}
    BY Zenon, <1>1, <1>2, <1>12 DEF SocketOK
  <2>5. \A m1, m2 \in Numbers : socket'[m1] = socket'[m2] /\ socket'[m1] # 0 => m1 = m2
    BY Zenon, <1>2, <1>11 DEF SocketOK
  <2> QED
    BY ZenonT(60), <2>3, <2>4, <2>5 DEF SocketOK, Sockets
<1>15. ASSUME NEW g \in Fibers PROVE PlaceOK(g)' /\ WakeOK(g)'
  <2>1. CASE g = f
    BY Zenon, <2>1, <1>7
  <2>2. CASE g # f
    BY Zenon, <2>2, <1>1, <1>6, <1>8, StillOK DEF HookIInv
  <2> QED
    BY Zenon, <2>1, <2>2
<1>16. ASSUME NEW k \in firing PROVE CallbackOK(k)'
  <2>1. CASE k.fiber = f
    BY Zenon, <2>1, <1>7
  <2>2. CASE k.fiber # f
    <3>1. k.fiber \in Fibers
      BY <1>2 DEF Types
    <3>2. Still(k.fiber) /\ CallbackOK(k)
      BY Zenon, <2>2, <3>1, <1>8 DEF HookIInv
    <3> QED
      BY Zenon, <3>2, <1>1 DEF Still, CallbackOK, call, event
  <2> QED
    BY Zenon, <2>1, <2>2
<1>17. ASSUME NEW g \in Fibers, g # f
       PROVE  pc'[g] = pc[g] /\ call(g)' = call(g) /\ newfd'[g] = newfd[g]
  BY Zenon, <1>1, <1>8, <1>17 DEF Still, call
<1>18. pc'[f] \notin {"del", "close_f"} /\ pc'[f] # "get"
  BY <1>7
<1>19. \A m : Getting(m)' = Getting(m)
  BY Zenon, <1>3, <1>17, <1>18 DEF Getting
<1>20. Closing(n)
  BY Zenon, <1>0, <1>3 DEF Closing
<1>21. \A m : m # n => Closing(m)' = Closing(m)
  BY Zenon, <1>0, <1>17, <1>18 DEF Closing
<1>22. ASSUME NEW m \in Numbers, m # n, socket[m] # 0 PROVE interest'[socket[m]] = interest[socket[m]]
  <2>1. socket[m] \in 0..MaxSockets
    BY Zenon, <1>2 DEF Types
  <2>2. socket[m] \in Sockets
    BY <2>1, <1>9, <1>22 DEF Sockets
  <2>3. socket[m] # socket[n]
    BY Zenon, <1>2, <1>4, <1>22 DEF SocketOK
  <2> QED
    BY Zenon, <2>2, <2>3, <1>12
<1>23. ASSUME NEW m \in Numbers PROVE ContextOK(m)' /\ InterestOK(m)' /\ \A e \in Event : WaiterOK(m, e)'
  <2>1. ContextOK(m)' /\ InterestOK(m)'
    <3>1. CASE m = n
      BY Zenon, <3>1, <1>11 DEF ContextOK, InterestOK
    <3>2. CASE m # n
      BY Zenon, <3>2, <1>1, <1>11, <1>19, <1>21, <1>22 DEF HookIInv, ContextOK, InterestOK
    <3> QED
      BY Zenon, <3>1, <3>2
  <2>2. ASSUME NEW e \in Event PROVE WaiterOK(m, e)'
    <3>1. WaiterOK(m, e)
      BY Zenon DEF HookIInv
    <3>2. waiter[m][e] # None => Still(waiter[m][e])
      <4>1. waiter[m][e] \in Fibers \cup {None}
        BY <1>2 DEF Types
      <4>2. waiter[m][e] # None => pc[waiter[m][e]] \in Away
        BY Zenon, <3>1 DEF WaiterOK, Waiting
      <4> QED
        BY Zenon, <4>1, <4>2, <1>3, <1>8
    <3>3. Clean(m, e) => Clean(m, e)'
      <4>1. CASE m = n
        BY Zenon, <4>1, <1>20 DEF Clean
      <4>2. CASE m # n
        BY Zenon, <4>2, <1>1, <1>11, <1>19, <1>21, <1>22 DEF Clean, Watched
      <4> QED
        BY Zenon, <4>1, <4>2
    <3> QED
      BY Zenon, <3>1, <3>2, <3>3, <1>1, WaiterStill
  <2> QED
    BY Zenon, <2>1, <2>2
<1> QED
  BY Zenon, <1>6, <1>13, <1>14, <1>15, <1>16, <1>23 DEF HookIInv

-----------------------------------------------------------------------------
(* The peers change none of this, nor does a step that changes nothing.     *)
LEMMA SameIInv ==
  ASSUME HookIInv,
         UNCHANGED <<program, workers, pos, pc, to, race, newfd, timerVars, eventVars, socket, opened, m_datas>>
  PROVE  HookIInv'
<1>1. UNCHANGED <<cancelled, armed, due, firing>>
  BY Zenon DEF timerVars
<1>2. race' \in [Fibers -> SUBSET {"early", "stale", "closing"}] /\ firing' \subseteq firing
  BY Zenon, <1>1 DEF HookIInv, Types
<1>3. \A g \in Fibers : NearStill(g) /\ WakeKept(g)
  BY Zenon, <1>1 DEF NearStill, WakeKept
<1> QED
  BY Zenon, <1>1, <1>2, <1>3, NearIInv

(* The invariant holds at the start,                                        *)
LEMMA InitIInv ==
  ASSUME Init
  PROVE  HookIInv
<1>1. /\ pos = [f \in Fibers |-> 1] /\ pc = [f \in Fibers |-> "ready"] /\ race = [f \in Fibers |-> {}]
      /\ queue = Fibers /\ firing = {} /\ to = [f \in Fibers |-> FALSE] /\ cancelled = to /\ armed = to /\ due = to
      /\ events = [n \in Numbers |-> {}] /\ waiter = [n \in Numbers |-> [e \in Event |-> None]]
      /\ interest = [s \in Sockets |-> {}] /\ newfd = [f \in Fibers |-> None] /\ opened = 1
      /\ socket = [n \in Numbers |-> IF n = 1 THEN 1 ELSE 0]
      /\ m_datas = [n \in Numbers |-> IF n = 1 THEN FdCtx(1) ELSE None]
  BY Zenon DEF Init
<1>2. MaxSockets \in Nat \ {0} /\ 1 \in Numbers /\ None \notin Contexts
  BY Zenon, HookAssumption DEF Contexts
<1>3. 1 \in Nat /\ "ready" \in Labels /\ 0 \in 0..MaxSockets /\ 1 \in 0..MaxSockets /\ 1 \in Sockets /\ FdCtx(1) \in Contexts
  BY <1>2 DEF Labels, Sockets, FdCtx, Contexts
<1>4. Types
  <2>1. /\ pos \in [Fibers -> Nat] /\ pc \in [Fibers -> Labels] /\ queue \subseteq Fibers
        /\ race \in [Fibers -> SUBSET {"early", "stale", "closing"}] /\ newfd \in [Fibers -> Numbers \cup {None}]
    BY Zenon, <1>1, <1>3
  <2>2. /\ to \in [Fibers -> BOOLEAN] /\ cancelled \in [Fibers -> BOOLEAN]
        /\ armed \in [Fibers -> BOOLEAN] /\ due \in [Fibers -> BOOLEAN]
    BY Zenon, <1>1
  <2>3. firing \subseteq [fiber : Fibers, pos : Nat, fd : Numbers, event : Event]
        /\ events \in [Numbers -> SUBSET Event] /\ waiter \in [Numbers -> [Event -> Fibers \cup {None}]]
    BY Zenon, <1>1
  <2>4. socket \in [Numbers -> 0..MaxSockets] /\ interest \in [Sockets -> SUBSET Event] /\ opened \in Sockets
        /\ m_datas \in [Numbers -> Contexts \cup {None}]
    BY Zenon, <1>1, <1>3
  <2>5. program \in Programs /\ workers \in WorkerCounts
    BY Zenon DEF Init
  <2> QED
    BY Zenon, <2>1, <2>2, <2>3, <2>4, <2>5 DEF Types
<1>5. SocketOK
  <2>1. \A n \in Numbers : socket[n] = (IF n = 1 THEN 1 ELSE 0)
    BY Zenon, <1>1
  <2>2. \A n \in Numbers : socket[n] <= opened
    BY <2>1, <1>1
  <2>3. \A n, m \in Numbers : socket[n] = socket[m] /\ socket[n] # 0 => n = m
    BY <2>1
  <2>4. \A s \in Sockets : s > opened => interest[s] = {}
    BY Zenon, <1>1
  <2> QED
    BY Zenon, <2>2, <2>3, <2>4 DEF SocketOK
<1>6. ASSUME NEW f \in Fibers PROVE PlaceOK(f) /\ WakeOK(f)
  <2>1. pc[f] = "ready" /\ pos[f] = 1 /\ f \in queue /\ ~armed[f] /\ ~due[f] /\ ~cancelled[f]
    BY Zenon, <1>1
  <2>2. pos[f] \in 1..Len(program[f])
    <3>1. program[f] \in Seq(Calls) /\ program[f] # <<>>
      BY HookAssumption DEF Init
    <3>2. Len(program[f]) \in Nat /\ Len(program[f]) >= 1
      BY <3>1
    <3> QED
      BY <2>1, <3>2
  <2>3. pc[f] \in Away \cup {"ready"} /\ pc[f] \notin Away
        /\ pc[f] \notin {"try", "arm", "add", "test", "getsockopt"} /\ pc[f] \notin {"yield", "hold", "woken"}
        /\ pc[f] \notin {"del", "close_f"} /\ pc[f] # "get" /\ pc[f] # "add"
    BY <2>1 DEF Away
  <2>4. PlaceOK(f)
    BY Zenon, <2>1, <2>2, <2>3 DEF PlaceOK
  <2>5. WakeOK(f)
    BY Zenon, <2>1, <2>3 DEF WakeOK, Waiting
  <2> QED
    BY Zenon, <2>4, <2>5
<1>7. ASSUME NEW n \in Numbers PROVE ContextOK(n) /\ InterestOK(n) /\ \A e \in Event : WaiterOK(n, e)
  <2>1. events[n] = {} /\ \A e \in Event : waiter[n][e] = None
    BY Zenon, <1>1
  <2>2. (n = 1 => socket[n] = 1 /\ m_datas[n] # None) /\ (n # 1 => socket[n] = 0) /\ interest[1] = {}
    BY Zenon, <1>1, <1>2, <1>3
  <2> QED
    BY Zenon, <2>1, <2>2 DEF ContextOK, InterestOK, WaiterOK
<1> QED
  BY Zenon, <1>1, <1>4, <1>5, <1>6, <1>7 DEF HookIInv

(* is kept by every step of a fiber                                         *)
LEMMA StepIInv ==
  ASSUME HookIInv, NEW f \in Fibers, Step(f)
  PROVE  HookIInv'
<1>1. CASE gone(f) \/ do_io(f) \/ direct(f) \/ try(f) \/ arm(f) \/ add(f) \/ YieldToHold(f) \/ woken(f) \/ test(f)
  BY Zenon, <1>1, goneIInv, do_ioIInv, directIInv, tryIInv, armIInv, addIInv, YieldToHoldIInv, wokenIInv, testIInv
<1>2. CASE connect(f) \/ getsockopt(f) \/ socket_f(f) \/ get(f) \/ close(f) \/ del(f) \/ close_f(f)
  BY Zenon, <1>2, connectIInv, getsockoptIInv, socket_fIInv, getIInv, closeIInv, delIInv, close_fIInv
<1>3. CASE setsockopt(f) \/ sleep(f)
  BY Zenon, <1>3, setsockoptIInv, sleepIInv
<1>4. CASE fcntl(f)
  BY Zenon, <1>4, SetNonblockIInv DEF fcntl
<1>5. CASE ioctl(f)
  <2>1. SUFFICES ASSUME NEW b, SetNonblock(f, "ioctl", b) PROVE HookIInv'
    BY Zenon, <1>5 DEF ioctl
  <2> QED
    BY Zenon, <2>1, SetNonblockIInv
<1> QED
  BY Zenon, <1>1, <1>2, <1>3, <1>4, <1>5 DEF Step

(* and by every step.                                                       *)
LEMMA NextIInv ==
  ASSUME HookIInv, [Next]_vars
  PROVE  HookIInv'
<1>1. CASE System
  BY Zenon, <1>1, StepIInv, ResumeIInv, ExpireIInv, OnTimerIInv, cancelEventIInv, DispatchIInv DEF System
<1>2. ASSUME NEW s \in Sockets, NEW e \in Event, Arrive(s, e) PROVE HookIInv'
  BY Zenon, <1>2, SameIInv DEF Arrive, fiberVars
<1>3. ASSUME NEW s \in Sockets, NEW r \in {"up", "refused"}, Establish(s, r) PROVE HookIInv'
  BY Zenon, <1>3, SameIInv DEF Establish, fiberVars
<1>4. CASE UNCHANGED vars
  BY Zenon, <1>4, SameIInv DEF vars, fiberVars, kernelVars
<1> QED
  BY Zenon, <1>1, <1>2, <1>3, <1>4 DEF Next

-----------------------------------------------------------------------------
(* The workers: a step of a call is taken by a fiber that is on one.        *)
OnOne == Labels \ {"ready", "hold", "end"}
OwnStep(f) ==
  /\ aborted = None /\ pc[f] \in OnOne /\ ((\E l : Goto(f, l)) \/ pc' = pc)
  /\ UNCHANGED <<program, workers, firing>>

(* The places of a fiber that is on a worker.                               *)
LEMMA OwnLabels ==
  /\ "begin" \in OnOne /\ "direct" \in OnOne /\ "try" \in OnOne /\ "arm" \in OnOne /\ "add" \in OnOne /\ "yield" \in OnOne
  /\ "woken" \in OnOne /\ "test" \in OnOne /\ "getsockopt" \in OnOne /\ "get" \in OnOne /\ "del" \in OnOne /\ "close_f" \in OnOne
BY DEF OnOne, Labels

(* A call that returns moves its fiber only.                                *)
LEMMA ReturnOwn ==
  ASSUME NEW f, NEW r, Return(f, r)
  PROVE  (\E l : Goto(f, l)) /\ firing' = firing
BY Zenon DEF Return, DropTinfo

(* So does the system call.                                                 *)
LEMMA funOwn ==
  ASSUME NEW f, NEW label, NEW ACTION again, fun(f, label, again), again => (\E l : Goto(f, l)) /\ firing' = firing
  PROVE  aborted = None /\ pc[f] = label /\ (\E l : Goto(f, l)) /\ UNCHANGED <<program, workers, firing>>
<1>1. aborted = None /\ pc[f] = label /\ UNCHANGED <<program, workers>>
  BY Zenon DEF fun, Running
<1>2. \/ \E r \in {"EBADF", "ENOTCONN", "ok", "EMFILE"} : Return(f, r)
      \/ \E n \in FreeNumber : Open(f, n, "up") /\ DropTinfo(f)
      \/ again
  BY Zenon DEF fun
<1>3. (\E l : Goto(f, l)) /\ firing' = firing
  <2>1. CASE \E r \in {"EBADF", "ENOTCONN", "ok", "EMFILE"} : Return(f, r)
    BY Zenon, <2>1, ReturnOwn
  <2>2. CASE \E n \in FreeNumber : Open(f, n, "up") /\ DropTinfo(f)
    BY Zenon, <2>2 DEF Open, DropTinfo
  <2> QED
    BY Zenon, <2>1, <2>2, <1>2
<1> QED
  BY Zenon, <1>1, <1>3

(* A step of a fiber is a step on its worker.                               *)
LEMMA StepOwn ==
  ASSUME NEW f \in Fibers, Step(f)
  PROVE  OwnStep(f)
<1>1. CASE gone(f) \/ getsockopt(f) \/ setsockopt(f)
  BY Zenon, <1>1, ReturnOwn, OwnLabels DEF gone, getsockopt, setsockopt, Running, OwnStep
<1>2. CASE fcntl(f) \/ ioctl(f)
  BY Zenon, <1>2, ReturnOwn, OwnLabels DEF fcntl, ioctl, SetNonblock, Running, OwnStep
<1>3. CASE do_io(f) \/ arm(f) \/ YieldToHold(f) \/ del(f) \/ sleep(f)
  BY Zenon, <1>3, OwnLabels DEF do_io, arm, YieldToHold, del, sleep, timerVars, Running, OwnStep
<1>4. CASE direct(f)
  <2>1. fun(f, "direct", Return(f, "EAGAIN"))
    BY Zenon, <1>4 DEF direct
  <2>2. Return(f, "EAGAIN") => (\E l : Goto(f, l)) /\ firing' = firing
    BY Zenon, ReturnOwn
  <2> QED
    BY Zenon, <2>1, <2>2, funOwn, OwnLabels DEF OwnStep
<1>5. CASE try(f)
  <2>1. aborted = None /\ pc[f] = "try" /\ UNCHANGED <<program, workers>>
    BY Zenon, <1>5 DEF try, fun, Running
  <2>2. \/ \E r \in {"EBADF", "ENOTCONN", "ok", "EMFILE"} : Return(f, r)
        \/ \E n \in FreeNumber : Open(f, n, "up") /\ DropTinfo(f)
        \/ Goto(f, "arm") /\ UNCHANGED timerVars
    BY Zenon, <1>5 DEF try, fun
  <2>3. CASE \E r \in {"EBADF", "ENOTCONN", "ok", "EMFILE"} : Return(f, r)
    BY Zenon, <2>1, <2>3, ReturnOwn, OwnLabels DEF OwnStep
  <2>4. CASE \E n \in FreeNumber : Open(f, n, "up") /\ DropTinfo(f)
    BY Zenon, <2>1, <2>4, OwnLabels DEF Open, DropTinfo, OwnStep
  <2>5. CASE Goto(f, "arm") /\ UNCHANGED timerVars
    BY Zenon, <2>1, <2>5, OwnLabels DEF timerVars, OwnStep
  <2> QED
    BY Zenon, <2>2, <2>3, <2>4, <2>5
<1>6. CASE add(f)
  BY Zenon, <1>6, ReturnOwn, OwnLabels DEF add, fiberVars, timerVars, Running, OwnStep
<1>7. CASE woken(f) \/ test(f)
  BY Zenon, <1>7, ReturnOwn, OwnLabels DEF woken, test, timerVars, Running, OwnStep
<1>8. CASE connect(f)
  BY Zenon, <1>8, ReturnOwn, OwnLabels DEF connect, timerVars, Running, OwnStep
<1>9. CASE socket_f(f)
  BY Zenon, <1>9, ReturnOwn, OwnLabels DEF socket_f, Open, timerVars, Running, OwnStep
<1>10. CASE get(f) \/ close_f(f)
  BY Zenon, <1>10, ReturnOwn, OwnLabels DEF get, close_f, Running, OwnStep
<1>11. CASE close(f)
  BY Zenon, <1>11, OwnLabels DEF close, timerVars, Running, OwnStep
<1> QED
  BY ZenonT(60), <1>1, <1>2, <1>3, <1>4, <1>5, <1>6, <1>7, <1>8, <1>9, <1>10, <1>11 DEF Step

(* addEvent finds its event registered only when one of the two fibers is   *)
(* not at its own socket: two that are wait for different events.           *)
LEMMA NextAbort ==
  ASSUME HookIInv, AbortOnlyWhenStale, [Next]_vars
  PROVE  AbortOnlyWhenStale'
<1>1. SUFFICES ASSUME aborted' = "addEvent" PROVE \E f \in Fibers : pc'[f] \in {"add", "yield", "hold"} /\ ~Mine(f)'
  BY Zenon DEF AbortOnlyWhenStale
<1>2. CASE aborted # None
  <2>1. UNCHANGED vars
    <3>1. \A f \in Fibers : ~Step(f)
      BY Zenon, <1>2, StepOwn DEF OwnStep
    <3>2. ~System
      BY Zenon, <1>2, <3>1 DEF System, Resume, Expire, OnTimer, cancelEvent, Dispatch, Free
    <3> QED
      BY Zenon, <1>2, <3>2 DEF Next, Arrive, Establish
  <2>2. UNCHANGED <<aborted, pc, pos, program, socket>>
    BY Zenon, <2>1 DEF vars, fiberVars, kernelVars
  <2> QED
    BY Zenon, <2>2, <1>1 DEF AbortOnlyWhenStale, Mine, call
<1>3. CASE aborted = None
  <2>1. aborted' # aborted
    BY Zenon, <1>1, <1>3, HookAssumption
  <2>2. PICK f \in Fibers : add(f) /\ event(call(f)) \in events[call(f).fd]
    <3>1. ASSUME NEW f \in Fibers, Step(f) PROVE add(f)
      <4>2. ~(gone(f) \/ do_io(f) \/ direct(f) \/ try(f) \/ arm(f) \/ YieldToHold(f) \/ woken(f) \/ test(f))
        BY Zenon, <2>1 DEF gone, do_io, direct, try, fun, arm, YieldToHold, woken, test
      <4>3. ~(connect(f) \/ getsockopt(f) \/ socket_f(f) \/ get(f) \/ del(f) \/ close_f(f))
        BY Zenon, <2>1 DEF connect, getsockopt, socket_f, get, del, close_f
      <4>4. ~(setsockopt(f) \/ fcntl(f) \/ ioctl(f) \/ sleep(f))
        BY Zenon, <2>1 DEF setsockopt, fcntl, ioctl, SetNonblock, sleep
      <4>5. ~close(f)
        <5>1. close(f) => aborted' \in {aborted, None, "triggerEvent"}
          BY Zenon DEF close
        <5>2. "triggerEvent" # "addEvent"
          OBVIOUS
        <5> QED
          BY Zenon, <5>1, <5>2, <2>1, <1>1, <1>3
      <4> QED
        BY Zenon, <3>1, <4>2, <4>3, <4>4, <4>5 DEF Step
    <3>2. \A f \in Fibers : ~Resume(f) /\ ~Expire(f) /\ ~OnTimer(f)
      BY Zenon, <2>1 DEF Resume, Expire, OnTimer
    <3>3. (\A k \in firing : ~cancelEvent(k)) /\ \A n \in Numbers : ~Dispatch(n)
      BY Zenon, <2>1 DEF cancelEvent, Dispatch
    <3>4. System
      BY Zenon, <2>1 DEF Next, Arrive, Establish, vars
    <3>5. PICK f \in Fibers : add(f)
      BY Zenon, <3>1, <3>2, <3>3, <3>4 DEF System
    <3>6. event(call(f)) \in events[call(f).fd]
      BY Zenon, <3>5, <2>1 DEF add
    <3> QED
      BY Zenon, <3>5, <3>6
  <2>3. SUFFICES ASSUME NEW n, n = call(f).fd, NEW e, e = event(call(f)), NEW w, w = waiter[n][e]
                 PROVE  \E g \in Fibers : pc'[g] \in {"add", "yield", "hold"} /\ ~Mine(g)'
    BY ZenonT(60)
  <2>4. pc[f] = "add" /\ e \in events[n] /\ pc[f] # "end" /\ pc[f] \notin Away /\ pc[f] \in {"try", "arm", "add", "test", "getsockopt"}
    BY SMTT(60), <2>2, <2>3 DEF add, Running, Away
  <2>5. n \in Numbers /\ e \in Event /\ call(f).op \in WaitCalls
    BY ZenonT(60), <2>3, <2>4, CallTyped DEF event, Event, HookIInv, PlaceOK
  <2>6. w \in Fibers /\ Waiting(w) /\ call(w).op # "sleep" /\ call(w).fd = n /\ event(call(w)) = e
    <3>1. WaiterOK(n, e) /\ w \in Fibers \cup {None}
      <4>1. WaiterOK(n, e) /\ waiter \in [Numbers -> [Event -> Fibers \cup {None}]]
        BY Zenon, <2>5 DEF HookIInv, Types
      <4> QED
        BY Zenon, <2>3, <2>5, <4>1
    <3> QED
      BY ZenonT(60), <3>1, <2>3, <2>4 DEF WaiterOK
  <2>7. pc[w] \in {"yield", "hold", "woken"} /\ pc[w] \in {"add", "yield", "hold"} /\ pc[w] # "end"
    BY <2>6 DEF Waiting, Away
  <2>8. call(w).op \in WaitCalls /\ w # f
    BY Zenon, <2>4, <2>6, <2>7 DEF HookIInv, PlaceOK, Waiting
  <2>9. ~Mine(f) \/ ~Mine(w)
    <3>1. SUFFICES ASSUME call(f).sock = call(w).sock PROVE FALSE
      BY Zenon, <2>3, <2>6 DEF Mine
    <3>2. pos[f] \in DOMAIN program[f] /\ pos[w] \in DOMAIN program[w] /\ program \in Programs
      BY ZenonT(60), <2>4, <2>6, <2>7, CallTyped DEF HookIInv, Types
    <3>3. \A i \in DOMAIN program[f], j \in DOMAIN program[w] :
            /\ f # w /\ program[f][i].op \in WaitCalls /\ program[w][j].op \in WaitCalls
            /\ program[f][i].sock = program[w][j].sock
            => event(program[f][i]) # event(program[w][j])
      BY Zenon, <3>2, <2>6, OneWaiterAssumption
    <3>4. event(program[f][pos[f]]) # event(program[w][pos[w]])
      BY Zenon, <3>1, <3>2, <3>3, <2>5, <2>8 DEF call
    <3> QED
      BY Zenon, <3>4, <2>3, <2>6 DEF call
  <2>10. UNCHANGED <<pc, pos, program, socket>>
    BY Zenon, <2>2 DEF add, fiberVars, kernelVars
  <2>11. \A g : Mine(g)' = Mine(g)
    BY Zenon, <2>10 DEF Mine, call
  <2>12. pc'[f] \in {"add", "yield", "hold"} /\ pc'[w] \in {"add", "yield", "hold"}
    BY <2>4, <2>7, <2>10
  <2> QED
    BY Zenon, <2>6, <2>9, <2>11, <2>12
<1> QED
  BY Zenon, <1>2, <1>3

-----------------------------------------------------------------------------
(* One worker runs one fiber or one callback.                               *)
LEMMA Alone ==
  ASSUME OneRuns, workers = 1, NEW f \in Fibers, pc[f] \notin {"ready", "hold", "end"}
  PROVE  firing = {} /\ \A g \in Fibers : pc[g] \notin {"ready", "hold", "end"} => g = f
BY Zenon DEF OneRuns

(* So with one worker no callback and no close comes between the steps of a *)
(* call.                                                                    *)
LEMMA NextRace ==
  ASSUME HookIInv, OneRuns, RaceInv, [Next]_vars
  PROVE  RaceInv'
<1>0. workers' = workers
  <2>1. CASE System
    BY Zenon, <2>1, StepOwn DEF System, OwnStep, Resume, Expire, OnTimer, cancelEvent, Dispatch
  <2> QED
    BY Zenon, <2>1 DEF Next, Arrive, Establish, vars
<1>1. SUFFICES ASSUME workers = 1, NEW g \in Fibers PROVE race'[g] \subseteq {"stale"}
  BY Zenon, <1>0 DEF RaceInv
<1>2. race \in [Fibers -> SUBSET {"early", "stale", "closing"}] /\ race[g] \subseteq {"stale"}
  BY Zenon, <1>1 DEF RaceInv, HookIInv, Types
<1>3. ASSUME race' = race PROVE race'[g] \subseteq {"stale"}
  BY Zenon, <1>2, <1>3
<1>4. ASSUME NEW f \in Fibers, DropTinfo(f) PROVE race'[g] \subseteq {"stale"}
  BY Zenon, <1>2, <1>4 DEF DropTinfo
<1>5. ASSUME NEW f \in Fibers, NEW r, Return(f, r) PROVE race'[g] \subseteq {"stale"}
  BY Zenon, <1>4, <1>5 DEF Return
<1>6. ASSUME NEW f \in Fibers, Step(f) PROVE race'[g] \subseteq {"stale"}
  <2>1. CASE gone(f) \/ do_io(f) \/ direct(f) \/ try(f) \/ arm(f) \/ YieldToHold(f) \/ woken(f) \/ test(f)
    BY Zenon, <2>1, <1>3, <1>4, <1>5 DEF gone, do_io, direct, try, fun, arm, YieldToHold, woken, test
  <2>2. CASE connect(f) \/ getsockopt(f) \/ socket_f(f) \/ get(f) \/ close(f) \/ del(f) \/ close_f(f)
    BY Zenon, <2>2, <1>3, <1>5 DEF connect, getsockopt, socket_f, get, close, del, close_f
  <2>3. CASE setsockopt(f) \/ fcntl(f) \/ ioctl(f) \/ sleep(f)
    BY Zenon, <2>3, <1>3, <1>5 DEF setsockopt, fcntl, ioctl, SetNonblock, sleep
  <2>4. CASE add(f)
    <3>1. SUFFICES ASSUME NEW n, race' = [race EXCEPT ![f] = IF Closing(n) THEN @ \cup {"closing"} ELSE @]
                   PROVE  race'[g] \subseteq {"stale"}
      BY ZenonT(60), <2>4, <1>3, <1>5 DEF add, fiberVars
    <3>2. pc[f] \notin {"ready", "hold", "end"} /\ pc[f] \notin {"del", "close_f"}
      BY <2>4 DEF add, Running
    <3>3. ~Closing(n)
      <4>1. SUFFICES ASSUME NEW h \in Fibers, pc[h] \in {"del", "close_f"} PROVE FALSE
        BY Zenon DEF Closing
      <4>2. pc[h] \notin {"ready", "hold", "end"}
        BY <4>1
      <4> QED
        BY Zenon, <4>1, <4>2, <3>2, <1>1, Alone
    <3>4. race' = [race EXCEPT ![f] = race[f]]
      BY Zenon, <3>1, <3>3
    <3>5. race'[g] = race[g]
      BY Zenon, <3>4, <1>2
    <3> QED
      BY Zenon, <3>5, <1>2
  <2> QED
    BY Zenon, <2>1, <2>2, <2>3, <2>4, <1>6 DEF Step
<1>7. ASSUME NEW k \in firing, cancelEvent(k) PROVE race'[g] \subseteq {"stale"}
  <2>1. pc[g] \notin {"try", "arm", "add"}
    <3>1. SUFFICES ASSUME pc[g] \in {"try", "arm", "add"} PROVE FALSE
      OBVIOUS
    <3>2. pc[g] \notin {"ready", "hold", "end"}
      BY <3>1
    <3> QED
      BY Zenon, <3>2, <1>1, Alone
  <2>2. race'[g] = race[g] \cup (IF Same(g, k) /\ pc[g] \in {"try", "arm", "add"} THEN {"early"} ELSE {})
                           \cup (IF ~Same(g, k) /\ waiter[k.fd][k.event] = g THEN {"stale"} ELSE {})
    BY Zenon, <1>7 DEF cancelEvent
  <2>3. race'[g] \subseteq race[g] \cup {"stale"}
    BY <2>1, <2>2
  <2> QED
    BY Zenon, <2>3, <1>2
<1>8. ASSUME NEW f \in Fibers, Resume(f) \/ Expire(f) \/ OnTimer(f) PROVE race'[g] \subseteq {"stale"}
  BY Zenon, <1>3, <1>8 DEF Resume, Expire, OnTimer, fiberVars
<1>9. ASSUME NEW n \in Numbers, Dispatch(n) PROVE race'[g] \subseteq {"stale"}
  BY Zenon, <1>3, <1>9 DEF Dispatch, fiberVars
<1>10. ASSUME NEW s \in Sockets, NEW e \in Event, Arrive(s, e) PROVE race'[g] \subseteq {"stale"}
  BY Zenon, <1>3, <1>10 DEF Arrive, fiberVars
<1>11. ASSUME NEW s \in Sockets, NEW r \in {"up", "refused"}, Establish(s, r) PROVE race'[g] \subseteq {"stale"}
  BY Zenon, <1>3, <1>11 DEF Establish, fiberVars
<1>12. CASE UNCHANGED vars
  BY Zenon, <1>3, <1>12 DEF vars, fiberVars
<1> QED
  BY Zenon, <1>6, <1>7, <1>8, <1>9, <1>10, <1>11, <1>12 DEF Next, System

-----------------------------------------------------------------------------
(* The order of opening and closing.                                        *)
Busy == {"del", "close_f", "get"}
Shift(f) ==
  /\ \A g \in Fibers \ {f} : pc'[g] = pc[g] /\ pos'[g] = pos[g]
  /\ pos'[f] = pos[f] \/ pos'[f] = pos[f] + 1
KeepsKinds ==
  \A n \in Numbers : /\ m_datas'[n] = None <=> m_datas[n] = None
                     /\ m_datas[n] # None => m_datas'[n].m_isSocket = m_datas[n].m_isSocket

(* A call that returns moves its fiber to the next.                         *)
LEMMA ReturnShift ==
  ASSUME HookIInv, NEW f \in Fibers, NEW r, Return(f, r)
  PROVE  Shift(f) /\ pos'[f] = pos[f] + 1 /\ pc'[f] \notin Busy
<1>1. pos \in [Fibers -> Nat] /\ pc \in [Fibers -> Labels]
  BY Zenon DEF HookIInv, Types
<1>2. pos' = [pos EXCEPT ![f] = pos[f] + 1] /\ \E l \in {"begin", "end"} : pc' = [pc EXCEPT ![f] = l]
  BY Zenon DEF Return, Goto
<1>3. pc'[f] \in {"begin", "end"} /\ \A g \in Fibers \ {f} : pc'[g] = pc[g]
  BY Zenon, <1>1, <1>2
<1>4. pc'[f] \notin Busy
  BY <1>3 DEF Busy
<1>5. pos'[f] = pos[f] + 1 /\ \A g \in Fibers \ {f} : pos'[g] = pos[g]
  BY Zenon, <1>1, <1>2
<1> QED
  BY Zenon, <1>3, <1>4, <1>5 DEF Shift

(* A call that goes on does not.                                            *)
LEMMA GotoShift ==
  ASSUME HookIInv, NEW f \in Fibers, NEW l, Goto(f, l), pos' = pos
  PROVE  Shift(f) /\ pc'[f] = l
<1>1. pos \in [Fibers -> Nat] /\ pc \in [Fibers -> Labels]
  BY Zenon DEF HookIInv, Types
<1> QED
  BY Zenon, <1>1 DEF Goto, Shift

(* Once a flag was passed on, it was; and the calls of the others stay.     *)
LEMMA StaysIoctled ==
  ASSUME HookIInv, NEW f \in Fibers, Shift(f), program' = program, Ioctled
  PROVE  Ioctled'
<1>1. PICK g \in Fibers : \E i \in 1..(pos[g] - 1) : program[g][i].op = "ioctl"
  BY Zenon DEF Ioctled
<1>2. PICK i \in 1..(pos[g] - 1) : program[g][i].op = "ioctl"
  BY Zenon, <1>1
<1>3. pos[g] \in Nat /\ (pos'[g] = pos[g] \/ pos'[g] = pos[g] + 1)
  BY Zenon DEF Shift, HookIInv, Types
<1>4. i \in 1..(pos'[g] - 1)
  BY <1>2, <1>3
<1>5. \E j \in 1..(pos'[g] - 1) : program'[g][j].op = "ioctl"
  BY Zenon, <1>2, <1>4
<1> QED
  BY Zenon, <1>5 DEF Ioctled

(* The others stay in their calls.                                          *)
LEMMA ShiftCalls ==
  ASSUME NEW f \in Fibers, Shift(f), program' = program
  PROVE  \A g \in Fibers \ {f} : call(g)' = call(g) /\ pc'[g] = pc[g]
BY Zenon DEF Shift, call

(* A step of a fiber that neither opens nor closes.                         *)
LEMMA SteadyOrder ==
  ASSUME HookIInv, OrderInv, NEW f \in Fibers, Shift(f), KeepsKinds, pc[f] \notin Busy, pc'[f] \notin Busy,
         UNCHANGED <<program, workers, socket, nonblock, newfd>>
  PROVE  OrderInv'
<1>1. \A g \in Fibers : pc[g] \in Busy \/ pc'[g] \in Busy => g # f /\ call(g)' = call(g) /\ pc'[g] = pc[g]
  BY Zenon, ShiftCalls
<1>2. ASSUME NEW g, pc[g] \in {"del", "close_f"} \/ pc[g] = "get" PROVE pc[g] \in Busy
  BY <1>2 DEF Busy
<1>3. ASSUME NEW g, pc'[g] \in {"del", "close_f"} \/ pc'[g] = "get" PROVE pc'[g] \in Busy
  BY <1>3 DEF Busy
<1>4. \A n : Closing(n)' = Closing(n) /\ Getting(n)' = Getting(n)
  BY Zenon, <1>1, <1>2, <1>3 DEF Closing, Getting
<1>5. Ioctled => Ioctled'
  BY Zenon, StaysIoctled
<1>6. Orderly' = Orderly
  BY ZenonT(60) DEF Orderly, OneCloser
<1>7. ASSUME NEW g \in Fibers, pc'[g] \in {"del", "close_f"}
      PROVE  g # f /\ pc'[g] = pc[g] /\ call(g)' = call(g) /\ call(g).fd \in Numbers
  <2>1. g # f /\ pc'[g] = pc[g] /\ call(g)' = call(g)
    BY Zenon, <1>1, <1>3, <1>7
  <2>2. pc[g] # "end"
    BY <2>1, <1>7
  <2> QED
    BY Zenon, <2>1, <2>2, CallTyped
<1>8. ASSUME NEW g \in Fibers, pc'[g] = "get"
      PROVE  pc[g] = "get" /\ newfd[g] \in Numbers
  BY Zenon, <1>1, <1>3, <1>8 DEF HookIInv, PlaceOK
<1>9. ASSUME Orderly, NEW g \in Fibers PROVE FiberOrder(g)'
  <2>1. FiberOrder(g)
    BY Zenon, <1>9 DEF OrderInv
  <2>2. pc'[g] \in {"del", "close_f"} => pc'[g] = pc[g] /\ Mine(g)' = Mine(g) /\ socket'[call(g)'.fd] = socket[call(g).fd]
            /\ Getting(call(g).fd)' = Getting(call(g).fd)
    BY Zenon, <1>4, <1>7 DEF Mine
  <2>3. pc'[g] = "close_f" => m_datas'[call(g)'.fd] = None
    <3>1. SUFFICES ASSUME pc'[g] = "close_f" PROVE m_datas'[call(g)'.fd] = None
      OBVIOUS
    <3>2. pc'[g] \in {"del", "close_f"}
      BY <3>1
    <3> QED
      BY Zenon, <2>1, <3>1, <3>2, <1>7 DEF FiberOrder, KeepsKinds
  <2>4. pc'[g] \in {"del", "close_f"} => Mine(g)' /\ socket'[call(g)'.fd] # 0
    BY Zenon, <2>1, <2>2 DEF FiberOrder
  <2>5. pc'[g] \in {"del", "close_f"} => ~(Getting(call(g).fd)')
    <3>1. SUFFICES ASSUME pc'[g] \in {"del", "close_f"} PROVE ~(Getting(call(g).fd)')
      OBVIOUS
    <3>2. call(g)' = call(g) /\ ~Getting(call(g).fd)
      BY Zenon, <2>1, <3>1, <1>7 DEF FiberOrder
    <3>3. ~\E h \in Fibers : pc[h] = "get" /\ newfd[h] = call(g).fd
      BY Zenon, <3>2 DEF Getting
    <3>4. ~\E h \in Fibers : pc'[h] = "get" /\ newfd'[h] = call(g)'.fd
      BY Zenon, <3>2, <3>3, <1>8
    <3> QED
      BY Zenon, <3>4 DEF Getting
  <2>6. pc'[g] = "get" => m_datas'[newfd'[g]] = None /\ socket'[newfd'[g]] # 0
    BY Zenon, <2>1, <1>8 DEF FiberOrder, KeepsKinds
  <2> QED
    BY Zenon, <2>3, <2>4, <2>5, <2>6 DEF FiberOrder
<1>10. ASSUME Orderly, NEW n \in Numbers PROVE NumberOrder(n)'
  BY Zenon, <1>4, <1>5, <1>10 DEF OrderInv, NumberOrder, KeepsKinds
<1>11. ASSUME Orderly, NEW g \in Fibers, NEW h \in Fibers, pc'[g] = "get", pc'[h] = "get", newfd'[g] = newfd'[h]
       PROVE  g = h
  BY Zenon, <1>8, <1>11 DEF OrderInv
<1> QED
  BY Zenon, <1>6, <1>9, <1>10, <1>11 DEF OrderInv

(* A step that opens and closes nothing and moves nobody.                   *)
LEMMA SameOrder ==
  ASSUME OrderInv, UNCHANGED <<program, workers, pos, pc, newfd, socket, nonblock, m_datas>>
  PROVE  OrderInv'
<1>1. \A n : Closing(n)' = Closing(n) /\ Getting(n)' = Getting(n)
  BY Zenon DEF Closing, Getting, call
<1>2. Ioctled' = Ioctled /\ Orderly' = Orderly
  BY ZenonT(60) DEF Ioctled, Orderly, OneCloser
<1>3. \A n \in Numbers : NumberOrder(n)' = NumberOrder(n)
  BY Zenon, <1>1, <1>2 DEF NumberOrder
<1>4. \A f \in Fibers : FiberOrder(f)' = FiberOrder(f)
  BY Zenon DEF FiberOrder, Mine, call, Getting
<1> QED
  BY Zenon, <1>2, <1>3, <1>4 DEF OrderInv

(* What a fiber that opens or closes relies on, when others move.           *)
Leaves(g) ==
  /\ pc'[g] = pc[g] /\ call(g)' = call(g) /\ newfd'[g] = newfd[g]
  /\ pc[g] \in {"del", "close_f"} =>
       /\ socket'[call(g).fd] = socket[call(g).fd]
       /\ m_datas[call(g).fd] = None => m_datas'[call(g).fd] = None
       /\ \A h \in Fibers : pc'[h] = "get" => newfd'[h] # call(g).fd
  /\ pc[g] = "get" => socket'[newfd[g]] = socket[newfd[g]] /\ m_datas'[newfd[g]] = m_datas[newfd[g]]

(* A fiber that opens or closes stays right when what it relies on is left. *)
LEMMA LeavesOrder ==
  ASSUME NEW g \in Fibers, FiberOrder(g), Leaves(g)
  PROVE  FiberOrder(g)'
<1>1. pc'[g] = "close_f" => pc'[g] \in {"del", "close_f"}
  OBVIOUS
<1>2. pc'[g] = "close_f" => m_datas'[call(g)'.fd] = None
  BY Zenon, <1>1 DEF FiberOrder, Leaves
<1>3. pc'[g] \in {"del", "close_f"} => Mine(g)' /\ socket'[call(g)'.fd] # 0
  BY Zenon DEF FiberOrder, Leaves, Mine
<1>4. pc'[g] \in {"del", "close_f"} => ~(Getting(call(g).fd)')
  BY Zenon DEF Leaves, Getting
<1>5. pc'[g] = "get" => m_datas'[newfd'[g]] = None /\ socket'[newfd'[g]] # 0
  BY Zenon DEF FiberOrder, Leaves
<1> QED
  BY Zenon, <1>2, <1>3, <1>4, <1>5 DEF FiberOrder

(* A free number has no context and nobody opens or closes it.              *)
LEMMA OpenOrder ==
  ASSUME HookIInv, OrderInv, NEW f \in Fibers, pc[f] \notin Busy, NEW n \in FreeNumber, NEW state, Open(f, n, state),
         UNCHANGED <<program, workers, pos, nonblock, m_datas>>
  PROVE  OrderInv'
<1>1. n \in Numbers /\ socket[n] = 0 /\ opened \in Sockets /\ opened < MaxSockets /\ MaxSockets \in Nat
  BY HookAssumption DEF FreeNumber, HookIInv, Types
<1>2. opened + 1 # 0
  BY <1>1 DEF Sockets
<1>3. socket'[n] # 0 /\ \A m \in Numbers \ {n} : socket'[m] = socket[m]
  BY Zenon, <1>1, <1>2 DEF Open, HookIInv, Types
<1>4. pc'[f] = "get" /\ newfd'[f] = n
  BY Zenon DEF Open, Goto, HookIInv, Types
<1>5. \A g \in Fibers \ {f} : pc'[g] = pc[g] /\ newfd'[g] = newfd[g] /\ call(g)' = call(g)
  BY Zenon, OpenTypes DEF call
<1>6. Orderly' = Orderly /\ Ioctled' = Ioctled
  BY ZenonT(60) DEF Orderly, OneCloser, Ioctled
<1>7. pc[f] # "get" /\ pc[f] \notin {"del", "close_f"}
  BY DEF Busy
<1>8. \A m : (Getting(m) => Getting(m)') /\ (Closing(m) => Closing(m)')
  BY Zenon, <1>5, <1>7 DEF Getting, Closing
<1>9. ASSUME Orderly PROVE m_datas[n] = None
  BY Zenon, <1>1, <1>9 DEF OrderInv, NumberOrder
<1>10. ASSUME Orderly, NEW g \in Fibers, pc[g] = "get" PROVE newfd[g] \in Numbers \ {n}
  BY ZenonT(60), <1>1, <1>10 DEF OrderInv, FiberOrder, HookIInv, PlaceOK
<1>11. ASSUME Orderly, NEW g \in Fibers, pc[g] \in {"del", "close_f"} PROVE call(g).fd \in Numbers \ {n}
  <2>1. pc[g] # "end"
    BY <1>11
  <2> QED
    BY ZenonT(60), <1>1, <2>1, <1>11, CallTyped DEF OrderInv, FiberOrder
<1>12. ASSUME Orderly, NEW g \in Fibers \ {f} PROVE FiberOrder(g)'
  <2>1. FiberOrder(g)
    BY Zenon, <1>12 DEF OrderInv
  <2>2. ASSUME pc[g] \in {"del", "close_f"}, NEW h \in Fibers, pc'[h] = "get" PROVE newfd'[h] # call(g).fd
    <3>1. ~\E i \in Fibers : pc[i] = "get" /\ newfd[i] = call(g).fd
      BY Zenon, <2>1, <2>2 DEF FiberOrder, Getting
    <3> QED
      BY ZenonT(60), <3>1, <2>2, <1>4, <1>5, <1>11, <1>12
  <2>3. Leaves(g)
    BY ZenonT(60), <2>2, <1>3, <1>5, <1>10, <1>11, <1>12 DEF Leaves
  <2> QED
    BY Zenon, <2>1, <2>3, LeavesOrder
<1>13. ASSUME Orderly PROVE FiberOrder(f)'
  <2>1. pc'[f] # "close_f" /\ pc'[f] \notin {"del", "close_f"}
    BY <1>4
  <2> QED
    BY ZenonT(60), <2>1, <1>3, <1>4, <1>9, <1>13 DEF FiberOrder
<1>14. ASSUME Orderly, NEW g \in Fibers, NEW h \in Fibers, pc'[g] = "get", pc'[h] = "get", newfd'[g] = newfd'[h]
       PROVE  g = h
  BY Zenon, <1>4, <1>5, <1>10, <1>14 DEF OrderInv
<1>15. ASSUME Orderly, NEW m \in Numbers PROVE NumberOrder(m)'
  <2>1. CASE m = n
    <3>1. \E g \in Fibers : pc'[g] = "get" /\ newfd'[g] = m
      BY Zenon, <2>1, <1>4
    <3>2. Getting(m)'
      BY Zenon, <3>1 DEF Getting
    <3> QED
      BY Zenon, <2>1, <3>2, <1>9, <1>15 DEF NumberOrder
  <2>2. CASE m # n
    BY Zenon, <2>2, <1>3, <1>6, <1>8, <1>15 DEF NumberOrder, OrderInv
  <2> QED
    BY Zenon, <2>1, <2>2
<1> QED
  BY ZenonT(60), <1>6, <1>12, <1>13, <1>14, <1>15 DEF OrderInv

(* A number that was opened gets its context and becomes non-blocking.      *)
LEMMA getOrder ==
  ASSUME HookIInv, OrderInv, NEW f \in Fibers, get(f)
  PROVE  OrderInv'
<1> DEFINE n == newfd[f]
<1>1. pc[f] = "get" /\ n \in Numbers /\ Types
  BY Zenon DEF get, Running, HookIInv, PlaceOK
<1>2. UNCHANGED <<program, workers, socket>> /\ Return(f, "ok") /\ newfd' = [newfd EXCEPT ![f] = None]
  BY Zenon DEF get
<1>3. Shift(f) /\ pc'[f] \notin Busy
  BY Zenon, <1>2, ReturnShift
<1>4. \A g \in Fibers \ {f} : pc'[g] = pc[g] /\ newfd'[g] = newfd[g] /\ call(g)' = call(g)
  BY ZenonT(60), <1>1, <1>2, <1>3, ShiftCalls DEF Types
<1>5. pc'[f] # "get" /\ pc'[f] \notin {"del", "close_f"} /\ pc'[f] # "close_f" /\ pc[f] \notin {"del", "close_f"}
  BY <1>1, <1>3 DEF Busy
<1>6. Orderly' = Orderly
  BY ZenonT(60), <1>2 DEF Orderly, OneCloser
<1>7. Ioctled => Ioctled'
  BY Zenon, <1>2, <1>3, StaysIoctled
<1>8. nonblock' \in [Sockets -> BOOLEAN]
  <2>1. CASE nonblock' = nonblock
    BY Zenon, <2>1 DEF OrderInv
  <2>2. CASE nonblock' = [s \in Sockets |-> nonblock[s] \/ s = socket[n]]
    BY <2>2
  <2> QED
    BY Zenon, <2>1, <2>2 DEF get
<1>9. SUFFICES ASSUME Orderly
               PROVE  /\ \A g \in Fibers : FiberOrder(g)'
                      /\ \A g, h \in Fibers : pc'[g] = "get" /\ pc'[h] = "get" /\ newfd'[g] = newfd'[h] => g = h
                      /\ \A m \in Numbers : NumberOrder(m)'
  BY Zenon, <1>6, <1>8 DEF OrderInv
<1>10. m_datas[n] = None /\ socket[n] # 0 /\ socket[n] \in Sockets
  <2>1. m_datas[n] = None /\ socket[n] # 0
    BY Zenon, <1>1, <1>9 DEF OrderInv, FiberOrder
  <2>2. socket[n] \in 0..MaxSockets /\ MaxSockets \in Nat
    BY Zenon, <1>1, HookAssumption DEF Types
  <2> QED
    BY <2>1, <2>2 DEF Sockets
<1>11. m_datas' = [m_datas EXCEPT ![n] = FdCtx(socket[n])] /\ nonblock' = [s \in Sockets |-> nonblock[s] \/ s = socket[n]]
  BY Zenon, <1>10 DEF get
<1>12. m_datas'[n].m_isSocket /\ \A m \in Numbers \ {n} : m_datas'[m] = m_datas[m]
  <2>1. m_datas'[n] = FdCtx(socket[n]) /\ \A m \in Numbers \ {n} : m_datas'[m] = m_datas[m]
    BY Zenon, <1>1, <1>11 DEF Types
  <2>2. FdCtx(socket[n]).m_isSocket
    BY ZenonT(60), <1>10 DEF FdCtx
  <2> QED
    BY Zenon, <2>1, <2>2
<1>13. nonblock'[socket[n]] /\ \A s \in Sockets : nonblock[s] => nonblock'[s]
  BY Zenon, <1>10, <1>11
<1>14. ASSUME NEW g \in Fibers PROVE FiberOrder(g)'
  <2>1. CASE g = f
    BY Zenon, <2>1, <1>5 DEF FiberOrder
  <2>2. CASE g # f
    <3>1. FiberOrder(g) /\ (pc[g] = "get" => newfd[g] \in Numbers \ {n})
      BY Zenon, <1>1, <1>9, <2>2 DEF OrderInv, HookIInv, PlaceOK
    <3>2. ASSUME pc[g] \in {"del", "close_f"}
          PROVE  call(g).fd \in Numbers \ {n} /\ \A h \in Fibers : pc'[h] = "get" => newfd'[h] # call(g).fd
      <4>1. ~\E h \in Fibers : pc[h] = "get" /\ newfd[h] = call(g).fd
        BY Zenon, <3>1, <3>2 DEF FiberOrder, Getting
      <4>2. pc[g] # "end"
        BY <3>2
      <4>3. call(g).fd \in Numbers
        BY Zenon, <4>2, CallTyped
      <4> QED
        BY Zenon, <4>1, <4>3, <1>1, <1>4, <1>5
    <3>3. Leaves(g)
      BY Zenon, <3>1, <3>2, <2>2, <1>2, <1>4, <1>12 DEF Leaves
    <3> QED
      BY Zenon, <3>1, <3>3, LeavesOrder
  <2> QED
    BY Zenon, <2>1, <2>2
<1>15. ASSUME NEW g \in Fibers, NEW h \in Fibers, pc'[g] = "get", pc'[h] = "get", newfd'[g] = newfd'[h] PROVE g = h
  BY Zenon, <1>4, <1>5, <1>9, <1>15 DEF OrderInv
<1>16. ASSUME NEW m \in Numbers PROVE NumberOrder(m)'
  <2>1. CASE m = n
    BY Zenon, <2>1, <1>2, <1>10, <1>12, <1>13 DEF NumberOrder
  <2>2. CASE m # n
    <3>1. Closing(m) => Closing(m)'
      BY Zenon, <1>4, <1>5 DEF Closing
    <3>2. Getting(m) => Getting(m)'
      BY Zenon, <1>4, <2>2 DEF Getting
    <3>3. socket[m] # 0 => socket[m] \in Sockets
      <4>1. socket[m] \in 0..MaxSockets /\ MaxSockets \in Nat
        BY Zenon, <1>1, HookAssumption DEF Types
      <4> QED
        BY <4>1 DEF Sockets
    <3>4. NumberOrder(m)
      BY Zenon, <1>9 DEF OrderInv
    <3> HIDE DEF n
    <3> QED
      BY ZenonT(60), <3>1, <3>2, <3>3, <3>4, <2>2, <1>2, <1>7, <1>12, <1>13 DEF NumberOrder
  <2> QED
    BY Zenon, <2>1, <2>2
<1> QED
  BY Zenon, <1>14, <1>15, <1>16

(* close starts on a number that its caller holds.                          *)
LEMMA closeOrder ==
  ASSUME HookIInv, OrderInv, NEW f \in Fibers, close(f)
  PROVE  OrderInv'
<1>1. pc[f] = "begin" /\ Held(f) /\ call(f).op = "close" /\ UNCHANGED <<program, workers, pos, newfd, socket, nonblock, m_datas>>
  BY Zenon DEF close, Running, kernelVars
<1>2. IF m_datas[call(f).fd] = None THEN Goto(f, "close_f") ELSE Goto(f, "del")
  BY Zenon DEF close
<1>3. /\ pc'[f] \in {"del", "close_f"} /\ pc'[f] # "get" /\ (pc'[f] = "close_f" => m_datas[call(f).fd] = None)
      /\ \A g \in Fibers \ {f} : pc'[g] = pc[g]
  BY <1>2 DEF Goto, HookIInv, Types
<1>4. \A g \in Fibers : call(g)' = call(g)
  BY Zenon, <1>1 DEF call
<1>5. pc[f] # "get" /\ pc[f] \notin {"del", "close_f"} /\ call(f).op \notin {"socket", "sleep"}
  BY <1>1
<1>6. Mine(f) /\ socket[call(f).fd] # 0 /\ ~Getting(call(f).fd)
  BY Zenon, <1>1, <1>5, HeldNumber DEF Held
<1>7. Orderly' = Orderly /\ Ioctled' = Ioctled
  BY Zenon, <1>1 DEF Orderly, OneCloser, Ioctled
<1>8. \A g \in Fibers : pc'[g] = "get" <=> pc[g] = "get"
  BY Zenon, <1>3, <1>5
<1>9. \A m : Getting(m)' = Getting(m) /\ (Closing(m) => Closing(m)')
  BY Zenon, <1>1, <1>3, <1>4, <1>8 DEF Getting, Closing
<1>10. ASSUME Orderly, NEW g \in Fibers \ {f} PROVE FiberOrder(g)'
  <2>1. FiberOrder(g)
    BY Zenon, <1>10 DEF OrderInv
  <2>2. Leaves(g)
    BY Zenon, <2>1, <1>1, <1>3, <1>4, <1>8 DEF Leaves, FiberOrder, Getting
  <2> QED
    BY Zenon, <2>1, <2>2, LeavesOrder
<1>11. FiberOrder(f)'
  <2>1. Mine(f)' /\ socket'[call(f)'.fd] # 0
    BY Zenon, <1>1, <1>4, <1>6 DEF Mine
  <2>2. ~(Getting(call(f).fd)')
    BY Zenon, <1>1, <1>4, <1>6, <1>8 DEF Getting
  <2> QED
    BY Zenon, <2>1, <2>2, <1>1, <1>3, <1>4 DEF FiberOrder
<1>12. ASSUME Orderly, NEW m \in Numbers PROVE NumberOrder(m)'
  BY Zenon, <1>1, <1>7, <1>9, <1>12 DEF OrderInv, NumberOrder
<1> QED
  BY Zenon, <1>1, <1>7, <1>8, <1>10, <1>11, <1>12 DEF OrderInv

(* del leaves the number without a context.                                 *)
LEMMA delOrder ==
  ASSUME HookIInv, OrderInv, NEW f \in Fibers, del(f)
  PROVE  OrderInv'
<1> DEFINE n == call(f).fd
<1>1. pc[f] = "del" /\ UNCHANGED <<program, workers, pos, newfd, socket, nonblock>> /\ Goto(f, "close_f")
  BY Zenon DEF del, Running, kernelVars
<1>2. pc[f] # "end" /\ pc[f] # "get" /\ pc[f] \in {"del", "close_f"}
  BY <1>1
<1>3. n \in Numbers /\ m_datas' = [m_datas EXCEPT ![n] = None] /\ Types
  BY Zenon, <1>2, CallTyped DEF del, HookIInv
<1>4. m_datas'[n] = None /\ \A m \in Numbers \ {n} : m_datas'[m] = m_datas[m]
  BY Zenon, <1>3 DEF Types
<1>5. pc'[f] = "close_f" /\ \A g \in Fibers \ {f} : pc'[g] = pc[g]
  BY ZenonT(60), <1>1, <1>3 DEF Goto, Types
<1>6. pc'[f] # "get" /\ pc'[f] \in {"del", "close_f"}
  BY <1>5
<1>7. \A g \in Fibers : call(g)' = call(g)
  BY Zenon, <1>1 DEF call
<1>8. Orderly' = Orderly /\ Ioctled' = Ioctled
  BY ZenonT(60), <1>1 DEF Orderly, OneCloser, Ioctled
<1>9. \A g \in Fibers : (pc'[g] = "get" <=> pc[g] = "get") /\ (pc'[g] \in {"del", "close_f"} <=> pc[g] \in {"del", "close_f"})
  BY Zenon, <1>2, <1>5, <1>6
<1>10. \A m : Getting(m)' = Getting(m) /\ Closing(m)' = Closing(m)
  BY Zenon, <1>1, <1>7, <1>9 DEF Getting, Closing
<1>11. \A m \in Numbers : m_datas[m] = None => m_datas'[m] = None
  BY Zenon, <1>4
<1>12. ASSUME Orderly, NEW g \in Fibers \ {f} PROVE FiberOrder(g)'
  <2>1. FiberOrder(g) /\ PlaceOK(g)
    BY Zenon, <1>12 DEF OrderInv, HookIInv
  <2>2. pc[g] \in {"del", "close_f"} => call(g).fd \in Numbers
    <3>1. pc[g] \in {"del", "close_f"} => pc[g] # "end"
      OBVIOUS
    <3> QED
      BY Zenon, <3>1, CallTyped
  <2>3. pc[g] \in {"del", "close_f"} => \A h \in Fibers : pc'[h] = "get" => newfd'[h] # call(g).fd
    BY Zenon, <2>1, <1>1, <1>9 DEF FiberOrder, Getting
  <2>4. pc[g] = "get" => m_datas'[newfd[g]] = m_datas[newfd[g]]
    BY Zenon, <2>1, <1>11 DEF FiberOrder, PlaceOK
  <2>5. Leaves(g)
    BY Zenon, <2>2, <2>3, <2>4, <1>1, <1>5, <1>7, <1>11 DEF Leaves
  <2> QED
    BY Zenon, <2>1, <2>5, LeavesOrder
<1>13. ASSUME Orderly PROVE FiberOrder(f)'
  <2>1. FiberOrder(f)
    BY Zenon, <1>13 DEF OrderInv
  <2>2. Mine(f)' /\ socket'[call(f)'.fd] # 0
    BY Zenon, <2>1, <1>1, <1>2, <1>7 DEF Mine, FiberOrder
  <2>3. ~(Getting(call(f).fd)')
    BY Zenon, <2>1, <1>1, <1>2, <1>7, <1>9 DEF Getting, FiberOrder
  <2> QED
    BY Zenon, <2>2, <2>3, <1>4, <1>6, <1>7 DEF FiberOrder
<1>14. ASSUME Orderly, NEW m \in Numbers PROVE NumberOrder(m)'
  <2>1. NumberOrder(m)
    BY Zenon, <1>14 DEF OrderInv
  <2>2. m_datas'[m] # None => m_datas'[m] = m_datas[m]
    BY Zenon, <1>4
  <2> QED
    BY Zenon, <2>1, <2>2, <1>1, <1>8, <1>10 DEF NumberOrder
<1> QED
  BY Zenon, <1>1, <1>8, <1>9, <1>12, <1>13, <1>14 DEF OrderInv

(* Nobody else closes a number that is being closed.                        *)
LEMMA ClosesAlone ==
  ASSUME HookIInv, OneRuns, OrderInv, Orderly, NEW f \in Fibers, NEW g \in Fibers,
         pc[f] \in {"del", "close_f"}, pc[g] \in {"del", "close_f"}, call(f).fd = call(g).fd
  PROVE  f = g
<1>1. pc[f] \notin {"ready", "hold", "end"} /\ pc[g] \notin {"ready", "hold", "end"} /\ pc[f] # "end" /\ pc[g] # "end"
  OBVIOUS
<1>2. CASE workers = 1
  BY Zenon, <1>1, <1>2, Alone
<1>3. CASE OneCloser
  <2>1. pos[f] \in DOMAIN program[f] /\ pos[g] \in DOMAIN program[g] /\ call(f).op = "close" /\ call(g).op = "close"
    BY Zenon, <1>1, CallTyped DEF HookIInv, PlaceOK
  <2>2. call(f).sock = call(g).sock
    BY Zenon DEF OrderInv, FiberOrder, Mine
  <2> QED
    BY Zenon, <2>1, <2>2, <1>3 DEF OneCloser, call
<1> QED
  BY Zenon, <1>2, <1>3 DEF Orderly

(* close_f gives the number back, which has no context any more.            *)
LEMMA close_fOrder ==
  ASSUME HookIInv, OneRuns, OrderInv, NEW f \in Fibers, close_f(f)
  PROVE  OrderInv'
<1> DEFINE n == call(f).fd
<1>1. pc[f] = "close_f" /\ UNCHANGED <<program, workers, newfd, nonblock, m_datas>> /\ socket' = [socket EXCEPT ![n] = 0] /\ Types
  BY Zenon DEF close_f, Running, HookIInv
<1>2. pc[f] # "end" /\ pc[f] # "get" /\ pc[f] \in {"del", "close_f"}
  BY <1>1
<1>3. n \in Numbers
  BY Zenon, <1>2, CallTyped
<1>4. socket'[n] = 0 /\ \A m \in Numbers \ {n} : socket'[m] = socket[m]
  BY Zenon, <1>1, <1>3 DEF Types
<1>5. \E r : Return(f, r)
  BY Zenon DEF close_f
<1>6. Shift(f) /\ pc'[f] \notin Busy
  BY Zenon, <1>5, ReturnShift
<1>7. pc'[f] # "get" /\ pc'[f] \notin {"del", "close_f"} /\ pc'[f] # "close_f"
  BY <1>6 DEF Busy
<1>8. \A g \in Fibers \ {f} : call(g)' = call(g) /\ pc'[g] = pc[g]
  BY Zenon, <1>1, <1>6, ShiftCalls
<1>9. Orderly' = Orderly /\ (Ioctled => Ioctled')
  BY ZenonT(60), <1>1, <1>6, StaysIoctled DEF Orderly, OneCloser
<1>10. \A g \in Fibers : pc'[g] = "get" <=> pc[g] = "get"
  BY Zenon, <1>2, <1>7, <1>8
<1>11. \A m : Getting(m)' = Getting(m)
  BY Zenon, <1>1, <1>10 DEF Getting
<1>12. SUFFICES ASSUME Orderly
               PROVE  /\ \A g \in Fibers : FiberOrder(g)'
                      /\ \A m \in Numbers : NumberOrder(m)'
  BY Zenon, <1>1, <1>9, <1>10 DEF OrderInv
<1>13. m_datas[n] = None /\ ~Getting(n)
  BY Zenon, <1>1, <1>2, <1>12 DEF OrderInv, FiberOrder
<1>14. ASSUME NEW g \in Fibers \ {f} PROVE FiberOrder(g)'
  <2>1. FiberOrder(g) /\ PlaceOK(g)
    BY Zenon, <1>12, <1>14 DEF OrderInv, HookIInv
  <2>2. pc[g] \in {"del", "close_f"} => call(g).fd \in Numbers \ {n}
    <3>1. pc[g] \in {"del", "close_f"} => pc[g] # "end"
      OBVIOUS
    <3> QED
      BY Zenon, <3>1, <1>2, <1>12, CallTyped, ClosesAlone
  <2>3. pc[g] \in {"del", "close_f"} => \A h \in Fibers : pc'[h] = "get" => newfd'[h] # call(g).fd
    BY Zenon, <2>1, <1>1, <1>10 DEF FiberOrder, Getting
  <2>4. pc[g] = "get" => newfd[g] \in Numbers \ {n}
    BY Zenon, <2>1, <1>13 DEF PlaceOK, Getting
  <2>5. Leaves(g)
    BY Zenon, <2>2, <2>3, <2>4, <1>1, <1>4, <1>8 DEF Leaves
  <2> QED
    BY Zenon, <2>1, <2>5, LeavesOrder
<1>15. FiberOrder(f)'
  BY Zenon, <1>7 DEF FiberOrder
<1>16. ASSUME NEW m \in Numbers PROVE NumberOrder(m)'
  <2>1. CASE m = n
    BY Zenon, <2>1, <1>1, <1>4, <1>13 DEF NumberOrder
  <2>2. CASE m # n
    <3>1. Closing(m) => Closing(m)'
      BY Zenon, <2>2, <1>8 DEF Closing
    <3>2. NumberOrder(m) /\ socket'[m] = socket[m]
      BY Zenon, <2>2, <1>4, <1>12 DEF OrderInv
    <3> QED
      BY Zenon, <3>1, <3>2, <1>1, <1>9, <1>11 DEF NumberOrder
  <2> QED
    BY Zenon, <2>1, <2>2
<1> QED
  BY Zenon, <1>14, <1>15, <1>16

(* fcntl and ioctl on a number that the caller holds.                       *)
LEMMA SetNonblockOrder ==
  ASSUME HookIInv, OrderInv, NEW f \in Fibers, NEW op, NEW b \in BOOLEAN, SetNonblock(f, op, b),
         op \notin {"socket", "sleep"}, b \/ op = "ioctl"
  PROVE  OrderInv'
<1> DEFINE n == call(f).fd
           sock == m_datas[n] # None /\ m_datas[n].m_isSocket
<1>1. /\ pc[f] = "begin" /\ Held(f) /\ call(f).op = op /\ Return(f, "ok") /\ UNCHANGED <<program, workers, newfd, socket>>
      /\ Types /\ None \notin Contexts
  BY Zenon, HookAssumption DEF SetNonblock, Running, HookIInv, Contexts
<1>2. /\ m_datas' = IF sock THEN [m_datas EXCEPT ![n] = [m_datas[n] EXCEPT !.m_userNonblock = call(f).on]] ELSE m_datas
      /\ nonblock' = [s \in Sockets |-> IF s # socket[n] THEN nonblock[s] ELSE IF sock THEN b ELSE call(f).on]
  BY Zenon DEF SetNonblock
<1>3. pc[f] # "end" /\ pc[f] \notin {"del", "close_f"} /\ pc[f] # "get"
  BY <1>1
<1>4. n \in Numbers /\ call(f).on \in BOOLEAN /\ pos[f] \in DOMAIN program[f] /\ socket[n] # 0 /\ ~Getting(n)
  BY Zenon, <1>1, <1>3, CallTyped, HeldNumber
<1>5. nonblock' \in [Sockets -> BOOLEAN]
  <2>1. ASSUME NEW s \in Sockets
        PROVE  (IF s # socket[n] THEN nonblock[s] ELSE IF sock THEN b ELSE call(f).on) \in BOOLEAN
    BY Zenon, <1>4 DEF OrderInv
  <2> QED
    BY Zenon, <2>1, <1>2
<1>6. Shift(f) /\ pos'[f] = pos[f] + 1 /\ pc'[f] \notin Busy
  BY Zenon, <1>1, ReturnShift
<1>7. pc'[f] # "get" /\ pc'[f] \notin {"del", "close_f"} /\ pc'[f] # "close_f"
  BY <1>6 DEF Busy
<1>8. \A g \in Fibers \ {f} : call(g)' = call(g) /\ pc'[g] = pc[g]
  BY Zenon, <1>1, <1>6, ShiftCalls
<1>9. Orderly' = Orderly /\ (Ioctled => Ioctled')
  BY Zenon, <1>1, <1>6, StaysIoctled DEF Orderly, OneCloser
<1>10. \A g \in Fibers : pc'[g] = "get" <=> pc[g] = "get"
  BY Zenon, <1>3, <1>7, <1>8
<1>11. \A m : Getting(m)' = Getting(m) /\ (Closing(m) => Closing(m)')
  BY Zenon, <1>1, <1>3, <1>8, <1>10 DEF Getting, Closing
<1>12. KeepsKinds
  <2>1. CASE ~sock
    BY Zenon, <2>1, <1>2 DEF KeepsKinds
  <2>2. CASE sock
    <3> DEFINE c == [m_datas[n] EXCEPT !.m_userNonblock = call(f).on]
    <3>1. m_datas[n] \in Contexts /\ m_datas' = [m_datas EXCEPT ![n] = c]
      BY Zenon, <2>2, <1>1, <1>2, <1>4 DEF Types
    <3>2. c \in Contexts /\ c.m_isSocket = m_datas[n].m_isSocket
      BY <3>1, <1>4 DEF Contexts
    <3> HIDE DEF c
    <3>3. m_datas'[n] = c /\ \A m \in Numbers \ {n} : m_datas'[m] = m_datas[m]
      BY Zenon, <3>1, <1>1, <1>4 DEF Types
    <3> HIDE DEF n
    <3> QED
      BY Zenon, <3>1, <3>2, <3>3, <1>1 DEF KeepsKinds
  <2> QED
    BY Zenon, <2>1, <2>2
<1>13. SUFFICES ASSUME Orderly
               PROVE  /\ \A g \in Fibers : FiberOrder(g)'
                      /\ \A m \in Numbers : NumberOrder(m)'
  BY Zenon, <1>1, <1>5, <1>9, <1>10 DEF OrderInv
<1>14. ASSUME NEW g \in Fibers \ {f} PROVE FiberOrder(g)'
  <2>1. FiberOrder(g) /\ PlaceOK(g)
    BY Zenon, <1>13, <1>14 DEF OrderInv, HookIInv
  <2>2. pc[g] \in {"del", "close_f"} => call(g).fd \in Numbers
    <3>1. pc[g] \in {"del", "close_f"} => pc[g] # "end"
      OBVIOUS
    <3> QED
      BY Zenon, <3>1, CallTyped
  <2>3. pc[g] \in {"del", "close_f"} => \A h \in Fibers : pc'[h] = "get" => newfd'[h] # call(g).fd
    BY Zenon, <2>1, <1>1, <1>10 DEF FiberOrder, Getting
  <2>4. pc[g] = "get" => m_datas'[newfd[g]] = m_datas[newfd[g]]
    BY Zenon, <2>1, <1>12 DEF FiberOrder, PlaceOK, KeepsKinds
  <2>5. Leaves(g)
    BY Zenon, <2>2, <2>3, <2>4, <1>1, <1>8, <1>12 DEF Leaves, KeepsKinds
  <2> QED
    BY Zenon, <2>1, <2>5, LeavesOrder
<1>15. FiberOrder(f)'
  BY Zenon, <1>7 DEF FiberOrder
<1>16. ASSUME NEW m \in Numbers PROVE NumberOrder(m)'
  <2>1. NumberOrder(m) /\ NumberOrder(n)
    BY Zenon, <1>4, <1>13 DEF OrderInv
  <2>2. m_datas'[m] # None => m_datas'[m].m_isSocket /\ socket'[m] # 0
    BY Zenon, <2>1, <1>1, <1>12 DEF NumberOrder, KeepsKinds
  <2>3. ASSUME socket[m] # 0 PROVE socket[m] \in Sockets
    <3>1. socket[m] \in 0..MaxSockets /\ MaxSockets \in Nat
      BY Zenon, <1>1, HookAssumption DEF Types
    <3> QED
      BY <3>1, <2>3 DEF Sockets
  <2>4. ASSUME socket[m] # 0, m # n PROVE nonblock[socket[m]] => nonblock'[socket[m]]
    <3>1. socket[m] # socket[n]
      BY Zenon, <2>4, <1>4 DEF HookIInv, SocketOK
    <3> QED
      BY Zenon, <3>1, <2>3, <2>4, <1>2
  <2>5. CASE op = "ioctl"
    <3>1. pos[f] \in 1..(pos'[f] - 1)
      <4>1. pos[f] \in 1..Len(program[f])
        BY Zenon, <1>3 DEF HookIInv, PlaceOK
      <4>2. pos[f] \in Nat /\ Len(program[f]) \in Nat
        <5>1. program[f] \in Seq(Calls)
          <6>1. program \in Programs /\ Programs \subseteq [Fibers -> Seq(Calls)]
            BY Zenon, <1>1, HookAssumption DEF Types
          <6> QED
            BY Zenon, <6>1
        <5>2. Len(program[f]) \in Nat
          BY <5>1
        <5> QED
          BY Zenon, <5>2, <1>1 DEF Types
      <4> QED
        BY <4>1, <4>2, <1>6
    <3>2. program'[f][pos[f]].op = "ioctl"
      BY Zenon, <2>5, <1>1 DEF call
    <3>3. \E i \in 1..(pos'[f] - 1) : program'[f][i].op = "ioctl"
      BY Zenon, <3>1, <3>2
    <3>4. Ioctled'
      BY Zenon, <3>3 DEF Ioctled
    <3> QED
      BY Zenon, <3>4, <2>2 DEF NumberOrder
  <2>6. CASE b /\ m = n
    <3>1. CASE sock
      <4>1. nonblock'[socket[n]]
        BY Zenon, <3>1, <2>3, <2>6, <1>2, <1>4
      <4> QED
        BY Zenon, <4>1, <2>2, <2>6, <1>1 DEF NumberOrder
    <3>2. CASE ~sock
      <4>1. m_datas[n] = None
        BY Zenon, <3>2, <2>1 DEF NumberOrder
      <4>2. Closing(n)
        BY Zenon, <4>1, <1>4 DEF HookIInv, ContextOK
      <4>3. Closing(m)'
        BY Zenon, <4>2, <2>6, <1>11
      <4> QED
        BY Zenon, <4>3, <2>2 DEF NumberOrder
    <3> QED
      BY Zenon, <3>1, <3>2
  <2>7. CASE m # n
    BY Zenon, <2>1, <2>2, <2>4, <2>7, <1>1, <1>9, <1>11 DEF NumberOrder
  <2> QED
    BY Zenon, <2>5, <2>6, <2>7
<1> QED
  BY Zenon, <1>14, <1>15, <1>16

-----------------------------------------------------------------------------
(* The places where nothing is opened or closed.                            *)
LEMMA LabelsNotBusy ==
  /\ "begin" \notin Busy /\ "direct" \notin Busy /\ "try" \notin Busy /\ "arm" \notin Busy /\ "add" \notin Busy
  /\ "yield" \notin Busy /\ "hold" \notin Busy /\ "woken" \notin Busy /\ "test" \notin Busy /\ "getsockopt" \notin Busy
  /\ "ready" \notin Busy
BY DEF Busy

(* Contexts that stay as they are keep their kind,                          *)
LEMMA KindsKept ==
  ASSUME m_datas' = m_datas
  PROVE  KeepsKinds
BY Zenon DEF KeepsKinds

(* and so do those whose timeout is set.                                    *)
LEMMA setsockoptKinds ==
  ASSUME HookIInv, NEW f \in Fibers, setsockopt(f)
  PROVE  KeepsKinds
<1>1. None \notin Contexts /\ m_datas \in [Numbers -> Contexts \cup {None}]
  BY Zenon, HookAssumption DEF Contexts, HookIInv, Types
<1>2. m_datas' = [n \in Numbers |-> IF n = call(f).fd /\ m_datas[n] # None
                                    THEN [m_datas[n] EXCEPT !.m_timeout = TRUE] ELSE m_datas[n]]
  BY Zenon DEF setsockopt
<1>3. ASSUME NEW c \in Contexts
      PROVE  [c EXCEPT !.m_timeout = TRUE] \in Contexts /\ [c EXCEPT !.m_timeout = TRUE].m_isSocket = c.m_isSocket
  BY ZenonT(60), <1>3 DEF Contexts
<1>4. ASSUME NEW n \in Numbers
      PROVE  /\ m_datas'[n] = None <=> m_datas[n] = None
             /\ m_datas[n] # None => m_datas'[n].m_isSocket = m_datas[n].m_isSocket
  <2>1. CASE n = call(f).fd /\ m_datas[n] # None
    <3>1. m_datas[n] \in Contexts /\ m_datas'[n] = [m_datas[n] EXCEPT !.m_timeout = TRUE]
      BY Zenon, <2>1, <1>1, <1>2
    <3> QED
      BY Zenon, <3>1, <2>1, <1>1, <1>3
  <2>2. CASE ~(n = call(f).fd /\ m_datas[n] # None)
    BY Zenon, <2>2, <1>2
  <2> QED
    BY Zenon, <2>1, <2>2
<1> QED
  BY Zenon, <1>4 DEF KeepsKinds

(* fun: the call returns, opens a number or goes on as again says.          *)
LEMMA funOrder ==
  ASSUME HookIInv, OrderInv, NEW f \in Fibers, pc[f] \notin Busy, m_datas' = m_datas,
         UNCHANGED <<program, workers, nonblock>>,
         \/ \E r : Return(f, r) /\ UNCHANGED <<newfd, socket>>
         \/ \E n \in FreeNumber : \E state : Open(f, n, state) /\ pos' = pos
         \/ \E l : Goto(f, l) /\ l \notin Busy /\ UNCHANGED <<pos, newfd, socket>>
  PROVE  OrderInv'
<1>1. KeepsKinds
  BY Zenon, KindsKept
<1>2. CASE \E r : Return(f, r) /\ UNCHANGED <<newfd, socket>>
  BY Zenon, <1>1, <1>2, ReturnShift, SteadyOrder
<1>3. CASE \E n \in FreeNumber : \E state : Open(f, n, state) /\ pos' = pos
  BY Zenon, <1>3, OpenOrder
<1>4. CASE \E l : Goto(f, l) /\ l \notin Busy /\ UNCHANGED <<pos, newfd, socket>>
  BY Zenon, <1>1, <1>4, GotoShift, SteadyOrder
<1> QED
  BY Zenon, <1>2, <1>3, <1>4

(* A step of a fiber keeps the order,                                       *)
LEMMA StepOrder ==
  ASSUME HookIInv, OneRuns, OrderInv, NEW f \in Fibers, Step(f)
  PROVE  OrderInv'
<1>1. CASE gone(f) \/ getsockopt(f)
  BY Zenon, <1>1, funOrder, LabelsNotBusy DEF gone, getsockopt, Running, kernelVars
<1>2. CASE do_io(f) \/ arm(f) \/ YieldToHold(f) \/ sleep(f)
  BY Zenon, <1>2, funOrder, LabelsNotBusy DEF do_io, arm, YieldToHold, sleep, Running, kernelVars
<1>3. CASE direct(f)
  <2>1. pc[f] = "direct" /\ UNCHANGED <<program, workers, nonblock, m_datas>>
    BY Zenon, <1>3 DEF direct, fun, Running, kernelVars
  <2>2. \/ \E r : Return(f, r) /\ UNCHANGED <<newfd, socket>>
        \/ \E n \in FreeNumber : \E state : Open(f, n, state) /\ pos' = pos
    BY Zenon, <1>3 DEF direct, fun, kernelVars
  <2> QED
    BY Zenon, <2>1, <2>2, funOrder, LabelsNotBusy
<1>4. CASE try(f)
  <2>1. pc[f] = "try" /\ UNCHANGED <<program, workers, nonblock, m_datas>>
    BY Zenon, <1>4 DEF try, fun, Running, kernelVars
  <2>2. \/ \E r : Return(f, r) /\ UNCHANGED <<newfd, socket>>
        \/ \E n \in FreeNumber : \E state : Open(f, n, state) /\ pos' = pos
        \/ Goto(f, "arm") /\ UNCHANGED <<pos, newfd, socket>>
    BY Zenon, <1>4 DEF try, fun, kernelVars
  <2> QED
    BY Zenon, <2>1, <2>2, funOrder, LabelsNotBusy
<1>5. CASE add(f)
  <2>1. pc[f] = "add" /\ UNCHANGED <<program, workers, nonblock, m_datas, socket>>
    BY Zenon, <1>5 DEF add, Running, kernelVars
  <2>2. \/ \E r : Return(f, r) /\ UNCHANGED newfd
        \/ \E l \in {"getsockopt", "yield"} : Goto(f, l) /\ UNCHANGED <<pos, newfd>>
        \/ UNCHANGED <<pos, pc, newfd>>
    BY Zenon, <1>5 DEF add, fiberVars
  <2> QED
    BY ZenonT(60), <2>1, <2>2, funOrder, SameOrder, LabelsNotBusy
<1>6. CASE woken(f) \/ test(f)
  BY Zenon, <1>6, funOrder, LabelsNotBusy DEF woken, test, Running, kernelVars
<1>7. CASE connect(f)
  BY Zenon, <1>7, funOrder, LabelsNotBusy DEF connect, Running
<1>8. CASE socket_f(f)
  BY Zenon, <1>8, funOrder, LabelsNotBusy DEF socket_f, Running
<1>9. CASE setsockopt(f)
  <2>1. pc[f] = "begin" /\ Return(f, "ok") /\ UNCHANGED <<program, workers, newfd, socket, nonblock>>
    BY Zenon, <1>9 DEF setsockopt, Running, kernelVars
  <2> QED
    BY ZenonT(60), <2>1, <1>9, setsockoptKinds, ReturnShift, SteadyOrder, LabelsNotBusy
<1>10. CASE fcntl(f)
  <2>1. "fcntl" \notin {"socket", "sleep"} /\ TRUE \in BOOLEAN
    OBVIOUS
  <2> QED
    BY Zenon, <2>1, <1>10, SetNonblockOrder DEF fcntl
<1>11. CASE ioctl(f)
  <2>1. "ioctl" \notin {"socket", "sleep"} /\ (pc[f] = "begin" => pc[f] # "end")
    OBVIOUS
  <2>2. pc[f] = "begin"
    BY Zenon, <1>11 DEF ioctl, SetNonblock, Running
  <2>3. call(f).on \in BOOLEAN
    BY Zenon, <2>1, <2>2, CallTyped
  <2> QED
    BY ZenonT(60), <2>1, <2>3, <1>11, SetNonblockOrder DEF ioctl
<1> QED
  BY ZenonT(60), <1>1, <1>2, <1>3, <1>4, <1>5, <1>6, <1>7, <1>8, <1>9, <1>10, <1>11,
     getOrder, closeOrder, delOrder, close_fOrder DEF Step

(* and so does every step.                                                  *)
LEMMA NextOrder ==
  ASSUME HookIInv, OneRuns, OrderInv, [Next]_vars
  PROVE  OrderInv'
<1>1. ASSUME NEW f \in Fibers, Resume(f) PROVE OrderInv'
  BY Zenon, <1>1, funOrder, LabelsNotBusy DEF Resume, kernelVars
<1>2. ASSUME NEW f \in Fibers, Expire(f) \/ OnTimer(f) PROVE OrderInv'
  BY Zenon, <1>2, SameOrder DEF Expire, OnTimer, fiberVars, kernelVars
<1>3. ASSUME NEW k \in firing, cancelEvent(k) PROVE OrderInv'
  BY Zenon, <1>3, SameOrder DEF cancelEvent, kernelVars
<1>4. ASSUME NEW n \in Numbers, Dispatch(n) PROVE OrderInv'
  BY Zenon, <1>4, SameOrder DEF Dispatch, fiberVars, kernelVars
<1>5. ASSUME NEW s \in Sockets, NEW e \in Event, Arrive(s, e) PROVE OrderInv'
  BY Zenon, <1>5, SameOrder DEF Arrive, fiberVars
<1>6. ASSUME NEW s \in Sockets, NEW r \in {"up", "refused"}, Establish(s, r) PROVE OrderInv'
  BY Zenon, <1>6, SameOrder DEF Establish, fiberVars
<1>7. CASE UNCHANGED vars
  BY Zenon, <1>7, SameOrder DEF vars, fiberVars, kernelVars
<1> QED
  BY ZenonT(60), <1>1, <1>2, <1>3, <1>4, <1>5, <1>6, <1>7, StepOrder DEF Next, System

=============================================================================
