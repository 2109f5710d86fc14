-------------------------- MODULE IOManagerProofs --------------------------
(* Theorems about IOManager, for any threads, descriptors, tasks and calls.*)
EXTENDS IOManager, FiniteSetTheorems, TLAPS

(* A call that passed its unlocked test names an fd, and an event unless   *)
(* it is cancelAll.                                                        *)
LEMMA CallFacts ==
  ASSUME NEW c \in Calls
  PROVE  /\ c # None
         /\ c.fd \in Fds
         /\ c.name \in {"delEvent", "cancelEvent", "cancelAll"}
         /\ c.name # "cancelAll" => c.event \in Event
BY Zenon, CallsAssumption, NoneAssumption DEF Call

(* A task waits for one event of one fd.                                   *)
LEMMA UseFacts ==
  ASSUME NEW k \in Tasks
  PROVE  /\ Use[k][1] \in Fds
         /\ Use[k][2] \in Event
         /\ Use[k] = <<Use[k][1], Use[k][2]>>
         /\ k # None
BY UseAssumption, NoneAssumption

(* Event has the two members READ and WRITE.                               *)
LEMMA EventFinite == IsFiniteSet(Event)
<1>1. IsFiniteSet({READ}) /\ IsFiniteSet({WRITE})
  BY ZenonT(60), FS_Singleton
<1>2. Event = {READ} \cup {WRITE}
  BY Zenon DEF Event
<1> QED
  BY ZenonT(60), <1>1, <1>2, FS_Union

(* What the epoll and trigger operators leave behind is well typed.        *)
LEMMA EpollCtlType ==
  ASSUME TypeOK, NEW fd \in Fds, NEW mask \in SUBSET Event, EpollCtl(fd, mask)
  PROVE  interest' \in [Fds -> SUBSET Event] /\ listed' \subseteq Fds
BY Zenon DEF TypeOK, EpollCtl

(* What triggerEvent leaves behind has the right types.                    *)
LEMMA TriggerType ==
  ASSUME TypeOK, ContextMatchesEvents, NEW fd \in Fds, NEW S \in SUBSET Event,
         S \subseteq events[fd], triggerEvent(fd, S)
  PROVE  /\ events' \in [Fds -> SUBSET Event]
         /\ ctx' \in [Fds -> [Event -> Tasks \cup {None}]]
         /\ m_pendingEventCount' \in Int
         /\ queue' \subseteq Tasks
<1>1. IsFiniteSet(Event)
  BY Zenon, EventFinite
<1>2. Cardinality(S) \in Nat
  BY Zenon, <1>1, FS_Subset, FS_CardinalityType
<1>3. \A e \in S : ctx[fd][e] \in Tasks
  BY DEF TypeOK, ContextMatchesEvents
<1> QED
  BY <1>2, <1>3 DEF TypeOK, triggerEvent


-----------------------------------------------------------------------------
(* The inductive invariant.                                                *)
IInv ==
  /\ TypeOK
  /\ EpollMatchesEvents
  /\ ContextMatchesEvents
  /\ WokenOncePerWait
  /\ NoLostEdge

(* The inductive invariant holds initially.                                *)
LEMMA InitIInv == Init => IInv
BY NoneAssumption, UseFacts
   DEF Init, IInv, TypeOK, EpollMatchesEvents, ContextMatchesEvents,
       WokenOncePerWait, NoLostEdge, Report

(* Triggering the events S of fd, with the matching epoll_ctl, keeps epoll *)
(* and the contexts in step and wakes each task once.                      *)
LEMMA TriggerStep ==
  ASSUME IInv, NEW fd \in Fds, NEW S \in SUBSET Event, S \subseteq events[fd],
         EpollCtl(fd, events[fd] \ S), triggerEvent(fd, S)
  PROVE  EpollMatchesEvents' /\ ContextMatchesEvents' /\ WokenOncePerWait'
<1> USE DEF IInv, TypeOK, EpollCtl, triggerEvent
<1>1. EpollMatchesEvents'
  BY Zenon DEF EpollMatchesEvents
<1>2. ContextMatchesEvents'
  BY Zenon DEF ContextMatchesEvents
<1>3. WokenOncePerWait'
  <2> SUFFICES ASSUME NEW k \in Tasks, NEW f \in Fds, NEW e \in Event, ctx'[f][e] = k
               PROVE  Use[k] = <<f, e>> /\ k \notin queue'
    BY Zenon DEF WokenOncePerWait
  <2>1. ctx[f][e] = k /\ ~(f = fd /\ e \in S)
    BY Zenon, NoneAssumption
  <2>2. Use[k] = <<f, e>> /\ k \notin queue
    BY Zenon, <2>1 DEF WokenOncePerWait
  <2>3. \A g \in S : ctx[fd][g] # k
    BY <2>1, <2>2 DEF WokenOncePerWait
  <2> QED
    BY ZenonT(60), <2>2, <2>3
<1> QED
  BY ZenonT(60), <1>1, <1>2, <1>3

-----------------------------------------------------------------------------
(* IInv is preserved: one lemma per action.                                *)

(* addEvent preserves the inductive invariant.                             *)
LEMMA addEventIInv ==
  ASSUME IInv, NEW t \in Threads, NEW k \in Tasks, addEvent(t, k)
  PROVE  IInv'
<1> DEFINE fd == Use[k][1]
           e == Use[k][2]
<1>1. fd \in Fds /\ e \in Event /\ Use[k] = <<fd, e>> /\ k # None
  BY Zenon, UseFacts
<1> HIDE DEF fd, e
<1>2. CASE UNCHANGED <<events, ctx, m_pendingEventCount, queue, interest, listed>>
  <2>1. UNCHANGED <<call, batch, ready, hup>> /\ aborted = None
    BY ZenonT(60) DEF addEvent, deviceVars
  <2>2. aborted' \in Assertion \cup {None}
    BY ZenonT(60), <2>1 DEF addEvent, Abort, Assertion
  <2> QED
    BY <1>2, <2>1, <2>2 DEF IInv, TypeOK, EpollMatchesEvents, ContextMatchesEvents,
                      WokenOncePerWait, NoLostEdge
<1>3. CASE /\ EpollCtl(fd, events[fd] \cup {e})
           /\ e \notin events[fd]
           /\ m_pendingEventCount' = m_pendingEventCount + 1
           /\ events' = [events EXCEPT ![fd] = @ \cup {e}]
           /\ ctx' = [ctx EXCEPT ![fd][e] = k]
           /\ UNCHANGED <<queue, aborted>>
  <2>0. UNCHANGED <<call, batch, ready, hup>> /\ Running(k)
    BY ZenonT(60) DEF addEvent, deviceVars
  <2>1. TypeOK'
    BY SMTT(60), <1>1, <1>3, <2>0, EpollCtlType DEF IInv, TypeOK
  <2>2. EpollMatchesEvents'
    BY Zenon, <1>1, <1>3 DEF IInv, TypeOK, EpollMatchesEvents, EpollCtl
  <2>3. ContextMatchesEvents'
    BY ZenonT(60), <1>1, <1>3 DEF IInv, TypeOK, ContextMatchesEvents
  <2>4. WokenOncePerWait'
    BY SMTT(60), <1>1, <1>3, <2>0 DEF IInv, TypeOK, WokenOncePerWait, Running
  <2>5. NoLostEdge'
    BY SMTT(60), <1>1, <1>3, <2>0 DEF IInv, TypeOK, NoLostEdge, EpollCtl
  <2> QED
    BY Zenon, <2>1, <2>2, <2>3, <2>4, <2>5 DEF IInv
<1> QED
  BY ZenonT(60), <1>1, <1>2, <1>3 DEF addEvent, fd, e, ctxVars, kernelVars, Abort

(* delEvent preserves the inductive invariant.                             *)
LEMMA delEventIInv ==
  ASSUME IInv, NEW t \in Threads, delEvent(t)
  PROVE  IInv'
<1> DEFINE fd == call[t].fd
           e == call[t].event
<1>1. fd \in Fds /\ e \in Event
  BY ZenonT(60), CallFacts DEF delEvent, IInv, TypeOK
<1> HIDE DEF fd, e
<1>2. CASE UNCHANGED <<events, ctx, m_pendingEventCount, queue, interest, listed>>
  BY SMTT(60), <1>2 DEF delEvent, IInv, TypeOK, EpollMatchesEvents, ContextMatchesEvents,
              WokenOncePerWait, NoLostEdge, deviceVars
<1>3. CASE /\ EpollCtl(fd, events[fd] \ {e})
           /\ m_pendingEventCount' = m_pendingEventCount - 1
           /\ events' = [events EXCEPT ![fd] = events[fd] \ {e}]
           /\ ctx' = [ctx EXCEPT ![fd][e] = None]
           /\ UNCHANGED queue
  <2>0. UNCHANGED <<batch, ready, hup, aborted>> /\ call' = [call EXCEPT ![t] = None]
    BY ZenonT(60) DEF delEvent, deviceVars
  <2>1. TypeOK'
    BY SMTT(60), <1>1, <1>3, <2>0, EpollCtlType DEF IInv, TypeOK
  <2>2. EpollMatchesEvents'
    BY ZenonT(60), <1>1, <1>3 DEF IInv, TypeOK, EpollMatchesEvents, EpollCtl
  <2>3. ContextMatchesEvents'
    BY ZenonT(60), <1>1, <1>3 DEF IInv, TypeOK, ContextMatchesEvents
  <2>4. WokenOncePerWait'
    BY SMTT(60), <1>1, <1>3, NoneAssumption DEF IInv, TypeOK, WokenOncePerWait
  <2>5. NoLostEdge'
    BY SMTT(60), <1>1, <1>3, <2>0 DEF IInv, TypeOK, NoLostEdge, EpollCtl
  <2> QED
    BY ZenonT(60), <2>1, <2>2, <2>3, <2>4, <2>5 DEF IInv
<1> QED
  BY Zenon, <1>1, <1>2, <1>3 DEF delEvent, fd, e, ctxVars, kernelVars

(* After a trigger that comes with the matching epoll_ctl, only the batch  *)
(* reports that the step used up may be missing.                           *)
LEMMA TriggerEdge ==
  ASSUME IInv, NEW fd \in Fds, NEW S \in SUBSET Event, S \subseteq events[fd],
         aborted = None,
         EpollCtl(fd, events[fd] \ S), triggerEvent(fd, S), UNCHANGED <<ready, hup>>,
         \A t \in Threads : \A r \in batch[t] : r.fd # fd => r \in batch'[t]
  PROVE  NoLostEdge'
<1> SUFFICES ASSUME NEW f \in Fds, NEW e \in events'[f],
                    e \in ready[f] \/ f \in hup, f \notin listed'
             PROVE  \E t \in Threads : \E r \in batch'[t] : r.fd = f /\ (e \in r.mask \/ r.hup)
  BY ZenonT(60) DEF NoLostEdge
<1>1. f # fd
  BY Zenon DEF IInv, TypeOK, EpollCtl, triggerEvent
<1>2. e \in events[f] /\ f \notin listed
  BY Zenon, <1>1 DEF IInv, TypeOK, EpollCtl, triggerEvent
<1> QED
  BY <1>1, <1>2 DEF IInv, NoLostEdge

(* cancelEvent preserves the inductive invariant.                          *)
LEMMA cancelEventIInv ==
  ASSUME IInv, NEW t \in Threads, cancelEvent(t)
  PROVE  IInv'
<1> DEFINE fd == call[t].fd
           e == call[t].event
<1>1. fd \in Fds /\ e \in Event
  BY ZenonT(60), CallFacts DEF cancelEvent, IInv, TypeOK
<1> HIDE DEF fd, e
<1>2. /\ UNCHANGED <<batch, ready, hup>> /\ aborted = None
      /\ call' = [call EXCEPT ![t] = None]
      /\ aborted' \in Assertion \cup {None}
  BY Zenon DEF cancelEvent, deviceVars, Abort, Assertion
<1>3. CASE UNCHANGED <<events, ctx, m_pendingEventCount, queue, interest, listed>>
  BY SMTT(60), <1>2, <1>3 DEF IInv, TypeOK, EpollMatchesEvents, ContextMatchesEvents,
                    WokenOncePerWait, NoLostEdge
<1>4. CASE e \in events[fd] /\ EpollCtl(fd, events[fd] \ {e}) /\ triggerEvent(fd, {e})
  <2>1. TypeOK'
    BY Zenon, <1>1, <1>2, <1>4, EpollCtlType, TriggerType DEF IInv, TypeOK
  <2>2. EpollMatchesEvents' /\ ContextMatchesEvents' /\ WokenOncePerWait'
    BY Zenon, <1>1, <1>4, TriggerStep
  <2>3. NoLostEdge'
    BY Zenon, <1>1, <1>2, <1>4, TriggerEdge
  <2> QED
    BY Zenon, <2>1, <2>2, <2>3 DEF IInv
<1> QED
  BY ZenonT(60), <1>3, <1>4 DEF cancelEvent, fd, e, ctxVars, kernelVars, Abort

(* cancelAll preserves the inductive invariant.                            *)
LEMMA cancelAllIInv ==
  ASSUME IInv, NEW t \in Threads, cancelAll(t)
  PROVE  IInv'
<1> DEFINE fd == call[t].fd
<1>1. fd \in Fds
  BY ZenonT(60), CallFacts DEF cancelAll, IInv, TypeOK
<1> HIDE DEF fd
<1>2. /\ UNCHANGED <<batch, ready, hup>> /\ aborted = None
      /\ call' = [call EXCEPT ![t] = None]
      /\ aborted' \in Assertion \cup {None}
  BY ZenonT(60) DEF cancelAll, deviceVars, Abort, Assertion
<1>3. CASE UNCHANGED <<events, ctx, m_pendingEventCount, queue, interest, listed>>
  BY <1>2, <1>3 DEF IInv, TypeOK, EpollMatchesEvents, ContextMatchesEvents,
                    WokenOncePerWait, NoLostEdge
<1>4. CASE /\ WRITE \notin events[fd]
           /\ EpollCtl(fd, {})
           /\ triggerEvent(fd, events[fd] \cap {READ})
  <2>1. events[fd] \cap {READ} = events[fd] /\ events[fd] \subseteq Event
    BY <1>1, <1>4 DEF IInv, TypeOK, Event
  <2>2. EpollCtl(fd, events[fd] \ events[fd]) /\ triggerEvent(fd, events[fd])
    BY Zenon, <1>4, <2>1
  <2>3. TypeOK'
    BY ZenonT(60), <1>1, <1>2, <2>1, <2>2, EpollCtlType, TriggerType DEF IInv, TypeOK
  <2>4. EpollMatchesEvents' /\ ContextMatchesEvents' /\ WokenOncePerWait'
    BY ZenonT(60), <1>1, <2>1, <2>2, TriggerStep
  <2>5. NoLostEdge'
    BY ZenonT(60), <1>1, <1>2, <2>1, <2>2, TriggerEdge
  <2> QED
    BY Zenon, <2>3, <2>4, <2>5 DEF IInv
<1> QED
  BY ZenonT(60), <1>3, <1>4 DEF cancelAll, fd, ctxVars, kernelVars, Abort

(* An iteration of the dispatch loop preserves the inductive invariant.    *)
LEMMA idleIInv ==
  ASSUME IInv, NEW t \in Threads, NEW r \in batch[t], idle(t, r)
  PROVE  IInv'
<1> DEFINE real == r.mask \cup (IF r.hup THEN events[r.fd] ELSE {})
<1>1. r.fd \in Fds /\ r.mask \subseteq Event /\ real \subseteq Event
  BY DEF IInv, TypeOK, Report
<1>2. /\ UNCHANGED <<call, ready, hup>> /\ aborted = None
      /\ batch' = [batch EXCEPT ![t] = @ \ {r}]
      /\ aborted' \in Assertion \cup {None}
  BY ZenonT(60) DEF idle, deviceVars, Abort, Assertion, dispatchTrigger
<1>3. \A u \in Threads : \A q \in batch[u] : q.fd # r.fd => q \in batch'[u]
  BY ZenonT(60), <1>2 DEF IInv, TypeOK
<1>4. CASE /\ events[r.fd] \cap real = {} \/ interest[r.fd] = {}
           /\ UNCHANGED <<events, ctx, m_pendingEventCount, queue, interest, listed>>
  <2>1. NoLostEdge'
    <3> SUFFICES ASSUME NEW f \in Fds, NEW e \in events[f], e \in ready[f] \/ f \in hup,
                        f \notin listed
                 PROVE  \E u \in Threads : \E q \in batch'[u] :
                          q.fd = f /\ (e \in q.mask \/ q.hup)
      BY ZenonT(60), <1>2, <1>4 DEF NoLostEdge
    <3>1. PICK u \in Threads : \E q \in batch[u] : q.fd = f /\ (e \in q.mask \/ q.hup)
      BY Zenon, <1>2 DEF IInv, NoLostEdge
    <3>2. PICK q \in batch[u] : q.fd = f /\ (e \in q.mask \/ q.hup)
      BY Zenon, <3>1
    <3>3. q # r
      BY Zenon, <1>4, <3>2 DEF IInv, EpollMatchesEvents
    <3> QED
      BY Zenon, <1>2, <3>2, <3>3 DEF IInv, TypeOK
  <2>2. TypeOK'
    BY ZenonT(60), <1>2, <1>4 DEF IInv, TypeOK
  <2> QED
    BY SMTT(60), <1>2, <1>4, <2>1, <2>2 DEF IInv, EpollMatchesEvents, ContextMatchesEvents, WokenOncePerWait
<1>5. CASE aborted' \in Assertion /\ UNCHANGED <<events, ctx, m_pendingEventCount, queue, interest, listed>>
  BY SMTT(60), <1>2, <1>5, NoneAssumption DEF IInv, TypeOK, EpollMatchesEvents, ContextMatchesEvents,
                                    WokenOncePerWait, NoLostEdge
<1>6. CASE real \subseteq events[r.fd] /\ dispatchTrigger(t, r, real)
  <2>1. EpollCtl(r.fd, events[r.fd] \ real) /\ triggerEvent(r.fd, real)
    BY ZenonT(60), <1>6 DEF dispatchTrigger
  <2> HIDE DEF real
  <2>2. TypeOK'
    BY SMTT(60), <1>1, <1>2, <1>6, <2>1, EpollCtlType, TriggerType DEF IInv, TypeOK
  <2>3. EpollMatchesEvents' /\ ContextMatchesEvents' /\ WokenOncePerWait'
    BY Zenon, <1>1, <1>6, <2>1, TriggerStep
  <2>4. NoLostEdge'
    BY Zenon, <1>1, <1>2, <1>3, <1>6, <2>1, TriggerEdge
  <2> QED
    BY Zenon, <2>2, <2>3, <2>4 DEF IInv
<1>7. CASE aborted' = "triggerEvent: event not registered"
           /\ UNCHANGED <<events, ctx, m_pendingEventCount, queue, interest, listed>>
  BY ZenonT(60), <1>5, <1>7, NoneAssumption DEF Assertion
<1> QED
  BY ZenonT(60), <1>4, <1>6, <1>7 DEF idle, ctxVars, kernelVars, Abort, EpollModFails

(* epoll_wait moves every fd of the ready list into the thread's batch.    *)
LEMMA epoll_waitIInv ==
  ASSUME IInv, NEW t \in Threads, epoll_wait(t)
  PROVE  IInv'
<1>1. /\ UNCHANGED <<events, ctx, m_pendingEventCount, queue, call, aborted, interest, ready, hup>>
      /\ batch' = [batch EXCEPT ![t] = Reports] /\ listed' = {}
      /\ aborted = None /\ batch[t] = {}
  BY Zenon DEF epoll_wait, ctxVars, deviceVars, Free
<1>2. Reports \subseteq Report
  <2> SUFFICES ASSUME NEW f \in listed
               PROVE  [fd |-> f, mask |-> ready[f] \cap interest[f], hup |-> f \in hup] \in Report
    BY Zenon DEF Reports
  <2>1. f \in Fds /\ ready[f] \cap interest[f] \subseteq Event /\ (f \in hup) \in BOOLEAN
    BY DEF IInv, TypeOK
  <2> QED
    BY Zenon, <2>1 DEF Report
<1>3. TypeOK'
  BY Zenon, <1>1, <1>2 DEF IInv, TypeOK
<1>4. NoLostEdge'
  <2> SUFFICES ASSUME NEW f \in Fds, NEW e \in events[f], e \in ready[f] \/ f \in hup
               PROVE  \E u \in Threads : \E q \in batch'[u] : q.fd = f /\ (e \in q.mask \/ q.hup)
    BY ZenonT(60), <1>1 DEF NoLostEdge
  <2>1. CASE f \in listed
    <3> DEFINE q == [fd |-> f, mask |-> ready[f] \cap interest[f], hup |-> f \in hup]
    <3>1. interest[f] = events[f]
      BY Zenon DEF IInv, EpollMatchesEvents
    <3>2. q \in Reports
      BY ZenonT(60), <2>1, <3>1 DEF Reports
    <3>3. q.fd = f /\ (e \in q.mask \/ q.hup)
      BY ZenonT(60), <3>1
    <3> HIDE DEF q
    <3> QED
      BY Zenon, <1>1, <3>2, <3>3 DEF IInv, TypeOK
  <2>2. CASE f \notin listed
    <3>1. PICK u \in Threads : \E q \in batch[u] : q.fd = f /\ (e \in q.mask \/ q.hup)
      BY Zenon, <1>1, <2>2 DEF IInv, NoLostEdge
    <3> QED
      BY Zenon, <1>1, <3>1 DEF IInv, TypeOK
  <2> QED
    BY Zenon, <2>1, <2>2
<1> QED
  BY <1>1, <1>3, <1>4 DEF IInv, EpollMatchesEvents, ContextMatchesEvents, WokenOncePerWait

(* The steps that touch no context: the unlocked tests, the scheduler      *)
(* running a task, and the peer.                                           *)
LEMMA OtherIInv ==
  ASSUME IInv,
         \/ \E t \in Threads, c \in Calls : BeginCall(t, c)
         \/ \E t \in Threads, k \in Tasks : RunTask(t, k)
         \/ \E fd \in Fds : HangUp(fd) \/ \E e \in Event : BecomeReady(fd, e)
  PROVE  IInv'
<1> USE DEF IInv, TypeOK, EpollMatchesEvents, ContextMatchesEvents, WokenOncePerWait, ctxVars,
            kernelVars, deviceVars
<1>1. ASSUME NEW t \in Threads, NEW c \in Calls, BeginCall(t, c)
      PROVE  IInv'
  BY SMTT(60), <1>1 DEF BeginCall, NoLostEdge
<1>2. ASSUME NEW t \in Threads, NEW k \in Tasks, RunTask(t, k)
      PROVE  IInv'
  <2>1. ready' \in [Fds -> SUBSET Event] /\ \A f \in Fds : ready'[f] \subseteq ready[f]
    <3>1. Use[k][1] \in Fds
      BY Zenon, UseFacts
    <3>2. ready' = ready \/ ready' = [ready EXCEPT ![Use[k][1]] = @ \ {Use[k][2]}]
      BY Zenon, <1>2 DEF RunTask
    <3> HIDE DEF IInv
    <3>3. ready \in [Fds -> SUBSET Event]
      BY Zenon DEF IInv
    <3> QED
      BY ZenonT(60), <3>1, <3>2, <3>3 DEF Event
  <2>2. /\ UNCHANGED <<events, ctx, m_pendingEventCount, call, batch, aborted, interest, listed, hup>>
        /\ queue' = queue \ {k}
    BY ZenonT(60), <1>2 DEF RunTask
  <2>3. NoLostEdge'
    BY SMTT(60), <2>1, <2>2 DEF NoLostEdge
  <2> QED
    BY SMTT(60), <2>1, <2>2, <2>3
<1>3. ASSUME NEW fd \in Fds, HangUp(fd)
      PROVE  IInv'
  BY SMTT(60), <1>3 DEF HangUp, NoLostEdge
<1>4. ASSUME NEW fd \in Fds, NEW e \in Event, BecomeReady(fd, e)
      PROVE  IInv'
  <2>1. /\ UNCHANGED <<events, ctx, m_pendingEventCount, queue, call, batch, aborted, interest, hup>>
        /\ ready' = [ready EXCEPT ![fd] = @ \cup {e}]
        /\ listed' = IF interest[fd] = {} THEN listed ELSE listed \cup {fd}
    BY Zenon, <1>4 DEF BecomeReady
  <2>2. TypeOK'
    BY ZenonT(60), <2>1 DEF TypeOK, Event
  <2>3. EpollMatchesEvents' /\ ContextMatchesEvents' /\ WokenOncePerWait'
    BY SMTT(60), <2>1 DEF EpollMatchesEvents, ContextMatchesEvents, WokenOncePerWait
  <2>4. NoLostEdge'
    BY <2>1, SMTT(60) DEF NoLostEdge, TypeOK, EpollMatchesEvents
  <2> QED
    BY ZenonT(60), <2>2, <2>3, <2>4
<1> QED
  BY ZenonT(60), <1>1, <1>2, <1>3, <1>4

(* Every step of the IOManager preserves IInv.                             *)
LEMMA NextIInv == IInv /\ [Next]_vars => IInv'
<1> SUFFICES ASSUME IInv, [Next]_vars
             PROVE  IInv'
  OBVIOUS
<1>1. CASE UNCHANGED vars
  BY SMTT(60), <1>1 DEF vars, ctxVars, kernelVars, deviceVars, IInv, TypeOK, EpollMatchesEvents,
              ContextMatchesEvents, WokenOncePerWait, NoLostEdge
<1>2. CASE Next
  BY ZenonT(60), <1>2, addEventIInv, delEventIInv, cancelEventIInv, cancelAllIInv, idleIInv, epoll_waitIInv,
     OtherIInv DEF Next, FinishCall, Dispatch
<1> QED
  BY Zenon, <1>1, <1>2

(* In every reachable state epoll's interest is FdContext::events, a       *)
(* context holds a task exactly while its event is registered, a task is   *)
(* woken once per wait, and no edge-triggered report of a ready waiter is  *)
(* lost.                                                                   *)
THEOREM Invariance == Spec => []IInv
BY InitIInv, NextIInv, PTL DEF Spec

(* Every variable keeps its type, epoll's interest mask is                 *)
(* FdContext::events, and the two event contexts hold a task exactly for   *)
(* the registered events.                                                  *)
THEOREM ContextsConsistent == Spec => []Consistent
<1>1. IInv => Consistent
  BY Zenon DEF IInv, Consistent
<1> QED
  BY <1>1, Invariance, PTL

(* Whatever dispatches and cancels race, a task is scheduled once for each *)
(* time it waits.                                                          *)
THEOREM NoDoubleWake == Spec => []WokenOncePerWait
<1>1. IInv => WokenOncePerWait
  BY Zenon DEF IInv
<1> QED
  BY <1>1, Invariance, PTL

(* As long as no assertion fails, a ready waiter's fd is on epoll's ready  *)
(* list or in a batch that will wake it.                                   *)
THEOREM EdgeKept == Spec => []NoLostEdge
<1>1. IInv => NoLostEdge
  BY Zenon DEF IInv
<1> QED
  BY <1>1, Invariance, PTL

-----------------------------------------------------------------------------
(* Wake-ups.                                                               *)

(* Triggering events of fd schedules every task it takes out of a context. *)
LEMMA TriggerSchedules ==
  ASSUME IInv, NEW fd \in Fds, NEW S \in SUBSET Event, triggerEvent(fd, S)
  PROVE  WaiterScheduledOrDeleted
<1>1. \A f \in Fds, e \in Event :
        ctx'[f][e] # ctx[f][e] => f = fd /\ e \in S
  BY Zenon DEF IInv, TypeOK, triggerEvent
<1> QED
  BY Zenon, <1>1 DEF triggerEvent, WaiterScheduledOrDeleted

(* No step takes a waiting task out of its context without scheduling it,  *)
(* delEvent's own removal excepted.                                        *)
THEOREM WaitersKept == Spec => NoWaiterDropped
<1>1. ASSUME IInv, [Next]_vars
      PROVE  [WaiterScheduledOrDeleted]_vars
  <2>1. CASE UNCHANGED ctx
    BY Zenon, <1>1, <2>1 DEF WaiterScheduledOrDeleted
  <2>2. ASSUME NEW t \in Threads, NEW k \in Tasks, addEvent(t, k), ctx' # ctx
        PROVE  WaiterScheduledOrDeleted
    <3>1. ctx' = [ctx EXCEPT ![Use[k][1]][Use[k][2]] = k]
      BY ZenonT(60), <2>2 DEF addEvent, Abort, ctxVars
    <3> QED
      BY ZenonT(60), <1>1, <3>1, UseFacts DEF WaiterScheduledOrDeleted, IInv, TypeOK
  <2>3. ASSUME NEW t \in Threads, delEvent(t), ctx' # ctx
        PROVE  WaiterScheduledOrDeleted
    <3>1. call[t].fd \in Fds /\ call[t].event \in Event
      BY ZenonT(60), <1>1, <2>3, CallFacts DEF delEvent, IInv, TypeOK
    <3>2. ctx' = [ctx EXCEPT ![call[t].fd][call[t].event] = None]
      BY Zenon, <2>3 DEF delEvent, ctxVars
    <3>3. \A f \in Fds, e \in Event :
            ctx'[f][e] # ctx[f][e] => f = call[t].fd /\ e = call[t].event
      BY ZenonT(60), <1>1, <3>1, <3>2 DEF IInv, TypeOK
    <3> QED
      BY Zenon, <2>3, <3>3 DEF WaiterScheduledOrDeleted
  <2>4. ASSUME NEW t \in Threads, cancelEvent(t), ctx' # ctx
        PROVE  WaiterScheduledOrDeleted
    <3>1. call[t].fd \in Fds /\ call[t].event \in Event
      BY ZenonT(60), <1>1, <2>4, CallFacts DEF cancelEvent, IInv, TypeOK
    <3>2. triggerEvent(call[t].fd, {call[t].event})
      BY ZenonT(60), <2>4 DEF cancelEvent, ctxVars, Abort
    <3> QED
      BY Zenon, <1>1, <3>1, <3>2, TriggerSchedules
  <2>5. ASSUME NEW t \in Threads, cancelAll(t), ctx' # ctx
        PROVE  WaiterScheduledOrDeleted
    <3>1. call[t].fd \in Fds
      BY ZenonT(60), <1>1, <2>5, CallFacts DEF cancelAll, IInv, TypeOK
    <3>2. triggerEvent(call[t].fd, events[call[t].fd] \cap {READ})
      BY ZenonT(60), <2>5 DEF cancelAll, ctxVars, Abort
    <3>3. events[call[t].fd] \cap {READ} \in SUBSET Event
      BY Zenon DEF Event
    <3> QED
      BY ZenonT(60), <1>1, <3>1, <3>2, <3>3, TriggerSchedules
  <2>6. ASSUME NEW t \in Threads, NEW r \in batch[t], idle(t, r), ctx' # ctx
        PROVE  WaiterScheduledOrDeleted
    <3> DEFINE real == r.mask \cup (IF r.hup THEN events[r.fd] ELSE {})
    <3>1. r.fd \in Fds /\ real \in SUBSET Event
      BY <1>1 DEF IInv, TypeOK, Report
    <3>2. triggerEvent(r.fd, real)
      BY ZenonT(60), <2>6 DEF idle, ctxVars, Abort, dispatchTrigger
    <3> HIDE DEF real
    <3> QED
      BY ZenonT(60), <1>1, <3>1, <3>2, TriggerSchedules
  <2>7. \/ UNCHANGED ctx
        \/ \E t \in Threads, k \in Tasks : addEvent(t, k)
        \/ \E t \in Threads : delEvent(t) \/ cancelEvent(t) \/ cancelAll(t)
        \/ \E t \in Threads : \E r \in batch[t] : idle(t, r)
    BY Zenon, <1>1 DEF Next, FinishCall, Dispatch, vars, ctxVars, RunTask, BeginCall, epoll_wait, HangUp,
                BecomeReady
  <2> QED
    BY Zenon, <2>1, <2>2, <2>3, <2>4, <2>5, <2>6, <2>7
<1> QED
  BY <1>1, Invariance, PTL DEF Spec, NoWaiterDropped

-----------------------------------------------------------------------------
(* The assertions, for programs that use each descriptor in one direction. *)

(* Each fd has one waiter, and cancelAll (close) is not called on an fd    *)
(* somebody writes.                                                        *)
OneDirection ==
  /\ \A k, l \in Tasks : Use[k][1] = Use[l][1] => k = l
  /\ \A c \in Calls : c.name = "cancelAll" => \A k \in Tasks : Use[k] # <<c.fd, WRITE>>

(* What a thread carries between its unlocked steps, a report or a call,   *)
(* is about an event somebody waits for at some time.                      *)
InFlight ==
  /\ aborted = None
  /\ \A t \in Threads : \A r \in batch[t] : \A e \in r.mask :
       \E k \in Tasks : Use[k] = <<r.fd, e>>
  /\ \A t \in Threads : call[t] # None /\ call[t].name = "cancelEvent" =>
       \E k \in Tasks : Use[k] = <<call[t].fd, call[t].event>>

(* A registered event has its task.                                        *)
LEMMA EventHasTask ==
  ASSUME IInv, NEW fd \in Fds, NEW e \in events[fd]
  PROVE  /\ ctx[fd][e] \in Tasks
         /\ Use[ctx[fd][e]] = <<fd, e>>
<1>1. e \in Event
  BY Zenon DEF IInv, TypeOK
<1>2. ctx[fd][e] \in Tasks
  BY <1>1 DEF IInv, TypeOK, ContextMatchesEvents
<1> QED
  BY Zenon, <1>1, <1>2 DEF IInv, WokenOncePerWait

(* With one waiter per fd, all events of an fd anybody knows are the same. *)
LEMMA SameEvent ==
  ASSUME IInv, OneDirection, NEW fd \in Fds, NEW e \in events[fd], NEW d,
         \E k \in Tasks : Use[k] = <<fd, d>>
  PROVE  d = e
<1>1. PICK k \in Tasks : Use[k] = <<fd, d>>
  BY Zenon
<1>2. k = ctx[fd][e] /\ Use[k] = <<fd, e>>
  BY SMTT(60), <1>1, EventHasTask DEF OneDirection
<1> QED
  BY SMTT(60), <1>1, <1>2

(* Every step keeps what the threads carry about events that are awaited.  *)
LEMMA NextInFlight ==
  ASSUME IInv, OneDirection, InFlight, [Next]_vars
  PROVE  InFlight'
<1>1. ASSUME NEW t \in Threads, NEW k \in Tasks, addEvent(t, k)
      PROVE  InFlight'
  <2> DEFINE fd == Use[k][1]
             e == Use[k][2]
  <2>1. fd \in Fds /\ e \in Event /\ Use[k] = <<fd, e>> /\ k # None
    BY ZenonT(60), UseFacts
  <2>2. e \notin events[fd]
    <3>1. ctx[fd][e] # k
      BY ZenonT(60), <1>1, <2>1 DEF addEvent, Running
    <3> QED
      BY SMTT(60), <2>1, <3>1, EventHasTask DEF OneDirection
  <2>3. ctx[fd][e] = None
    BY Zenon, <2>1, <2>2 DEF IInv, ContextMatchesEvents
  <2>4. aborted' = None /\ UNCHANGED <<call, batch>>
    BY Zenon, <1>1, <2>2, <2>3 DEF addEvent, InFlight
  <2> QED
    BY ZenonT(60), <2>4 DEF InFlight
<1>2. ASSUME NEW t \in Threads, NEW c \in Calls, BeginCall(t, c)
      PROVE  InFlight'
  <2>1. c.name = "cancelEvent" => \E k \in Tasks : Use[k] = <<c.fd, c.event>>
    BY ZenonT(60), <1>2, CallFacts, EventHasTask DEF BeginCall
  <2>2. call' = [call EXCEPT ![t] = c] /\ UNCHANGED <<batch, aborted>>
    BY Zenon, <1>2 DEF BeginCall
  <2> QED
    BY ZenonT(60), <2>1, <2>2 DEF InFlight, IInv, TypeOK
<1>3. ASSUME NEW t \in Threads, FinishCall(t)
      PROVE  InFlight'
  <2>1. call[t] \in Calls /\ call[t].fd \in Fds
    BY ZenonT(60), <1>3, CallFacts DEF FinishCall, delEvent, cancelEvent, cancelAll, IInv, TypeOK
  <2>2. call' = [call EXCEPT ![t] = None] /\ UNCHANGED batch
    BY ZenonT(60), <1>3 DEF FinishCall, delEvent, cancelEvent, cancelAll
  <2>3. CASE delEvent(t)
    BY ZenonT(60), <2>2, <2>3 DEF delEvent, InFlight, IInv, TypeOK
  <2>4. CASE cancelEvent(t)
    <3>1. interest[call[t].fd] # {} => call[t].event \in events[call[t].fd]
      <4>1. \E k \in Tasks : Use[k] = <<call[t].fd, call[t].event>>
        BY ZenonT(60), <2>4 DEF cancelEvent, InFlight
      <4>2. \A e \in events[call[t].fd] : call[t].event = e
        BY Zenon, <2>1, <4>1, SameEvent
      <4> QED
        BY Zenon, <2>1, <4>2 DEF IInv, EpollMatchesEvents
    <3>2. UNCHANGED aborted
      BY ZenonT(60), <2>4, <3>1 DEF cancelEvent, EpollModFails
    <3> QED
      BY ZenonT(60), <2>2, <3>2 DEF InFlight, IInv, TypeOK
  <2>5. CASE cancelAll(t)
    <3>1. WRITE \notin events[call[t].fd]
      <4>1. \A k \in Tasks : Use[k] # <<call[t].fd, WRITE>>
        BY ZenonT(60), <2>1, <2>5 DEF cancelAll, OneDirection
      <4> QED
        BY ZenonT(60), <2>1, <4>1, EventHasTask
    <3>2. UNCHANGED aborted
      BY Zenon, <2>5, <3>1 DEF cancelAll
    <3> QED
      BY Zenon, <2>2, <3>2 DEF InFlight, IInv, TypeOK
  <2> QED
    BY ZenonT(60), <1>3, <2>3, <2>4, <2>5 DEF FinishCall
<1>4. ASSUME NEW t \in Threads, epoll_wait(t)
      PROVE  InFlight'
  <2>1. batch' = [batch EXCEPT ![t] = Reports] /\ UNCHANGED <<call, aborted>>
    BY Zenon, <1>4 DEF epoll_wait
  <2>2. \A r \in Reports : \A e \in r.mask : \E k \in Tasks : Use[k] = <<r.fd, e>>
    <3> SUFFICES ASSUME NEW f \in listed, NEW e \in ready[f] \cap interest[f]
                 PROVE  \E k \in Tasks : Use[k] = <<f, e>>
      BY SMTT(60) DEF Reports
    <3> QED
      BY ZenonT(60), EventHasTask DEF IInv, TypeOK, EpollMatchesEvents
  <2> QED
    BY ZenonT(60), <2>1, <2>2 DEF InFlight, IInv, TypeOK
<1>5. ASSUME NEW t \in Threads, NEW r \in batch[t], idle(t, r)
      PROVE  InFlight'
  <2> DEFINE real == r.mask \cup (IF r.hup THEN events[r.fd] ELSE {})
  <2>1. r.fd \in Fds
    BY SMTT(60) DEF IInv, TypeOK, Report
  <2>2. events[r.fd] \cap real # {} => real \subseteq events[r.fd]
    BY SMTT(60), <2>1, SameEvent DEF InFlight
  <2>3. UNCHANGED <<call, aborted>> /\ batch' = [batch EXCEPT ![t] = @ \ {r}]
    BY ZenonT(60), <1>5, <2>2 DEF idle, dispatchTrigger
  <2> QED
    BY ZenonT(60), <2>3 DEF InFlight, IInv, TypeOK
<1>6. CASE UNCHANGED <<aborted, batch, call>>
  BY ZenonT(60), <1>6 DEF InFlight
<1> QED
  BY ZenonT(60), <1>1, <1>2, <1>3, <1>4, <1>5, <1>6
     DEF Next, Dispatch, RunTask, HangUp, BecomeReady, vars

(* When every descriptor is used in one direction, the assertions of       *)
(* triggerEvent and addEvent hold whatever threads dispatch, cancel and    *)
(* delete concurrently.                                                    *)
THEOREM OneDirectionSafe == OneDirection /\ Spec => []AssertionsHold
<1>1. Init => InFlight
  BY Zenon DEF Init, InFlight
<1>2. ASSUME OneDirection PROVE IInv /\ InFlight /\ [Next]_vars => InFlight'
  BY Zenon, <1>2, NextInFlight
<1>3. InFlight => AssertionsHold
  BY Zenon DEF InFlight, AssertionsHold
<1>4. OneDirection => (Spec => []AssertionsHold)
  <2> SUFFICES ASSUME OneDirection PROVE Spec => []AssertionsHold
    OBVIOUS
  <2>1. IInv /\ InFlight /\ [Next]_vars => InFlight'
    BY Zenon, <1>2
  <2> QED
    BY <1>1, <1>3, <2>1, Invariance, PTL DEF Spec
<1> QED
  BY Zenon, <1>4

-----------------------------------------------------------------------------
(* The pending count.                                                      *)

(* Nothing in civan calls delEvent, the one call whose decrement is not    *)
(* tied to an event it removes.                                            *)
NoDelEvent == \A c \in Calls : c.name # "delEvent"

(* The registered events are finitely many, so that they can be counted.   *)
LEMMA RegisteredFinite == IsFiniteSet(Registered) /\ Cardinality(Registered) \in Nat
<1>1. IsFiniteSet(Fds \X Event)
  BY Zenon, FiniteAssumption, EventFinite, FS_Product
<1>2. Registered \in SUBSET (Fds \X Event)
  BY Zenon DEF Registered
<1>3. IsFiniteSet(Registered)
  BY Zenon, <1>1, <1>2, FS_Subset
<1> QED
  BY Zenon, <1>3, FS_CardinalityType

(* triggerEvent takes as many events out of Registered as it subtracts.    *)
LEMMA TriggerCount ==
  ASSUME IInv, PendingCountExact, NEW fd \in Fds, NEW S \in SUBSET Event, S \subseteq events[fd],
         triggerEvent(fd, S)
  PROVE  PendingCountExact'
<1> DEFINE R == Registered
           r == <<fd, READ>>
           w == <<fd, WRITE>>
<1>1. Registered' = {u \in R : ~(u[1] = fd /\ u[2] \in S)}
  BY Zenon DEF IInv, TypeOK, triggerEvent, Registered
<1>2. \A e \in S : <<fd, e>> \in R
  BY Zenon DEF IInv, TypeOK, Registered
<1>3. IsFiniteSet(R) /\ Cardinality(R) \in Nat /\ m_pendingEventCount = Cardinality(R)
  BY Zenon, RegisteredFinite DEF PendingCountExact
<1>4. m_pendingEventCount' = m_pendingEventCount - Cardinality(S)
  BY Zenon DEF triggerEvent
<1>5. \A u \in R : u = <<u[1], u[2]>>
  BY SMTT(60) DEF Registered
<1>6. READ # WRITE /\ r # w
  BY Zenon DEF READ, WRITE
<1>7. IsFiniteSet({READ}) /\ Cardinality({READ}) = 1 /\ Cardinality({WRITE}) = 1
  BY ZenonT(60), FS_Singleton
<1> HIDE DEF R
<1>8. Cardinality(Registered') = Cardinality(R) - Cardinality(S)
  <2>1. CASE S = {}
    <3>1. Registered' = R
      BY Zenon, <1>1, <2>1
    <3> QED
      BY SMTT(60), <1>3, <2>1, <3>1, FS_EmptySet
  <2>2. CASE S = {READ}
    <3>1. Registered' = R \ {r} /\ r \in R
      BY Zenon, <1>1, <1>2, <1>5, <2>2
    <3>2. Cardinality(R \ {r}) = Cardinality(R) - 1
      BY ZenonT(60), <1>3, <3>1, FS_RemoveElement
    <3> QED
      BY Zenon, <1>7, <2>2, <3>1, <3>2
  <2>3. CASE S = {WRITE}
    <3>1. Registered' = R \ {w} /\ w \in R
      BY Zenon, <1>1, <1>2, <1>5, <2>3
    <3>2. Cardinality(R \ {w}) = Cardinality(R) - 1
      BY ZenonT(60), <1>3, <3>1, FS_RemoveElement
    <3> QED
      BY Zenon, <1>7, <2>3, <3>1, <3>2
  <2>4. CASE S = {READ, WRITE}
    <3>1. Registered' = (R \ {r}) \ {w} /\ r \in R /\ w \in R \ {r}
      BY SMTT(60), <1>1, <1>2, <1>5, <1>6, <2>4
    <3>2. IsFiniteSet(R \ {r}) /\ Cardinality(R \ {r}) = Cardinality(R) - 1
      BY ZenonT(60), <1>3, <3>1, FS_RemoveElement
    <3>3. Cardinality((R \ {r}) \ {w}) = Cardinality(R \ {r}) - 1
      BY ZenonT(60), <3>1, <3>2, FS_RemoveElement
    <3>4. S = {READ} \cup {WRITE}
      BY Zenon, <2>4
    <3>5. Cardinality(S) = 2
      <4>1. WRITE \notin {READ}
        BY Zenon, <1>6
      <4>2. Cardinality({READ} \cup {WRITE}) = Cardinality({READ}) + 1
        BY Zenon, <1>7, <4>1, FS_AddElement
      <4> QED
        BY SMTT(60), <1>7, <3>4, <4>2
    <3> QED
      BY SMTT(60), <1>3, <3>1, <3>2, <3>3, <3>5
  <2> QED
    BY ZenonT(60), <2>1, <2>2, <2>3, <2>4 DEF Event
<1> QED
  BY Zenon, <1>3, <1>4, <1>8 DEF PendingCountExact

(* m_pendingEventCount is the number of registered events in every state   *)
(* of a program that does not call delEvent, so stopping() may rely on it. *)
THEOREM PendingCount == NoDelEvent /\ Spec => []PendingCountExact
<1>1. Init => PendingCountExact
  <2> SUFFICES ASSUME Init PROVE PendingCountExact
    OBVIOUS
  <2>1. Registered = {} /\ m_pendingEventCount = 0
    BY Zenon DEF Init, Registered
  <2> QED
    BY Zenon, <2>1, FS_EmptySet DEF PendingCountExact
<1>2. ASSUME NoDelEvent, IInv, PendingCountExact, [Next]_vars
      PROVE  PendingCountExact'
  <2>1. CASE UNCHANGED <<events, m_pendingEventCount>>
    BY Zenon, <1>2, <2>1 DEF PendingCountExact, Registered
  <2>2. ASSUME NEW t \in Threads, NEW k \in Tasks, addEvent(t, k)
        PROVE  PendingCountExact'
    <3> DEFINE fd == Use[k][1]
               e == Use[k][2]
               u == <<fd, e>>
    <3>1. fd \in Fds /\ e \in Event
      BY Zenon, UseFacts
    <3>2. CASE /\ e \notin events[fd]
               /\ m_pendingEventCount' = m_pendingEventCount + 1
               /\ events' = [events EXCEPT ![fd] = @ \cup {e}]
      <4>1. Registered' = Registered \cup {u} /\ u \notin Registered
        <5> HIDE DEF fd, e
        <5> QED
          BY SMTT(60), <1>2, <3>1, <3>2 DEF IInv, TypeOK, Registered
      <4> HIDE DEF u
      <4>2. Cardinality(Registered') = Cardinality(Registered) + 1
        BY ZenonT(60), <4>1, RegisteredFinite, FS_AddElement
      <4> QED
        BY ZenonT(60), <1>2, <3>2, <4>2 DEF PendingCountExact
    <3> QED
      BY ZenonT(60), <2>1, <2>2, <3>2 DEF addEvent, ctxVars, Abort
  <2>3. ASSUME NEW t \in Threads, cancelEvent(t), ~UNCHANGED <<events, m_pendingEventCount>>
        PROVE  PendingCountExact'
    <3>1. call[t].fd \in Fds /\ call[t].event \in events[call[t].fd]
          /\ triggerEvent(call[t].fd, {call[t].event})
      BY ZenonT(60), <1>2, <2>3, CallFacts DEF cancelEvent, IInv, TypeOK, ctxVars, Abort
    <3>2. {call[t].event} \in SUBSET Event
      BY Zenon, <1>2, <3>1 DEF IInv, TypeOK
    <3> QED
      BY ZenonT(60), <1>2, <3>1, <3>2, TriggerCount
  <2>4. ASSUME NEW t \in Threads, cancelAll(t), ~UNCHANGED <<events, m_pendingEventCount>>
        PROVE  PendingCountExact'
    <3>1. call[t].fd \in Fds /\ triggerEvent(call[t].fd, events[call[t].fd] \cap {READ})
      BY ZenonT(60), <1>2, <2>4, CallFacts DEF cancelAll, IInv, TypeOK, ctxVars, Abort
    <3>2. events[call[t].fd] \cap {READ} \in SUBSET Event
      BY Zenon DEF Event
    <3> QED
      BY ZenonT(60), <1>2, <3>1, <3>2, TriggerCount
  <2>5. ASSUME NEW t \in Threads, NEW r \in batch[t], idle(t, r),
               ~UNCHANGED <<events, m_pendingEventCount>>
        PROVE  PendingCountExact'
    <3> DEFINE real == r.mask \cup (IF r.hup THEN events[r.fd] ELSE {})
    <3>1. r.fd \in Fds /\ real \in SUBSET Event
      BY SMTT(60), <1>2 DEF IInv, TypeOK, Report
    <3>2. triggerEvent(r.fd, real) /\ real \subseteq events[r.fd]
      BY ZenonT(60), <2>5 DEF idle, ctxVars, Abort, dispatchTrigger
    <3> HIDE DEF real
    <3> QED
      BY ZenonT(60), <1>2, <3>1, <3>2, TriggerCount
  <2>6. \A t \in Threads : ~delEvent(t)
    BY Zenon, <1>2 DEF delEvent, NoDelEvent, IInv, TypeOK
  <2>7. \/ UNCHANGED <<events, m_pendingEventCount>>
        \/ \E t \in Threads, k \in Tasks : addEvent(t, k)
        \/ \E t \in Threads : cancelEvent(t) \/ cancelAll(t)
        \/ \E t \in Threads : \E r \in batch[t] : idle(t, r)
    BY ZenonT(60), <1>2, <2>6 DEF Next, FinishCall, Dispatch, vars, ctxVars, RunTask, BeginCall, epoll_wait,
                      HangUp, BecomeReady
  <2> QED
    BY ZenonT(60), <2>1, <2>2, <2>3, <2>4, <2>5, <2>7
<1>3. ASSUME NoDelEvent PROVE Spec => []PendingCountExact
  <2>1. IInv /\ PendingCountExact /\ [Next]_vars => PendingCountExact'
    BY Zenon, <1>2, <1>3
  <2> QED
    BY <1>1, <2>1, Invariance, PTL DEF Spec
<1> QED
  BY Zenon, <1>3

=============================================================================
