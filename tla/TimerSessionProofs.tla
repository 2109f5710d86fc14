------------------------- MODULE TimerSessionProofs -------------------------
(* Theorems about the two components whose proofs need a least element: the *)
(* first timer of TimerManager, for any threads, timers, periods and        *)
(* bounds, and the first request on the wire of HttpSession, for any        *)
(* requests and any sizes of buffers, segments and responses.               *)
EXTENDS TimerManager, HttpSession, WellFoundedInduction, TLAPS

-----------------------------------------------------------------------------
(* TimerManager.                                                            *)

(* What a thread is doing with the timer it works on.  A timer that is     *)
(* about to be inserted is in one thread's hands only: the program does    *)
(* not hold it yet and it is not in m_timers.                              *)
Phases ==
  /\ \A th \in Threads : pc[th] = "insert" => arg[th].timer \notin held /\ ~Armed(arg[th].timer)
  /\ \A th, ti \in Threads :
       (pc[th] = "insert" /\ pc[ti] = "insert" /\ arg[th].timer = arg[ti].timer) => th = ti
  /\ \A th \in Threads : pc[th] = "reset" => arg[th].timer \in held
  /\ \A th \in Threads : pc[th] = "tickle" => ~Inserting(arg[th].timer)
  /\ \A t \in Timers : Armed(t) => t \in made

(* The period of a timer began at some time of the past.                   *)
Started ==
  /\ \A t \in Timers : m_ms[t] <= m_next[t] /\ m_next[t] - m_ms[t] <= clock
  /\ \A w \in Workers : now_ms[w] <= clock

(* The inductive invariant.                                                *)
IInv ==
  /\ TypeOK /\ KeysMatch /\ CbIffArmed /\ TickledMeansAwake /\ NoOversleep
  /\ Phases /\ Started

-----------------------------------------------------------------------------
(* Lemmas about the operators.                                             *)

(* A set of natural numbers has a least member.                            *)
LEMMA LeastKey ==
  ASSUME NEW S \in SUBSET Nat, S # {}
  PROVE  \E n \in S : \A k \in S : n <= k
<1> DEFINE Smaller == {p \in Nat \X Nat : p[1] < p[2]}
<1>1. IsWellFoundedOn(Smaller, Nat)
  BY Zenon, NatLessThanWellFounded DEF OpToRel
<1>2. ASSUME NEW k \in Nat, NEW n \in Nat, ~(<<k, n>> \in Smaller) PROVE n <= k
  BY <1>2
<1> HIDE DEF Smaller
<1>3. PICK n \in S : \A k \in S : ~(<<k, n>> \in Smaller)
  BY Zenon, <1>1, WFMin
<1> QED
  BY Zenon, <1>2, <1>3

(* NextTimeout is at most MAX_TIMEOUT, and no longer than the time to any  *)
(* timer that is not due yet.                                              *)
LEMMA NextTimeoutFacts ==
  ASSUME TypeOK
  PROVE  /\ NextTimeout \in 0 .. MAX_TIMEOUT
         /\ \A n \in Keys : NextTimeout = 0 \/ NextTimeout <= n - GetCurrentMs
<1>1. Keys \subseteq Nat
  BY DEF TypeOK, Keys
<1>2. GetCurrentMs \in Nat
  BY DEF TypeOK, GetCurrentMs
<1>3. CASE Keys = {}
  BY <1>3, BoundsAssumption DEF NextTimeout
<1>4. CASE Keys # {}
  <2> DEFINE next == CHOOSE n \in Keys : \A k \in Keys : n <= k
  <2>1. next \in Keys /\ \A k \in Keys : next <= k
    BY Zenon, <1>1, <1>4, LeastKey
  <2> HIDE DEF next
  <2>2. NextTimeout = LET ms == IF GetCurrentMs >= next THEN 0 ELSE next - GetCurrentMs
                      IN IF ms > MAX_TIMEOUT THEN MAX_TIMEOUT ELSE ms
    BY Zenon, <1>4 DEF NextTimeout, next
  <2> QED
    BY <1>1, <1>2, <2>1, <2>2, BoundsAssumption
<1> QED
  BY Zenon, <1>3, <1>4

(* The two outcomes of insertTimer: the new timer is the first one and     *)
(* tickle() comes next, or the call returns.                               *)
GoesOnToTickle(th) ==
  /\ m_tickled' = TRUE /\ held' = held /\ arg' = arg
  /\ pc' = [pc EXCEPT ![th] = "tickle"]

Returns(th, t) ==
  /\ m_tickled' = m_tickled /\ held' = held \cup {t}
  /\ arg' = [arg EXCEPT ![th] = NoArg]
  /\ pc' = [pc EXCEPT ![th] = "run"]

(* An insertion that returns at once found m_tickled raised, or a timer    *)
(* that is not behind the new one.                                         *)
LEMMA InsertCases ==
  ASSUME IInv, NEW th \in Threads, NEW S \in SUBSET m_timers, NEW u \in Nat \X Timers,
         insertTimer(th, S, u)
  PROVE  \/ GoesOnToTickle(th)
         \/ Returns(th, u[2]) /\ (m_tickled \/ \E v \in S : v[1] <= u[1])
<1> DEFINE at_front == IsFirst(u, S) /\ ~m_tickled
<1>1. /\ m_timers' = S \cup {u}
      /\ m_tickled' = (m_tickled \/ at_front)
      /\ held' = IF at_front THEN held ELSE held \cup {u[2]}
      /\ arg' = [arg EXCEPT ![th] = IF at_front THEN @ ELSE NoArg]
      /\ pc' = [pc EXCEPT ![th] = IF at_front THEN "tickle" ELSE "run"]
  BY Zenon DEF insertTimer, Goto
<1>2. at_front \in BOOLEAN /\ m_tickled \in BOOLEAN
  BY Zenon DEF IInv, TypeOK
<1>3. ~at_front => m_tickled \/ \E v \in S : v[1] <= u[1]
  BY DEF IInv, TypeOK, IsFirst, Less
<1>4. arg \in [Threads -> [timer : Int, ms : Nat, from_now : BOOLEAN]]
  BY Zenon DEF IInv, TypeOK
<1> HIDE DEF at_front
<1>5. CASE at_front
  <2>1. m_tickled' = TRUE
    BY Zenon, <1>1, <1>5
  <2>2. arg' = arg
    BY Zenon, <1>1, <1>4, <1>5
  <2> QED
    BY Zenon, <1>1, <1>5, <2>1, <2>2 DEF GoesOnToTickle
<1>6. CASE ~at_front
  <2>1. m_tickled' = m_tickled
    BY Zenon, <1>1, <1>2, <1>6
  <2> QED
    BY Zenon, <1>1, <1>3, <1>6, <2>1 DEF Returns
<1> QED
  BY Zenon, <1>5, <1>6

(* Either way the types of what the thread and the program hold are kept.  *)
LEMMA InsertTyped ==
  ASSUME IInv, NEW th \in Threads, pc[th] \in {"insert", "reset"}, UNCHANGED made,
         GoesOnToTickle(th) \/ Returns(th, arg[th].timer)
  PROVE  /\ held' \subseteq made' /\ m_tickled' \in BOOLEAN
         /\ pc' \in [Threads -> PC] /\ \A o \in Outside : pc'[o] \notin InIdle
         /\ arg' \in [Threads -> [timer : Int, ms : Nat, from_now : BOOLEAN]]
         /\ \A ti \in Threads : pc'[ti] \in {"insert", "tickle", "reset"} => arg'[ti].timer \in made'
<1> USE DEF IInv, TypeOK
<1>1. CASE GoesOnToTickle(th)
  BY Zenon, <1>1 DEF GoesOnToTickle, PC, InIdle, Threads
<1>2. CASE Returns(th, arg[th].timer)
  <2>1. held' \subseteq made' /\ m_tickled' \in BOOLEAN
    BY ZenonT(60), <1>2 DEF Returns
  <2>2. pc' \in [Threads -> PC] /\ \A o \in Outside : pc'[o] \notin InIdle
    BY Zenon, <1>2 DEF Returns, PC, InIdle, Threads
  <2>3. arg' \in [Threads -> [timer : Int, ms : Nat, from_now : BOOLEAN]]
    BY <1>2 DEF Returns, NoArg
  <2>4. \A ti \in Threads : pc'[ti] \in {"insert", "tickle", "reset"} => arg'[ti].timer \in made'
    BY Zenon, <1>2 DEF Returns
  <2> QED
    BY Zenon, <2>1, <2>2, <2>3, <2>4
<1> QED
  BY Zenon, <1>1, <1>2

(* An insertion, at the front or not, keeps the promises about sleep.      *)
LEMMA InsertCovered ==
  ASSUME IInv, NEW th \in Threads, NEW S \in SUBSET m_timers, NEW u \in Nat \X Timers,
         pc[th] \in {"insert", "reset"}, insertTimer(th, S, u),
         UNCHANGED <<clockVars, deadline, pipeVars>>
  PROVE  TickledMeansAwake' /\ NoOversleep'
<1>1. CASE GoesOnToTickle(th)
  BY Zenon, <1>1 DEF GoesOnToTickle, IInv, TypeOK, TickledMeansAwake, NoOversleep
<1>2. CASE Returns(th, u[2]) /\ (m_tickled \/ \E v \in S : v[1] <= u[1])
  <2> DEFINE Cover == \/ \E w \in Workers : pc[w] # "epoll_wait"
                      \/ edge /\ pipe
                      \/ \E ti \in Threads : pc[ti] = "tickle"
  <2>1. Cover => Cover'
    BY <1>2 DEF Returns, IInv, TypeOK, pipeVars
  <2>2. TickledMeansAwake'
    BY Zenon, <1>2, <2>1 DEF Returns, IInv, TickledMeansAwake
  <2>3. CASE m_tickled
    BY Zenon, <2>1, <2>3 DEF IInv, TickledMeansAwake, NoOversleep
  <2>4. ASSUME NEW v \in S, v[1] <= u[1]
        PROVE  NoOversleep'
    <3>1. CASE Cover \/ behind # 0
      BY Zenon, <2>1, <3>1 DEF NoOversleep, clockVars
    <3>2. CASE ~Cover /\ behind = 0
      <4>1. PICK w \in Workers : \A n \in Keys : deadline[w] <= n \/ deadline[w] <= clock
        BY Zenon, <2>4, <3>2 DEF IInv, NoOversleep
      <4>2. deadline[w] <= v[1] \/ deadline[w] <= clock
        BY Zenon, <2>4, <4>1 DEF Keys
      <4>3. \A n \in Keys' : n \in Keys \/ n = u[1]
        <5>1. m_timers' = S \cup {u}
          BY Zenon DEF insertTimer
        <5> QED
          BY Zenon, <5>1 DEF Keys
      <4>4. deadline[w] \in Nat /\ v[1] \in Nat /\ u[1] \in Nat
        BY Zenon, <2>4 DEF IInv, TypeOK
      <4>5. \A n \in Keys' : deadline'[w] <= n \/ deadline'[w] <= clock'
        BY <2>4, <4>1, <4>2, <4>3, <4>4 DEF clockVars
      <4> QED
        BY Zenon, <4>5 DEF NoOversleep
    <3> QED
      BY Zenon, <3>1, <3>2
  <2> QED
    BY Zenon, <1>2, <2>2, <2>3, <2>4
<1> QED
  BY Zenon, <1>1, <1>2, InsertCases

-----------------------------------------------------------------------------
(* The operations on timers.                                               *)

(* The construction of a timer: nobody else can know it yet.               *)
LEMMA newTimerIInv ==
  ASSUME IInv, NEW th \in Threads, NEW t \in Timers, NEW ms \in Ms, NEW b \in BOOLEAN,
         newTimer(th, t, ms, b)
  PROVE  IInv'
<1> USE DEF IInv, newTimer, Goto, clockVars, timerVars, pipeVars
<1>1. TypeOK'
  <2>1. t \in Int /\ ms \in Nat /\ GetCurrentMs + ms \in Nat
    BY TimersAssumption, MsAssumption DEF TypeOK, GetCurrentMs
  <2>2. arg' \in [Threads -> [timer : Int, ms : Nat, from_now : BOOLEAN]]
    BY ZenonT(60), <2>1 DEF TypeOK
  <2>3. \A ti \in Threads : pc'[ti] \in {"insert", "tickle", "reset"} => arg'[ti].timer \in made'
    BY DEF TypeOK
  <2>4. pc' \in [Threads -> PC] /\ \A o \in Outside : pc'[o] \notin InIdle
    BY Zenon DEF TypeOK, PC, InIdle, Threads
  <2>5. /\ m_next' \in [Timers -> Nat] /\ m_ms' \in [Timers -> Nat]
        /\ m_recurring' \in [Timers -> BOOLEAN] /\ m_cb' \in [Timers -> BOOLEAN]
    BY Zenon, <2>1 DEF TypeOK
  <2> QED
    BY Zenon, <2>2, <2>3, <2>4, <2>5 DEF TypeOK
<1>2. ~Armed(t) /\ t \notin held
  BY Zenon DEF TypeOK, Phases
<1>3. KeysMatch'
  BY Zenon, <1>2 DEF TypeOK, KeysMatch, Armed
<1>4. CbIffArmed'
  BY SMTT(60), <1>2 DEF TypeOK, CbIffArmed, Armed, Inserting
<1>5. Phases'
  BY <1>2 DEF TypeOK, Phases, Armed, Inserting
<1>6. Started'
  BY MsAssumption DEF TypeOK, Started, GetCurrentMs
<1>7. TickledMeansAwake' /\ NoOversleep'
  BY Zenon DEF TypeOK, TickledMeansAwake, NoOversleep, Keys, Threads
<1> QED
  BY Zenon, <1>1, <1>3, <1>4, <1>5, <1>6, <1>7

(* The insertion of a new timer.                                           *)
LEMMA addTimerIInv ==
  ASSUME IInv, NEW th \in Threads, addTimer(th)
  PROVE  IInv'
<1> DEFINE t == arg[th].timer
           u == <<m_next[t], t>>
<1>a. UNCHANGED <<clockVars, m_next, m_ms, m_recurring, m_cb, made, m_previousTime, deadline,
                  now_ms, cbs, m_fibers, pipeVars, crashed>>
  BY Zenon DEF addTimer
<1>b. insertTimer(th, m_timers, u) /\ pc[th] = "insert"
  BY Zenon DEF addTimer
<1>c. t \in Timers /\ t \in made /\ u \in Nat \X Timers
  BY Zenon, <1>b DEF IInv, TypeOK
<1>d. u[1] = m_next[t] /\ u[2] = t
  OBVIOUS
<1> HIDE DEF u
<1>1. GoesOnToTickle(th) \/ Returns(th, t)
  BY Zenon, <1>b, <1>c, <1>d, InsertCases
<1>2. m_timers' = m_timers \cup {u}
  BY Zenon, <1>b DEF insertTimer
<1> USE DEF IInv, clockVars, timerVars, pipeVars
<1>3. ~Armed(t) /\ t \notin held /\ Inserting(t)
  BY Zenon, <1>b DEF Phases, Inserting
<1>4. TypeOK'
  <2>1. UNCHANGED made /\ pc[th] \in {"insert", "reset"}
    BY Zenon, <1>a, <1>b
  <2>2. m_timers' \subseteq Nat \X Timers
    BY Zenon, <1>c, <1>2 DEF TypeOK
  <2> HIDE DEF IInv
  <2>3. /\ held' \subseteq made' /\ m_tickled' \in BOOLEAN
        /\ pc' \in [Threads -> PC] /\ \A o \in Outside : pc'[o] \notin InIdle
        /\ arg' \in [Threads -> [timer : Int, ms : Nat, from_now : BOOLEAN]]
        /\ \A ti \in Threads : pc'[ti] \in {"insert", "tickle", "reset"} => arg'[ti].timer \in made'
    BY Zenon, <1>1, <2>1, InsertTyped
  <2> QED
    BY Zenon, <1>a, <2>2, <2>3 DEF IInv, TypeOK
<1>5. KeysMatch'
  BY Zenon, <1>a, <1>d, <1>2, <1>3 DEF TypeOK, KeysMatch, Armed
<1>6. \A x \in Timers : /\ Armed(x)' <=> (Armed(x) \/ x = t)
                        /\ Inserting(x)' <=> (Inserting(x) /\ x # t)
  BY ZenonT(60), <1>b, <1>c, <1>d, <1>1, <1>2 DEF GoesOnToTickle, Returns, TypeOK, Armed, Inserting, Phases
<1>7. CbIffArmed'
  BY Zenon, <1>a, <1>3, <1>6 DEF CbIffArmed
<1>8. Phases'
  <2>1. ASSUME NEW ti \in Threads, pc'[ti] \in {"insert", "reset"}
        PROVE  ti # th /\ pc[ti] = pc'[ti] /\ arg'[ti] = arg[ti]
    BY Zenon, <1>1, <2>1 DEF GoesOnToTickle, Returns, TypeOK
  <2>2. ASSUME NEW ti \in Threads, pc'[ti] = "insert"
        PROVE  arg'[ti].timer \notin held' /\ ~Armed(arg[ti].timer)'
    <3>1. ti # th /\ pc[ti] = "insert" /\ arg'[ti] = arg[ti] /\ arg[ti].timer \in Timers
      BY Zenon, <2>1, <2>2 DEF TypeOK
    <3>2. arg[ti].timer # t
      BY Zenon, <1>b, <3>1 DEF Phases
    <3> QED
      BY Zenon, <1>1, <1>6, <3>1, <3>2 DEF GoesOnToTickle, Returns, Phases
  <2>3. ASSUME NEW ti \in Threads, pc'[ti] = "tickle"
        PROVE  ~Inserting(arg[ti].timer)'
    <3>1. arg'[ti] = arg[ti] /\ arg[ti].timer \in Timers /\ (ti = th \/ pc[ti] = "tickle")
      BY ZenonT(60), <1>b, <1>1, <2>3 DEF GoesOnToTickle, Returns, TypeOK
    <3> QED
      BY Zenon, <1>6, <3>1 DEF Phases
  <2>4. \A x \in Timers : Armed(x)' => x \in made'
    BY Zenon, <1>a, <1>c, <1>6 DEF Phases
  <2>5. \A ti \in Threads : pc'[ti] = "reset" => arg'[ti].timer \in held'
    BY ZenonT(60), <1>1, <2>1 DEF GoesOnToTickle, Returns, Phases
  <2>6. \A ti, tj \in Threads :
          (pc'[ti] = "insert" /\ pc'[tj] = "insert" /\ arg'[ti].timer = arg'[tj].timer) => ti = tj
    BY ZenonT(60), <2>1 DEF Phases
  <2> QED
    BY Zenon, <2>2, <2>3, <2>4, <2>5, <2>6 DEF Phases
<1>9. Started'
  BY Zenon, <1>a DEF Started
<1>10. TickledMeansAwake' /\ NoOversleep'
  BY Zenon, <1>a, <1>b, <1>c, InsertCovered
<1> QED
  BY Zenon, <1>4, <1>5, <1>7, <1>8, <1>9, <1>10

(* The tickle after an insertion: either a byte goes into the pipe, or no  *)
(* worker is in idle() and so none sleeps.                                 *)
LEMMA tickleIInv ==
  ASSUME IInv, NEW th \in Threads, tickle(th)
  PROVE  IInv'
<1> USE DEF IInv, tickle, Goto, clockVars, timerVars, pipeVars
<1>1. TypeOK'
  <2>1. arg' \in [Threads -> [timer : Int, ms : Nat, from_now : BOOLEAN]]
    BY SMTT(60) DEF TypeOK, NoArg
  <2>2. \A ti \in Threads : pc'[ti] \in {"insert", "tickle", "reset"} => arg'[ti].timer \in made'
    BY Zenon DEF TypeOK
  <2>3. pc' \in [Threads -> PC] /\ \A o \in Outside : pc'[o] \notin InIdle
    BY Zenon DEF TypeOK, PC, InIdle, Threads
  <2>4. held' \subseteq made'
    BY Zenon DEF TypeOK
  <2>5. pipe' \in BOOLEAN /\ edge' \in BOOLEAN
    BY Zenon DEF TypeOK
  <2> QED
    BY Zenon, <2>1, <2>2, <2>3, <2>4, <2>5 DEF TypeOK
<1>2. KeysMatch' /\ Started'
  BY Zenon DEF KeysMatch, Started
<1>3. CbIffArmed'
  BY ZenonT(60) DEF TypeOK, CbIffArmed, Armed, Inserting
<1>4. Phases'
  BY ZenonT(60) DEF TypeOK, Phases, Armed, Inserting
<1>5. TickledMeansAwake' /\ NoOversleep'
  <2>1. CASE hasIdleThreads
    BY Zenon, <2>1 DEF TickledMeansAwake, NoOversleep
  <2>2. CASE ~hasIdleThreads
    <3>1. PICK w \in Workers : pc[w] # "epoll_wait"
      BY Zenon, <2>2, ThreadsAssumption DEF hasIdleThreads, InIdle
    <3>2. pc'[w] # "epoll_wait"
      BY Zenon, <3>1 DEF TypeOK, Threads
    <3> QED
      BY Zenon, <3>2 DEF TickledMeansAwake, NoOversleep
  <2> QED
    BY Zenon, <2>1, <2>2
<1> QED
  BY Zenon, <1>1, <1>2, <1>3, <1>4, <1>5

(* cancel removes the only entry of a timer that is not being inserted.    *)
LEMMA cancelIInv ==
  ASSUME IInv, NEW th \in Threads, NEW t \in Timers, cancel(th, t)
  PROVE  IInv'
<1> USE DEF IInv, cancel, clockVars, timerVars, pipeVars
<1>1. TypeOK'
  BY Zenon DEF TypeOK
<1>2. KeysMatch' /\ Started'
  BY Zenon DEF KeysMatch, Started
<1>3. CbIffArmed'
  <2>1. ~Inserting(t)
    BY Zenon DEF Phases, Inserting
  <2>2. \A u \in m_timers : u[2] = t => u = <<m_next[t], t>>
    BY SMTT(60) DEF TypeOK, KeysMatch
  <2>3. ~Armed(t)' /\ \A x \in Timers \ {t} : Armed(x)' <=> Armed(x)
    BY SMTT(60), <2>2 DEF TypeOK, Armed
  <2> QED
    BY ZenonT(60), <2>1, <2>3 DEF TypeOK, CbIffArmed, Inserting
<1>4. Phases'
  BY ZenonT(60) DEF Phases, Armed, Inserting
<1>5. TickledMeansAwake' /\ NoOversleep'
  BY ZenonT(60) DEF TickledMeansAwake, NoOversleep, Keys
<1> QED
  BY Zenon, <1>1, <1>2, <1>3, <1>4, <1>5

(* refresh moves a timer to a later key, so nobody need wake earlier.      *)
LEMMA refreshIInv ==
  ASSUME IInv, NEW th \in Threads, NEW t \in Timers, refresh(th, t)
  PROVE  IInv'
<1> DEFINE old == <<m_next[t], t>>
           new == <<m_next'[t], t>>
<1> USE DEF IInv, refresh, clockVars, timerVars, pipeVars
<1>1. TypeOK'
  BY SMTT(60) DEF TypeOK, GetCurrentMs
<1>2. KeysMatch' /\ Started'
  BY SMTT(60) DEF TypeOK, KeysMatch, Started, GetCurrentMs
<1>3. \A x \in Timers : (Armed(x)' <=> Armed(x)) /\ (Inserting(x)' <=> Inserting(x))
  <2>1. m_timers' = (m_timers \ {old}) \cup {new} /\ old \in m_timers
    BY Zenon
  <2>2. old[2] = t /\ new[2] = t
    OBVIOUS
  <2> HIDE DEF old, new
  <2> QED
    BY Zenon, <2>1, <2>2 DEF Armed, Inserting
<1>4. CbIffArmed'
  BY Zenon, <1>3 DEF CbIffArmed
<1>5. Phases'
  BY ZenonT(60), <1>3 DEF TypeOK, Phases
<1>6. TickledMeansAwake'
  BY Zenon DEF TickledMeansAwake
<1>7. NoOversleep'
  <2>1. CASE behind # 0
    BY ZenonT(60), <2>1 DEF NoOversleep
  <2>2. CASE behind = 0
    <3>1. m_next[t] \in Keys
      BY SMTT(60) DEF Keys
    <3>2. m_next[t] \in Nat /\ m_next'[t] \in Nat /\ m_next[t] <= m_next'[t]
      BY SMTT(60), <2>2 DEF TypeOK, Started, GetCurrentMs
    <3>3. \A n \in Keys' : n \in Keys \/ n = m_next'[t]
      BY SMTT(60) DEF Keys
    <3>4. ASSUME NEW w \in Workers, \A n \in Keys : deadline[w] <= n \/ deadline[w] <= clock
          PROVE  \A n \in Keys' : deadline[w] <= n \/ deadline[w] <= clock
      BY SMTT(60), <3>1, <3>2, <3>3, <3>4 DEF TypeOK
    <3> QED
      BY Zenon, <2>2, <3>4 DEF NoOversleep
  <2> QED
    BY Zenon, <2>1, <2>2
<1> QED
  BY Zenon, <1>1, <1>2, <1>4, <1>5, <1>6, <1>7

(* The unlocked test at the head of reset.                                 *)
LEMMA BeginResetIInv ==
  ASSUME IInv, NEW th \in Threads, NEW t \in Timers, NEW ms \in Ms, NEW b \in BOOLEAN,
         BeginReset(th, t, ms, b)
  PROVE  IInv'
<1> USE DEF IInv, BeginReset, Goto, clockVars, timerVars, pipeVars
<1>1. TypeOK'
  BY SMTT(60), TimersAssumption, MsAssumption DEF TypeOK, PC, InIdle, Threads
<1>2. KeysMatch' /\ Started'
  BY ZenonT(60) DEF KeysMatch, Started
<1>3. CbIffArmed' /\ Phases'
  BY SMTT(60) DEF TypeOK, CbIffArmed, Phases, Armed, Inserting
<1>4. TickledMeansAwake' /\ NoOversleep'
  BY Zenon DEF TypeOK, TickledMeansAwake, NoOversleep, Keys, Threads
<1> QED
  BY ZenonT(60), <1>1, <1>2, <1>3, <1>4

(* reset finds the timer gone, or takes it out and inserts it again.       *)
LEMMA resetIInv ==
  ASSUME IInv, NEW th \in Threads, reset(th)
  PROVE  IInv'
<1> DEFINE t == arg[th].timer
           start == IF arg[th].from_now THEN GetCurrentMs ELSE m_next[t] - m_ms[t]
           old == <<m_next[t], t>>
           new == <<arg[th].ms + start, t>>
           S == m_timers \ {old}
<1>a. /\ UNCHANGED <<clockVars, m_recurring, m_cb, made, m_previousTime, deadline, now_ms, cbs,
                     m_fibers, pipeVars, crashed>>
      /\ pc[th] = "reset"
  BY Zenon DEF reset
<1>b. t \in Timers /\ t \in made /\ t \in held
  BY ZenonT(60), <1>a DEF IInv, TypeOK, Phases
<1>c. arg[th].ms \in Nat /\ start \in Nat /\ start <= clock
  BY SMTT(60), <1>a, <1>b DEF IInv, TypeOK, Started, GetCurrentMs
<1>1. CASE ~(m_cb[t] /\ old \in m_timers)
  <2> USE DEF IInv, clockVars, timerVars, pipeVars
  <2>1. /\ pc' = [pc EXCEPT ![th] = "run"] /\ arg' = [arg EXCEPT ![th] = NoArg]
        /\ UNCHANGED <<m_ms, m_next, m_timers, m_tickled, held>>
    BY ZenonT(60), <1>1 DEF reset, Goto
  <2>2. TypeOK'
    BY SMTT(60), <1>a, <2>1 DEF TypeOK, PC, InIdle, NoArg, Threads
  <2>3. KeysMatch' /\ Started'
    BY ZenonT(60), <1>a, <2>1 DEF KeysMatch, Started
  <2>4. CbIffArmed' /\ Phases'
    BY SMTT(60), <1>a, <2>1 DEF TypeOK, CbIffArmed, Phases, Armed, Inserting
  <2>5. TickledMeansAwake' /\ NoOversleep'
    BY Zenon, <1>a, <2>1 DEF TypeOK, TickledMeansAwake, NoOversleep, Keys, Threads
  <2> QED
    BY Zenon, <2>2, <2>3, <2>4, <2>5
<1>2. CASE m_cb[t] /\ old \in m_timers
  <2>1. /\ m_ms' = [m_ms EXCEPT ![t] = arg[th].ms]
        /\ m_next' = [m_next EXCEPT ![t] = arg[th].ms + start]
        /\ insertTimer(th, S, new)
    BY Zenon, <1>2 DEF reset
  <2>2. new \in Nat \X Timers /\ new[1] = arg[th].ms + start /\ new[2] = t
    BY SMTT(60), <1>b, <1>c
  <2>3. old[2] = t /\ S \in SUBSET m_timers
    OBVIOUS
  <2>4. \A u \in S : u[2] # t
    BY SMTT(60) DEF IInv, TypeOK, KeysMatch
  <2>5. Started'
    BY SMTT(60), <1>a, <1>b, <1>c, <2>1 DEF IInv, TypeOK, Started, clockVars
  <2> HIDE DEF start, new
  <2>6. m_timers' = S \cup {new}
    BY Zenon, <2>1 DEF insertTimer
  <2>7. KeysMatch'
    BY ZenonT(60), <1>b, <2>1, <2>2, <2>4, <2>6 DEF IInv, TypeOK, KeysMatch
  <2>8. \A x \in Timers : Armed(x)' <=> Armed(x)
    BY ZenonT(60), <1>2, <2>2, <2>3, <2>6 DEF Armed
  <2> HIDE DEF S, old
  <2>9. GoesOnToTickle(th) \/ Returns(th, t)
    BY Zenon, <2>1, <2>2, <2>3, InsertCases
  <2>10. \A x \in Timers : Inserting(x)' <=> Inserting(x)
    BY ZenonT(60), <1>a, <2>9 DEF GoesOnToTickle, Returns, IInv, TypeOK, Inserting
  <2>11. TickledMeansAwake' /\ NoOversleep'
    BY Zenon, <1>a, <2>1, <2>2, <2>3, InsertCovered
  <2>12. TypeOK'
    <3>1. UNCHANGED made /\ pc[th] \in {"insert", "reset"}
      BY ZenonT(60), <1>a
    <3>2. /\ held' \subseteq made' /\ m_tickled' \in BOOLEAN
          /\ pc' \in [Threads -> PC] /\ \A o \in Outside : pc'[o] \notin InIdle
          /\ arg' \in [Threads -> [timer : Int, ms : Nat, from_now : BOOLEAN]]
          /\ \A ti \in Threads : pc'[ti] \in {"insert", "tickle", "reset"} => arg'[ti].timer \in made'
      BY Zenon, <2>9, <3>1, InsertTyped
    <3>3. m_timers' \subseteq Nat \X Timers
      BY ZenonT(60), <2>2, <2>3, <2>6 DEF IInv, TypeOK
    <3>4. m_next' \in [Timers -> Nat] /\ m_ms' \in [Timers -> Nat]
      BY SMTT(60), <1>b, <1>c, <2>1 DEF IInv, TypeOK
    <3> QED
      BY Zenon, <1>a, <3>2, <3>3, <3>4 DEF IInv, TypeOK, clockVars, pipeVars
  <2>13. CbIffArmed'
    BY Zenon, <1>a, <2>8, <2>10 DEF IInv, CbIffArmed
  <2>14. Phases'
    <3>1. ASSUME NEW ti \in Threads, pc'[ti] \in {"insert", "reset"}
          PROVE  pc[ti] = pc'[ti] /\ arg'[ti] = arg[ti] /\ arg[ti].timer \in Timers
      BY ZenonT(60), <2>9, <3>1 DEF GoesOnToTickle, Returns, IInv, TypeOK
    <3>2. ASSUME NEW ti \in Threads, pc'[ti] = "insert"
          PROVE  arg'[ti].timer \notin held' /\ ~Armed(arg[ti].timer)'
      BY ZenonT(60), <1>b, <2>8, <2>9, <3>1, <3>2 DEF GoesOnToTickle, Returns, IInv, Phases
    <3>3. ASSUME NEW ti \in Threads, pc'[ti] = "tickle"
          PROVE  ~Inserting(arg[ti].timer)'
      <4>1. arg'[ti] = arg[ti] /\ arg[ti].timer \in Timers /\ (ti = th \/ pc[ti] = "tickle")
        BY ZenonT(60), <1>a, <1>b, <2>9, <3>3 DEF GoesOnToTickle, Returns, IInv, TypeOK
      <4>2. ~Inserting(t)
        BY Zenon, <1>b DEF IInv, Phases, Inserting
      <4> QED
        BY Zenon, <2>10, <4>1, <4>2 DEF IInv, Phases
    <3>4. \A x \in Timers : Armed(x)' => x \in made'
      BY Zenon, <1>a, <2>8 DEF IInv, Phases
    <3>5. \A ti \in Threads : pc'[ti] = "reset" => arg'[ti].timer \in held'
      BY Zenon, <2>9, <3>1 DEF GoesOnToTickle, Returns, IInv, Phases
    <3>6. \A ti, tj \in Threads :
            (pc'[ti] = "insert" /\ pc'[tj] = "insert" /\ arg'[ti].timer = arg'[tj].timer) => ti = tj
      BY ZenonT(60), <3>1 DEF IInv, Phases
    <3> QED
      BY Zenon, <3>2, <3>3, <3>4, <3>5, <3>6 DEF Phases
  <2> QED
    BY Zenon, <2>5, <2>7, <2>11, <2>12, <2>13, <2>14 DEF IInv
<1> QED
  BY Zenon, <1>1, <1>2

-----------------------------------------------------------------------------
(* The steps of run() and idle().                                          *)

(* A worker that moves between places where it holds no timer, and changes *)
(* no timer, keeps what is known of the timers and the calls in progress.  *)
LEMMA QuietStep ==
  ASSUME IInv, NEW w \in Workers, NEW to, to \notin {"insert", "tickle", "reset"},
         pc[w] \notin {"insert", "tickle", "reset"}, pc' = [pc EXCEPT ![w] = to],
         UNCHANGED <<timerVars, held, arg>>
  PROVE  KeysMatch' /\ CbIffArmed' /\ Phases'
<1> USE DEF IInv, timerVars
<1>1. KeysMatch'
  BY Zenon DEF KeysMatch
<1>2. \A x \in Timers : (Armed(x)' <=> Armed(x)) /\ (Inserting(x)' <=> Inserting(x))
  BY Zenon DEF TypeOK, Armed, Inserting
<1>3. CbIffArmed'
  BY Zenon, <1>2 DEF CbIffArmed
<1>4. Phases'
  BY ZenonT(60) DEF TypeOK, Phases, Armed, Inserting
<1> QED
  BY Zenon, <1>1, <1>3, <1>4

(* A worker that is awake after the step is all that the promises about    *)
(* sleep ask for.                                                          *)
LEMMA AwakeStep ==
  ASSUME NEW w \in Workers, pc'[w] # "epoll_wait"
  PROVE  TickledMeansAwake' /\ NoOversleep'
BY Zenon DEF TickledMeansAwake, NoOversleep

(* A step that leaves the timers and what the threads do alone.            *)
LEMMA StillStep ==
  ASSUME IInv, UNCHANGED <<timerVars, held, arg, pc>>
  PROVE  KeysMatch' /\ CbIffArmed' /\ Phases'
<1>1. /\ m_timers' = m_timers /\ m_next' = m_next /\ m_cb' = m_cb /\ made' = made
      /\ held' = held /\ arg' = arg /\ pc' = pc
  BY Zenon DEF timerVars
<1>2. KeysMatch'
  BY Zenon, <1>1 DEF IInv, KeysMatch
<1>3. CbIffArmed'
  BY ZenonT(60), <1>1 DEF IInv, CbIffArmed, Armed, Inserting
<1>4. Phases'
  BY Zenon, <1>1 DEF IInv, Phases, Armed, Inserting
<1> QED
  BY Zenon, <1>2, <1>3, <1>4

(* The head of run() lowers m_tickled, and the worker itself is awake.     *)
LEMMA runIInv ==
  ASSUME IInv, NEW w \in Workers, run(w)
  PROVE  IInv'
<1> DEFINE to == "scan"
<1>1. /\ pc' = [pc EXCEPT ![w] = to] /\ UNCHANGED <<timerVars, held, arg>>
      /\ to \notin {"insert", "tickle", "reset"} /\ pc[w] \notin {"insert", "tickle", "reset"}
  BY Zenon DEF run, Goto
<1>2. pc'[w] # "epoll_wait"
  BY Zenon, <1>1 DEF IInv, TypeOK, Threads
<1>3. TypeOK'
  BY ZenonT(60), ThreadsAssumption DEF IInv, run, Goto, TypeOK, PC, InIdle, Threads, clockVars, timerVars, pipeVars
<1>4. Started'
  BY Zenon DEF IInv, run, TypeOK, Started, clockVars, timerVars
<1> HIDE DEF to
<1>5. KeysMatch' /\ CbIffArmed' /\ Phases'
  BY Zenon, <1>1, QuietStep
<1> QED
  BY Zenon, <1>2, <1>3, <1>4, <1>5, AwakeStep DEF IInv

(* A worker that finds the queue empty.                                    *)
LEMMA EnterIdleIInv ==
  ASSUME IInv, NEW w \in Workers, EnterIdle(w)
  PROVE  IInv'
<1> DEFINE to == "idle"
<1>1. /\ pc' = [pc EXCEPT ![w] = to] /\ UNCHANGED <<timerVars, held, arg>>
      /\ to \notin {"insert", "tickle", "reset"} /\ pc[w] \notin {"insert", "tickle", "reset"}
  BY Zenon DEF EnterIdle, Goto
<1>2. pc'[w] # "epoll_wait"
  BY Zenon, <1>1 DEF IInv, TypeOK, Threads
<1>3. TypeOK'
  BY ZenonT(60), ThreadsAssumption DEF IInv, EnterIdle, Goto, TypeOK, PC, InIdle, Threads, clockVars, timerVars, pipeVars
<1>4. Started'
  BY Zenon DEF IInv, EnterIdle, TypeOK, Started, clockVars, timerVars
<1> HIDE DEF to
<1>5. KeysMatch' /\ CbIffArmed' /\ Phases'
  BY Zenon, <1>1, QuietStep
<1> QED
  BY Zenon, <1>2, <1>3, <1>4, <1>5, AwakeStep DEF IInv

(* The read-locked section of listExpiredCb.                               *)
LEMMA testEmptyIInv ==
  ASSUME IInv, NEW w \in Workers, testEmpty(w)
  PROVE  IInv'
<1> DEFINE to == IF m_timers = {} THEN "drain" ELSE "nonempty"
<1>1. /\ pc' = [pc EXCEPT ![w] = to] /\ UNCHANGED <<timerVars, held, arg>>
      /\ to \notin {"insert", "tickle", "reset"} /\ pc[w] \notin {"insert", "tickle", "reset"}
  BY Zenon DEF testEmpty, Goto
<1>2. pc'[w] # "epoll_wait"
  BY Zenon, <1>1 DEF IInv, TypeOK, Threads
<1>3. TypeOK'
  BY Zenon, ThreadsAssumption DEF IInv, testEmpty, Goto, TypeOK, PC, InIdle, Threads, clockVars, timerVars, pipeVars
<1>4. Started'
  BY Zenon DEF IInv, testEmpty, TypeOK, Started, clockVars, timerVars
<1> HIDE DEF to
<1>5. KeysMatch' /\ CbIffArmed' /\ Phases'
  BY Zenon, <1>1, QuietStep
<1> QED
  BY Zenon, <1>2, <1>3, <1>4, <1>5, AwakeStep DEF IInv

(* The callbacks go into the queue.                                        *)
LEMMA scheduleIInv ==
  ASSUME IInv, NEW w \in Workers, schedule(w)
  PROVE  IInv'
<1> DEFINE to == "drain"
<1>1. /\ pc' = [pc EXCEPT ![w] = to] /\ UNCHANGED <<timerVars, held, arg>>
      /\ to \notin {"insert", "tickle", "reset"} /\ pc[w] \notin {"insert", "tickle", "reset"}
  BY Zenon DEF schedule, Goto
<1>2. pc'[w] # "epoll_wait"
  BY Zenon, <1>1 DEF IInv, TypeOK, Threads
<1>3. TypeOK'
  BY Zenon, ThreadsAssumption DEF IInv, schedule, Goto, TypeOK, PC, InIdle, Threads, clockVars, timerVars, pipeVars
<1>4. Started'
  BY ZenonT(60) DEF IInv, schedule, TypeOK, Started, clockVars, timerVars
<1> HIDE DEF to
<1>5. KeysMatch' /\ CbIffArmed' /\ Phases'
  BY Zenon, <1>1, QuietStep
<1> QED
  BY Zenon, <1>2, <1>3, <1>4, <1>5, AwakeStep DEF IInv

(* The pipe may be emptied: the worker that does it is awake.              *)
LEMMA drainIInv ==
  ASSUME IInv, NEW w \in Workers, drain(w)
  PROVE  IInv'
<1> DEFINE to == "run"
<1>1. /\ pc' = [pc EXCEPT ![w] = to] /\ UNCHANGED <<timerVars, held, arg>>
      /\ to \notin {"insert", "tickle", "reset"} /\ pc[w] \notin {"insert", "tickle", "reset"}
  BY Zenon DEF drain, Goto
<1>2. pc'[w] # "epoll_wait"
  BY Zenon, <1>1 DEF IInv, TypeOK, Threads
<1>3. TypeOK'
  BY Zenon, ThreadsAssumption DEF IInv, drain, Goto, TypeOK, PC, InIdle, Threads, clockVars, timerVars, pipeVars
<1>4. Started'
  BY SMTT(60) DEF IInv, drain, TypeOK, Started, clockVars, timerVars
<1> HIDE DEF to
<1>5. KeysMatch' /\ CbIffArmed' /\ Phases'
  BY ZenonT(60), <1>1, QuietStep
<1> QED
  BY Zenon, <1>2, <1>3, <1>4, <1>5, AwakeStep DEF IInv

(* A worker takes a callback from the queue.                               *)
LEMMA RunCallbackIInv ==
  ASSUME IInv, NEW w \in Workers, NEW t \in Timers, RunCallback(w, t)
  PROVE  IInv'
<1> DEFINE to == "run"
<1>1. /\ pc' = [pc EXCEPT ![w] = to] /\ UNCHANGED <<timerVars, held, arg>>
      /\ to \notin {"insert", "tickle", "reset"} /\ pc[w] \notin {"insert", "tickle", "reset"}
  BY Zenon DEF RunCallback, Goto
<1>2. pc'[w] # "epoll_wait"
  BY Zenon, <1>1 DEF IInv, TypeOK, Threads
<1>3. TypeOK'
  BY Zenon, ThreadsAssumption DEF IInv, RunCallback, Goto, TypeOK, PC, InIdle, Threads, clockVars, timerVars, pipeVars
<1>4. Started'
  BY Zenon DEF IInv, RunCallback, TypeOK, Started, clockVars, timerVars
<1> HIDE DEF to
<1>5. KeysMatch' /\ CbIffArmed' /\ Phases'
  BY Zenon, <1>1, QuietStep
<1> QED
  BY Zenon, <1>2, <1>3, <1>4, <1>5, AwakeStep DEF IInv

(* The worker goes to sleep until the first timer at the latest.           *)
LEMMA getNextTimerIInv ==
  ASSUME IInv, NEW w \in Workers, getNextTimer(w)
  PROVE  IInv'
<1>1. /\ pc' = [pc EXCEPT ![w] = "epoll_wait"] /\ UNCHANGED <<timerVars, held, arg>>
      /\ pc[w] \notin {"insert", "tickle", "reset"}
  BY Zenon DEF getNextTimer, Goto
<1>2. KeysMatch' /\ CbIffArmed' /\ Phases'
  BY Zenon, <1>1, QuietStep
<1>3. /\ NextTimeout \in 0 .. MAX_TIMEOUT
      /\ \A n \in Keys : NextTimeout = 0 \/ NextTimeout <= n - GetCurrentMs
  BY Zenon, NextTimeoutFacts DEF IInv
<1>4. deadline' = [deadline EXCEPT ![w] = clock + NextTimeout]
  BY Zenon DEF getNextTimer
<1>5. TypeOK'
  <2>1. deadline' \in [Workers -> Nat] /\ \A x \in Workers : deadline'[x] <= clock + MAX_TIMEOUT
    BY SMTT(60), <1>3, <1>4, BoundsAssumption DEF IInv, TypeOK
  <2>2. pc' \in [Threads -> PC] /\ \A o \in Outside : pc'[o] \notin InIdle
    BY ZenonT(60), <1>1, ThreadsAssumption DEF IInv, TypeOK, PC, InIdle, Threads
  <2>3. \A ti \in Threads : pc'[ti] \in {"insert", "tickle", "reset"} => arg'[ti].timer \in made'
    BY Zenon, <1>1 DEF IInv, TypeOK, timerVars
  <2> QED
    BY ZenonT(60), <2>1, <2>2, <2>3 DEF IInv, getNextTimer, TypeOK, clockVars, timerVars, pipeVars
<1>6. Started'
  BY ZenonT(60) DEF IInv, getNextTimer, Started, clockVars, timerVars
<1>7. TickledMeansAwake'
  BY Zenon DEF getNextTimer, TickledMeansAwake
<1>8. NoOversleep'
  <2>1. CASE behind # 0
    BY Zenon, <2>1 DEF getNextTimer, NoOversleep, clockVars
  <2>2. CASE behind = 0
    <3>1. GetCurrentMs = clock /\ clock \in Nat
      BY SMTT(60), <2>2 DEF IInv, TypeOK, GetCurrentMs
    <3>2. Keys' = Keys /\ clock' = clock
      BY Zenon DEF getNextTimer, Keys, clockVars, timerVars
    <3>3. Keys \subseteq Nat
      BY SMTT(60) DEF IInv, TypeOK, Keys
    <3>4. deadline'[w] = clock + NextTimeout
      BY Zenon, <1>4 DEF IInv, TypeOK
    <3>5. \A n \in Keys' : deadline'[w] <= n \/ deadline'[w] <= clock'
      BY <1>3, <3>1, <3>2, <3>3, <3>4
    <3> QED
      BY ZenonT(60), <3>5 DEF NoOversleep
  <2> QED
    BY Zenon, <2>1, <2>2
<1> QED
  BY Zenon, <1>2, <1>5, <1>6, <1>7, <1>8 DEF IInv

(* epoll_wait returns, whatever the reason.                                *)
LEMMA WakeIInv ==
  ASSUME IInv, NEW w \in Workers, NEW byPipe \in BOOLEAN, Wake(w, byPipe)
  PROVE  IInv'
<1>1. /\ pc' = [pc EXCEPT ![w] = "listExpiredCb"] /\ UNCHANGED <<timerVars, held, arg>>
      /\ pc[w] \notin {"insert", "tickle", "reset"}
  BY Zenon DEF Wake, Goto
<1>2. pc'[w] # "epoll_wait"
  BY ZenonT(60), <1>1 DEF IInv, TypeOK, Threads
<1>3. TypeOK'
  BY SMTT(30), ThreadsAssumption, BoundsAssumption
     DEF IInv, Wake, Goto, TypeOK, PC, InIdle, Threads, GetCurrentMs, clockVars, timerVars, pipeVars
<1>4. Started'
  BY SMTT(60) DEF IInv, Wake, TypeOK, Started, GetCurrentMs, clockVars, timerVars
<1>5. KeysMatch' /\ CbIffArmed' /\ Phases'
  BY ZenonT(60), <1>1, QuietStep
<1> QED
  BY Zenon, <1>2, <1>3, <1>4, <1>5, AwakeStep DEF IInv

(* Time passes, and the wall clock is set back.                            *)
LEMMA TickIInv ==
  ASSUME IInv, Tick \/ SetBack
  PROVE  IInv'
<1> USE DEF IInv, Tick, SetBack, timerVars, pipeVars
<1>1. TypeOK' /\ Started'
  BY SMTT(60), BoundsAssumption DEF TypeOK, Started
<1>2. KeysMatch' /\ CbIffArmed' /\ Phases'
  BY Zenon, StillStep
<1>3. TickledMeansAwake'
  BY ZenonT(60) DEF TickledMeansAwake
<1>4. NoOversleep'
  BY SMTT(60) DEF TypeOK, NoOversleep, Keys
<1> QED
  BY ZenonT(60), <1>1, <1>2, <1>3, <1>4

(* The write-locked section of listExpiredCb: the expired timers leave the *)
(* set, and the recurring ones come back under a new key.                  *)
LEMMA listExpiredCbIInv ==
  ASSUME IInv, NEW w \in Workers, listExpiredCb(w)
  PROVE  IInv'
<1> DEFINE expired == {u[2] : u \in Expired(w)}
           again == {t \in expired : m_recurring[t]}
<1>a. /\ UNCHANGED <<clockVars, held, m_tickled, arg, deadline, now_ms, m_fibers, pipeVars>>
      /\ pc[w] = "nonempty" /\ m_previousTime' = now_ms[w]
  BY ZenonT(60) DEF listExpiredCb
<1>b. now_ms[w] \in Nat /\ now_ms[w] <= clock
  BY Zenon DEF IInv, TypeOK, Started
<1>1. CASE m_timers = {} /\ ~detectClockRollover(w)
  <2>1. crashed' = TRUE /\ UNCHANGED <<timerVars, cbs, pc>>
    BY Zenon, <1>1 DEF listExpiredCb
  <2>2. TypeOK'
    BY ZenonT(60), <1>a, <1>b, <2>1 DEF IInv, TypeOK, clockVars, timerVars, pipeVars
  <2>3. KeysMatch' /\ CbIffArmed' /\ Phases'
    BY Zenon, <1>a, <2>1, StillStep
  <2>4. Started'
    BY Zenon, <1>a, <2>1 DEF IInv, Started, clockVars, timerVars
  <2>5. pc'[w] # "epoll_wait"
    BY Zenon, <1>a, <2>1
  <2>6. TickledMeansAwake' /\ NoOversleep'
    BY Zenon, <2>5, AwakeStep
  <2> QED
    BY Zenon, <2>2, <2>3, <2>4, <2>6 DEF IInv
<1>2. CASE ~(m_timers = {} /\ ~detectClockRollover(w))
  <2> DEFINE to == IF expired = {} THEN "drain" ELSE "schedule"
  <2>1. /\ m_next' = [t \in Timers |-> IF t \in again THEN now_ms[w] + m_ms[t] ELSE m_next[t]]
        /\ m_timers' = (m_timers \ Expired(w)) \cup {<<m_next'[t], t>> : t \in again}
        /\ m_cb' = [t \in Timers |-> m_cb[t] /\ t \notin expired \ again]
        /\ cbs' = [cbs EXCEPT ![w] = expired]
        /\ pc' = [pc EXCEPT ![w] = to]
        /\ UNCHANGED <<m_ms, m_recurring, made, crashed>>
    BY Zenon, <1>2 DEF listExpiredCb, Goto
  <2>2. Expired(w) \subseteq m_timers
    BY Zenon DEF Expired
  <2>3. expired \subseteq Timers /\ again \subseteq expired
    <3>1. \A u \in m_timers : u[2] \in Timers
      BY Zenon DEF IInv, TypeOK
    <3> QED
      BY Zenon, <2>2, <3>1
  <2>4. \A x \in expired : Armed(x)
    BY Zenon, <2>2 DEF Armed
  <2>5. \A u \in m_timers \ Expired(w) : u[2] \notin expired
    <3>1. \A u, v \in m_timers : u[2] = v[2] => u = v
      BY SMTT(60) DEF IInv, TypeOK, KeysMatch
    <3> QED
      BY ZenonT(60), <2>2, <3>1
  <2>6. to \in {"drain", "schedule"}
    BY Zenon
  <2> HIDE DEF expired, to
  <2>7. again \subseteq Timers /\ again = {t \in expired : m_recurring[t]}
    BY ZenonT(60), <2>3
  <2> HIDE DEF again
  <2>8. m_next' \in [Timers -> Nat]
    BY SMTT(90), <1>b, <2>1 DEF IInv, TypeOK
  <2>9. \A t \in again : m_next'[t] \in Nat
    BY Zenon, <2>7, <2>8
  <2>10. \A u \in m_timers' : u \in m_timers \ Expired(w) \/ \E t \in again : u = <<m_next'[t], t>>
    BY ZenonT(60), <2>1
  <2>11. m_timers' \subseteq Nat \X Timers
    BY SMTT(60), <2>7, <2>9, <2>10 DEF IInv, TypeOK
  <2>12. KeysMatch'
    <3>1. ASSUME NEW u \in m_timers' PROVE u[1] = m_next'[u[2]]
      <4>1. CASE u \in m_timers \ Expired(w)
        BY ZenonT(60), <2>1, <2>3, <2>5, <4>1 DEF IInv, TypeOK, KeysMatch
      <4>2. CASE \E t \in again : u = <<m_next'[t], t>>
        BY <4>2
      <4> QED
        BY Zenon, <2>10, <4>1, <4>2
    <3> QED
      BY Zenon, <3>1 DEF KeysMatch
  <2>13. \A x \in Timers : Armed(x)' <=> (Armed(x) /\ x \notin expired) \/ x \in again
    <3>1. ASSUME NEW x \in again PROVE Armed(x)'
      <4>1. <<m_next'[x], x>> \in {<<m_next'[t], t>> : t \in again}
        BY Zenon
      <4>2. {<<m_next'[t], t>> : t \in again} \subseteq m_timers'
        BY ZenonT(60), <2>1
      <4> QED
        BY Zenon, <4>1, <4>2 DEF Armed
    <3>2. ASSUME NEW x \in Timers, Armed(x), x \notin expired PROVE Armed(x)'
      <4>1. PICK u \in m_timers : u[2] = x
        BY Zenon, <3>2 DEF Armed
      <4>2. u \notin Expired(w)
        BY ZenonT(60), <3>2, <4>1 DEF expired
      <4> QED
        BY Zenon, <2>1, <4>1, <4>2 DEF Armed
    <3>3. ASSUME NEW x \in Timers, Armed(x)'
          PROVE  (Armed(x) /\ x \notin expired) \/ x \in again
      <4>1. PICK u \in m_timers' : u[2] = x
        BY Zenon, <3>3 DEF Armed
      <4> QED
        BY SMTT(60), <2>5, <2>10, <4>1 DEF Armed
    <3> QED
      BY Zenon, <3>1, <3>2, <3>3
  <2>14. \A x \in Timers : Inserting(x)' <=> Inserting(x)
    BY Zenon, <1>a, <2>1, <2>6 DEF IInv, TypeOK, Inserting, Threads
  <2>15. \A x \in expired : ~Inserting(x)
    BY Zenon, <2>4 DEF IInv, Phases, Inserting
  <2>16. CbIffArmed'
    BY ZenonT(60), <2>1, <2>3, <2>4, <2>13, <2>14, <2>15 DEF IInv, TypeOK, CbIffArmed
  <2>17. Phases'
    <3>1. \A ti \in Threads : pc'[ti] \in {"insert", "tickle", "reset"} =>
                                pc'[ti] = pc[ti] /\ arg[ti].timer \in Timers
      BY Zenon, <1>a, <2>1, <2>6 DEF IInv, TypeOK
    <3>2. \A x \in Timers : Armed(x)' => Armed(x)
      BY Zenon, <2>3, <2>4, <2>13
    <3> QED
      BY ZenonT(60), <1>a, <2>1, <2>14, <3>1, <3>2 DEF IInv, Phases
  <2>18. Started'
    <3>1. ASSUME NEW x \in Timers
          PROVE  m_ms'[x] <= m_next'[x] /\ m_next'[x] - m_ms'[x] <= clock'
      <4>1. m_ms'[x] = m_ms[x] /\ clock' = clock
        BY Zenon, <1>a, <2>1 DEF clockVars
      <4>2. m_next'[x] = now_ms[w] + m_ms[x] \/ m_next'[x] = m_next[x]
        BY ZenonT(60), <2>1
      <4>3. m_ms[x] \in Nat /\ m_next[x] \in Nat /\ clock \in Nat
        BY Zenon DEF IInv, TypeOK
      <4>4. m_ms[x] <= m_next[x] /\ m_next[x] - m_ms[x] <= clock
        BY Zenon DEF IInv, Started
      <4> QED
        BY SMTT(60), <1>b, <4>1, <4>2, <4>3, <4>4
    <3>2. \A x \in Workers : now_ms'[x] <= clock'
      BY Zenon, <1>a DEF IInv, Started, clockVars
    <3> QED
      BY Zenon, <3>1, <3>2 DEF Started
  <2>19. TypeOK'
    <3>1. pc' \in [Threads -> PC] /\ \A o \in Outside : pc'[o] \notin InIdle
      BY ZenonT(60), <2>1, <2>6, ThreadsAssumption DEF IInv, TypeOK, PC, InIdle, Threads
    <3>2. \A ti \in Threads : pc'[ti] \in {"insert", "tickle", "reset"} => arg'[ti].timer \in made'
      BY Zenon, <1>a, <2>1, <2>6 DEF IInv, TypeOK
    <3>3. m_cb' \in [Timers -> BOOLEAN] /\ cbs' \in [Workers -> SUBSET Timers]
      BY Zenon, <2>1, <2>3 DEF IInv, TypeOK
    <3> QED
      BY ZenonT(60), <1>a, <1>b, <2>1, <2>8, <2>11, <3>1, <3>2, <3>3 DEF IInv, TypeOK, clockVars, pipeVars
  <2>20. pc'[w] # "epoll_wait"
    BY ZenonT(60), <2>1, <2>6 DEF IInv, TypeOK, Threads
  <2> QED
    BY ZenonT(60), <2>12, <2>16, <2>17, <2>18, <2>19, <2>20, AwakeStep DEF IInv
<1> QED
  BY Zenon, <1>1, <1>2

-----------------------------------------------------------------------------
(* The theorems.                                                           *)

(* The inductive invariant holds initially.                                *)
LEMMA InitIInv == Init => IInv
<1> SUFFICES ASSUME Init PROVE IInv
  OBVIOUS
<1> USE DEF Init
<1>1. TypeOK
  <2>1. pc \in [Threads -> PC] /\ \A o \in Outside : pc[o] \notin InIdle
    BY Zenon DEF PC, InIdle, Threads
  <2>2. arg \in [Threads -> [timer : Int, ms : Nat, from_now : BOOLEAN]]
    BY SMTT(60)
  <2>3. \A th \in Threads : pc[th] \notin {"insert", "tickle", "reset"}
    BY Zenon
  <2>4. /\ deadline \in [Workers -> Nat] /\ now_ms \in [Workers -> Nat]
        /\ \A w \in Workers : deadline[w] <= clock + MAX_TIMEOUT
    BY SMTT(60), BoundsAssumption
  <2>5. /\ m_timers \subseteq Nat \X Timers
        /\ m_next \in [Timers -> Nat] /\ m_ms \in [Timers -> Nat]
        /\ m_recurring \in [Timers -> BOOLEAN] /\ m_cb \in [Timers -> BOOLEAN]
    BY Zenon
  <2>6. cbs \in [Workers -> SUBSET Timers] /\ tickled \in [Workers -> BOOLEAN]
    BY Zenon
  <2>7. clock \in Nat /\ behind \in 0 .. clock /\ m_previousTime \in Nat
    BY SMTT(60)
  <2>8. made \subseteq Timers /\ held \subseteq made /\ m_fibers \subseteq Timers
    BY Zenon
  <2>9. m_tickled \in BOOLEAN /\ pipe \in BOOLEAN /\ edge \in BOOLEAN /\ crashed \in BOOLEAN
    BY ZenonT(60)
  <2> HIDE DEF Init
  <2> QED
    BY ZenonT(60), <2>1, <2>2, <2>3, <2>4, <2>5, <2>6, <2>7, <2>8, <2>9 DEF TypeOK
<1>2. KeysMatch /\ CbIffArmed /\ Phases
  BY Zenon DEF KeysMatch, CbIffArmed, Phases, Armed, Inserting
<1>3. Started /\ TickledMeansAwake /\ NoOversleep
  BY SMTT(60) DEF Started, TickledMeansAwake, NoOversleep
<1> QED
  BY Zenon, <1>1, <1>2, <1>3 DEF IInv

(* Every step preserves the inductive invariant.                           *)
LEMMA NextIInv ==
  ASSUME IInv, [Next]_vars
  PROVE  IInv'
<1>1. ASSUME NEW th \in Threads, Call(th) PROVE IInv'
  BY Zenon, <1>1, newTimerIInv, BeginResetIInv, cancelIInv, refreshIInv DEF Call
<1>2. ASSUME NEW th \in Threads, FinishCall(th) PROVE IInv'
  BY Zenon, <1>2, addTimerIInv, tickleIInv, resetIInv DEF FinishCall
<1>3. ASSUME NEW w \in Workers, idle(w) PROVE IInv'
  BY ZenonT(60), <1>3, runIInv, EnterIdleIInv, getNextTimerIInv, WakeIInv, testEmptyIInv, listExpiredCbIInv,
     scheduleIInv, drainIInv DEF idle, WakeOnTimeout, WakeOnTickle
<1>4. ASSUME NEW w \in Workers, Run(w) \/ WakeOnEvent(w) PROVE IInv'
  BY ZenonT(60), <1>4, RunCallbackIInv, WakeIInv DEF Run, WakeOnEvent
<1>5. CASE UNCHANGED vars
  <2> USE <1>5 DEF vars, timerVars, clockVars, pipeVars, IInv
  <2>1. TypeOK'
    BY Zenon DEF TypeOK
  <2>2. KeysMatch' /\ CbIffArmed' /\ Phases' /\ Started'
    BY ZenonT(60) DEF KeysMatch, CbIffArmed, Phases, Started, Armed, Inserting
  <2>3. TickledMeansAwake' /\ NoOversleep'
    BY Zenon DEF TickledMeansAwake, NoOversleep, Keys
  <2> QED
    BY ZenonT(60), <2>1, <2>2, <2>3
<1> QED
  BY Zenon, <1>1, <1>2, <1>3, <1>4, <1>5, TickIInv DEF Next

(* The inductive invariant holds always.                                   *)
THEOREM Invariance == Spec => []IInv
<1> QED
  BY InitIInv, NextIInv, PTL DEF Spec

(* The variables keep their types, no worker sleeps longer than            *)
(* MAX_TIMEOUT, the set of timers is always ordered by the present expiry  *)
(* times of its members, and a timer has its callback exactly while it is  *)
(* in the set or about to be, so that cancel may erase what it finds.      *)
THEOREM TimersStayConsistent == Spec => []TimersConsistent
<1>1. IInv => TimersConsistent
  BY Zenon DEF IInv, TimersConsistent
<1> QED
  BY <1>1, Invariance, PTL

(* The tickle of an insertion at the front is left out only while some     *)
(* worker is awake or about to be woken, and no sequence of timer          *)
(* operations leaves all workers asleep past the time of a timer, as long  *)
(* as the wall clock is not set back, for any number of workers and of     *)
(* outside threads.                                                        *)
THEOREM NobodyOversleeps == Spec => []SleepSound
<1>1. IInv => SleepSound
  BY Zenon DEF IInv, SleepSound
<1> QED
  BY <1>1, Invariance, PTL

(* A callback that a step takes out was due by the clock, or the clock was *)
(* found set back by more than ROLLOVER.                                   *)
LEMMA StepFiresWhenDue ==
  ASSUME IInv, [Next]_vars
  PROVE  FiresWhenDue
<1> SUFFICES ASSUME NEW w \in Workers, NEW t \in cbs'[w] \ cbs[w]
             PROVE  m_next[t] <= clock \/ now_ms[w] < m_previousTime - ROLLOVER
  BY Zenon DEF FiresWhenDue
<1>1. PICK x \in Workers : listExpiredCb(x) /\ cbs' # cbs
  <2>1. cbs' # cbs
    BY Zenon
  <2>2. ASSUME NEW x \in Workers, schedule(x) PROVE FALSE
    BY Zenon, <2>2 DEF schedule, IInv, TypeOK
  <2>3. ASSUME NEW th \in Threads, Call(th) \/ FinishCall(th) PROVE UNCHANGED cbs
    BY ZenonT(60), <2>3 DEF Call, FinishCall, newTimer, BeginReset, cancel, refresh, addTimer, tickle, reset
  <2>4. ASSUME NEW x \in Workers, idle(x) \/ Run(x) \/ WakeOnEvent(x)
        PROVE  UNCHANGED cbs \/ listExpiredCb(x) \/ schedule(x)
    BY Zenon, <2>4 DEF idle, Run, run, EnterIdle, getNextTimer, WakeOnTimeout, WakeOnTickle, WakeOnEvent,
                Wake, testEmpty, drain, RunCallback
  <2> QED
    BY ZenonT(60), <2>1, <2>2, <2>3, <2>4 DEF Next, vars, Tick, SetBack
<1>2. cbs' = [cbs EXCEPT ![x] = {u[2] : u \in Expired(x)}]
  BY Zenon, <1>1 DEF listExpiredCb
<1>3. PICK u \in Expired(w) : u[2] = t
  BY Zenon, <1>2 DEF IInv, TypeOK
<1>4. u \in m_timers /\ (detectClockRollover(w) \/ u[1] <= now_ms[w])
  BY Zenon, <1>3 DEF Expired
<1>5. u[1] = m_next[t] /\ now_ms[w] <= clock /\ u[1] \in Nat /\ now_ms[w] \in Nat /\ clock \in Nat
  BY Zenon, <1>3, <1>4 DEF IInv, TypeOK, KeysMatch, Started
<1> QED
  BY SMTT(60), <1>4, <1>5 DEF detectClockRollover

(* No timer fires early, for any number of workers.                        *)
THEOREM NeverEarly == Spec => NotEarly
<1>1. IInv /\ [Next]_vars => [FiresWhenDue]_vars
  BY Zenon, StepFiresWhenDue
<1> QED
  BY <1>1, Invariance, PTL DEF Spec, NotEarly

(* A step gives no callback back to a timer that the program holds and     *)
(* that has lost it, and takes none from it.                               *)
LEMMA StepStaysDead ==
  ASSUME IInv, [Next]_vars
  PROVE  StaysDead
<1> SUFFICES ASSUME NEW t \in held, ~m_cb[t]
             PROVE  ~m_cb'[t] /\ \A w \in Workers : t \in cbs'[w] => t \in cbs[w]
  BY ZenonT(60) DEF StaysDead
<1>1. t \in Timers /\ t \in made /\ ~Armed(t)
  BY Zenon DEF IInv, TypeOK, CbIffArmed
<1>2. ASSUME NEW x \in Workers, listExpiredCb(x)
      PROVE  ~m_cb'[t] /\ \A w \in Workers : t \in cbs'[w] => t \in cbs[w]
  <2>1. t \notin {u[2] : u \in Expired(x)}
    BY Zenon, <1>1 DEF Expired, Armed
  <2>2. UNCHANGED <<m_cb, cbs>> \/ ( /\ cbs' = [cbs EXCEPT ![x] = {u[2] : u \in Expired(x)}]
                                     /\ m_cb'[t] => m_cb[t])
    BY ZenonT(60), <1>1, <1>2 DEF listExpiredCb, timerVars
  <2> QED
    BY Zenon, <2>1, <2>2 DEF IInv, TypeOK
<1>3. ASSUME NEW x \in Workers, schedule(x)
      PROVE  ~m_cb'[t] /\ \A w \in Workers : t \in cbs'[w] => t \in cbs[w]
  BY ZenonT(60), <1>3 DEF schedule, timerVars, IInv, TypeOK
<1>4. ASSUME NEW th \in Threads, Call(th)
      PROVE  ~m_cb'[t] /\ UNCHANGED cbs
  BY SMTT(60), <1>1, <1>4 DEF Call, newTimer, BeginReset, cancel, refresh, timerVars, IInv, TypeOK
<1>5. CASE UNCHANGED <<m_cb, cbs>>
  BY Zenon, <1>5
<1> QED
  BY ZenonT(60), <1>2, <1>3, <1>4, <1>5 DEF Next, vars, timerVars, FinishCall, idle, Run, addTimer, tickle, reset,
      run, EnterIdle, getNextTimer, WakeOnTimeout, WakeOnTickle, WakeOnEvent, Wake, testEmpty, drain,
      RunCallback, Tick, SetBack

(* A cancelled timer, or a one-shot timer that has fired, never fires      *)
(* again, whatever the program and the other workers do.                   *)
THEOREM CancelledForGood == Spec => DeadStaysDead
<1>1. IInv /\ [Next]_vars => [StaysDead]_vars
  BY Zenon, StepStaysDead
<1> QED
  BY <1>1, Invariance, PTL DEF Spec, DeadStaysDead

(* What listExpiredCb relies on between its two locked sections: a worker  *)
(* that has found m_timers nonempty finds it so again.                     *)
StillNonempty == ~crashed /\ \A w \in Workers : pc[w] = "nonempty" => m_timers # {}

(* The calls that end with a timer in the set, or leave the set as it is,  *)
(* keep StillNonempty (timer.cc:53-97, 172-189).                           *)
LEMMA CallStaysNonempty ==
  ASSUME IInv, StillNonempty, NEW th \in Threads, Call(th) \/ FinishCall(th),
         \A t \in Timers : ~cancel(th, t)
  PROVE  StillNonempty'
<1>1. ASSUME NEW to, Goto(th, to), to # "nonempty", UNCHANGED <<m_timers, crashed>> PROVE StillNonempty'
  BY Zenon, <1>1 DEF Goto, StillNonempty, IInv, TypeOK, Threads
<1>2. ASSUME NEW t \in Timers, NEW ms \in Ms, NEW b \in BOOLEAN, newTimer(th, t, ms, b) \/ BeginReset(th, t, ms, b)
      PROVE  StillNonempty'
  BY Zenon, <1>1, <1>2 DEF newTimer, BeginReset, timerVars
<1>3. ASSUME NEW t \in Timers, refresh(th, t) PROVE StillNonempty'
  BY Zenon, <1>3 DEF refresh, StillNonempty
<1>4. CASE tickle(th)
  BY Zenon, <1>1, <1>4 DEF tickle, timerVars
<1>5. ASSUME NEW S, NEW u, insertTimer(th, S, u), UNCHANGED crashed PROVE StillNonempty'
  BY Zenon, <1>5 DEF insertTimer, Goto, StillNonempty, IInv, TypeOK, Threads
<1>6. CASE addTimer(th)
  BY Zenon, <1>5, <1>6 DEF addTimer
<1>7. CASE reset(th)
  BY Zenon, <1>1, <1>5, <1>7 DEF reset
<1> QED
  BY Zenon, <1>2, <1>3, <1>4, <1>6, <1>7 DEF Call, FinishCall

(* A step of the only worker keeps StillNonempty: between the sections     *)
(* nobody else takes timers out (timer.cc:140-160).                        *)
LEMMA WorkerStaysNonempty ==
  ASSUME IInv, StillNonempty, NEW w \in Workers, \A v \in Workers : v = w,
         idle(w) \/ Run(w) \/ WakeOnEvent(w)
  PROVE  StillNonempty'
<1>1. ~crashed'
  BY ZenonT(60) DEF StillNonempty, idle, Run, run, EnterIdle, getNextTimer, WakeOnTimeout, WakeOnTickle, WakeOnEvent, Wake,
     testEmpty, listExpiredCb, schedule, drain, RunCallback
<1>2. CASE testEmpty(w)
  BY ZenonT(60), <1>1, <1>2 DEF StillNonempty, testEmpty, Goto, timerVars, IInv, TypeOK, Threads
<1>3. CASE ~testEmpty(w)
  <2>1. pc'[w] # "nonempty"
    BY ZenonT(60), <1>1, <1>3 DEF idle, Run, run, EnterIdle, getNextTimer, WakeOnTimeout, WakeOnTickle, WakeOnEvent, Wake,
       listExpiredCb, schedule, drain, RunCallback, Goto, IInv, TypeOK, Threads, StillNonempty
  <2> QED
    BY Zenon, <1>1, <2>1 DEF StillNonempty
<1> QED
  BY Zenon, <1>2, <1>3

(* With one worker, and no cancel from another thread, listExpiredCb never *)
(* reads the first element of an empty set, although it does not test      *)
(* again in its second locked section: the other operations of other       *)
(* threads leave no set empty.  Another worker may empty it in between     *)
(* (run timer_crash), and so may a cancel from outside.                    *)
THEOREM OneWorkerFindsATimer ==
  ASSUME \A v, w \in Workers : v = w,
         Outside = {} \/ "cancel" \notin Ops
  PROVE  Spec => []NoEmptyDereference
<1>1. Init => StillNonempty
  BY Zenon DEF Init, StillNonempty, Threads
<1>2. IInv /\ StillNonempty /\ [Next]_vars => StillNonempty'
  <2> SUFFICES ASSUME IInv, StillNonempty, [Next]_vars PROVE StillNonempty'
    OBVIOUS
  <2>1. ASSUME NEW th \in Threads, Call(th) \/ FinishCall(th) PROVE StillNonempty'
    <3>1. ASSUME NEW t \in Timers, cancel(th, t) PROVE StillNonempty'
      <4>1. th \in Workers /\ pc[th] = "run" /\ pc' = pc /\ crashed' = crashed
        BY Zenon, <3>1 DEF cancel, Threads
      <4> QED
        BY Zenon, <4>1 DEF StillNonempty
    <3> QED
      BY Zenon, <2>1, <3>1, CallStaysNonempty
  <2>2. ASSUME NEW w \in Workers, idle(w) \/ Run(w) \/ WakeOnEvent(w) PROVE StillNonempty'
    BY Zenon, <2>2, WorkerStaysNonempty
  <2>3. CASE Tick \/ SetBack \/ UNCHANGED vars
    <3>1. UNCHANGED <<crashed, pc, m_timers>>
      BY Zenon, <2>3 DEF Tick, SetBack, vars, timerVars
    <3> QED
      BY Zenon, <3>1 DEF StillNonempty
  <2> QED
    BY Zenon, <2>1, <2>2, <2>3 DEF Next
<1>3. StillNonempty => NoEmptyDereference
  BY Zenon DEF StillNonempty, NoEmptyDereference
<1> QED
  BY <1>1, <1>2, <1>3, Invariance, PTL DEF Spec

-----------------------------------------------------------------------------
(* The wire: the units of the requests, one after the other.                *)

(* Induction over the natural numbers, for a set of them.                   *)
LEMMA Induction ==
  ASSUME NEW T, 0 \in T, \A n \in Nat : n \in T => n + 1 \in T
  PROVE  \A n \in Nat : n \in T
<1> DEFINE Smaller == {p \in Nat \X Nat : p[1] < p[2]}
           Out == Nat \ T
<1> SUFFICES ASSUME Out # {} PROVE FALSE
  BY Zenon
<1>1. IsWellFoundedOn(Smaller, Nat)
  BY Zenon, NatLessThanWellFounded DEF OpToRel
<1>2. Out \subseteq Nat
  BY Zenon
<1>3. PICK n \in Out : \A k \in Out : ~(<<k, n>> \in Smaller)
  <2> HIDE DEF Smaller, Out
  <2> QED
    BY Zenon, <1>1, <1>2, WFMin
<1>4. n \in Nat /\ n # 0
  BY Zenon, <1>3
<1>5. n - 1 \in Nat /\ (n - 1) + 1 = n /\ n - 1 < n
  BY <1>4
<1>6. n - 1 \in Out
  BY Zenon, <1>4, <1>5
<1>7. <<n - 1, n>> \in Smaller
  BY <1>4, <1>5
<1> QED
  BY Zenon, <1>3, <1>6, <1>7

(* Two sequences, one after the other.                                      *)
IsJoin(u, s, t, S) ==
  /\ u \in Seq(S) /\ Len(u) = Len(s) + Len(t)
  /\ \A i \in 1..Len(s) : u[i] = s[i]
  /\ \A i \in 1..Len(t) : u[Len(s) + i] = t[i]

(* What two sequences are, joined.                                          *)
LEMMA Concatenated ==
  ASSUME NEW S, NEW s \in Seq(S), NEW t \in Seq(S)
  PROVE  IsJoin(s \o t, s, t, S)
  BY DEF IsJoin

(* The units of a request: its header, whose first unit is line1 and whose  *)
(* last is end, and its body.                                               *)
Inner == {"line2", "len1", "len2", "ka1", "ka2"}
UnitKinds == Inner \cup {"line1", "end", "body"}
Unit == [req : Nat, u : UnitKinds]
Request_ == [len : Nat, ka : BOOLEAN]
HeadUnits(r) ==
  <<"line1", "line2">> \o (IF r.len > 0 THEN <<"len1", "len2">> ELSE <<>>)
    \o (IF r.ka THEN <<"ka1", "ka2">> ELSE <<>>) \o <<"end">>
LineFirst(s) == s \in Seq(UnitKinds) /\ Len(s) > 1 /\ s[1] = "line1" /\ \A i \in 2..Len(s) : s[i] \in Inner
Shaped(s, h) ==
  /\ s \in Seq(UnitKinds) /\ h \in Nat /\ h > 2 /\ h <= Len(s) /\ s[1] = "line1" /\ s[h] = "end"
  /\ \A i \in 2..(h - 1) : s[i] \in Inner

(* What follows the request line leaves it first.                           *)
LEMMA LineFirstMore ==
  ASSUME NEW s, LineFirst(s), NEW t \in Seq(Inner)
  PROVE  LineFirst(s \o t)
<1> DEFINE u == s \o t
<1>1. t \in Seq(UnitKinds) /\ s \in Seq(UnitKinds)
  <2>1. Inner \subseteq UnitKinds
    BY Zenon DEF UnitKinds
  <2> QED
    BY <2>1 DEF LineFirst
<1>2. /\ u \in Seq(UnitKinds) /\ Len(u) = Len(s) + Len(t) /\ (\A i \in 1..Len(s) : u[i] = s[i])
      /\ \A i \in 1..Len(t) : u[Len(s) + i] = t[i]
  <2>1. IsJoin(s \o t, s, t, UnitKinds)
    BY Zenon, <1>1, Concatenated
  <2> QED
    BY Zenon, <2>1 DEF IsJoin
<1>3. Len(s) \in Nat /\ Len(t) \in Nat /\ \A i \in 1..Len(t) : t[i] \in Inner
  BY DEF LineFirst
<1> HIDE DEF u
<1>4. ASSUME NEW i \in 2..Len(u) PROVE u[i] \in Inner
  <2>1. CASE i <= Len(s)
    BY <1>2, <1>3, <2>1 DEF LineFirst
  <2>2. CASE ~(i <= Len(s))
    <3>1. i - Len(s) \in 1..Len(t) /\ Len(s) + (i - Len(s)) = i
      BY <1>2, <1>3, <2>2
    <3> QED
      BY Zenon, <1>2, <1>3, <3>1
  <2> QED
    BY Zenon, <2>1, <2>2
<1>5. Len(u) > 1 /\ u[1] = "line1"
  BY <1>2, <1>3 DEF LineFirst
<1>6. LineFirst(u)
  BY Zenon, <1>2, <1>4, <1>5 DEF LineFirst
<1> QED
  BY Zenon, <1>6 DEF u

(* The head of a request begins with its line and ends with the empty line. *)
LEMMA HeadShape ==
  ASSUME NEW r \in Request_
  PROVE  Shaped(HeadUnits(r), Len(HeadUnits(r)))
<1> DEFINE s == <<"line1", "line2">>
           t == IF r.len > 0 THEN <<"len1", "len2">> ELSE <<>>
           u == IF r.ka THEN <<"ka1", "ka2">> ELSE <<>>
           v == s \o t \o u
           e == <<"end">>
           w == v \o e
<1>1. LineFirst(s)
  <2>1. s \in Seq({"line1", "line2"}) /\ Len(s) = 2 /\ s[1] = "line1" /\ s[2] = "line2"
    OBVIOUS
  <2>2. {"line1", "line2"} \subseteq UnitKinds /\ "line2" \in Inner
    BY Zenon DEF UnitKinds, Inner
  <2> HIDE DEF s
  <2>3. ASSUME NEW i \in 2..Len(s) PROVE s[i] \in Inner
    <3>1. i = 2
      BY <2>1
    <3> QED
      BY Zenon, <2>1, <2>2, <3>1
  <2>4. s \in Seq(UnitKinds) /\ Len(s) > 1
    BY <2>1, <2>2
  <2> QED
    BY Zenon, <2>1, <2>3, <2>4 DEF LineFirst
<1>2. t \in Seq(Inner) /\ u \in Seq(Inner)
  <2>1. <<"len1", "len2">> \in Seq({"len1", "len2"}) /\ <<"ka1", "ka2">> \in Seq({"ka1", "ka2"})
    OBVIOUS
  <2>2. {"len1", "len2"} \subseteq Inner /\ {"ka1", "ka2"} \subseteq Inner
    BY Zenon DEF Inner
  <2>3. ASSUME NEW A, NEW B, A \subseteq B, NEW x \in Seq(A) PROVE x \in Seq(B)
    BY <2>3
  <2>4. <<>> \in Seq(Inner)
    OBVIOUS
  <2> QED
    BY Zenon, <2>1, <2>2, <2>3, <2>4
<1>3. LineFirst(v)
  <2> HIDE DEF s, t, u
  <2> QED
    BY Zenon, <1>1, <1>2, LineFirstMore
<1>4. e \in Seq(UnitKinds) /\ Len(e) = 1 /\ e[1] = "end"
  BY DEF UnitKinds
<1> HIDE DEF v, e
<1>5. /\ w \in Seq(UnitKinds) /\ Len(w) = Len(v) + Len(e) /\ (\A i \in 1..Len(v) : w[i] = v[i])
      /\ \A i \in 1..Len(e) : w[Len(v) + i] = e[i]
  <2>1. v \in Seq(UnitKinds)
    BY Zenon, <1>3 DEF LineFirst
  <2>2. IsJoin(v \o e, v, e, UnitKinds)
    BY Zenon, <1>4, <2>1, Concatenated
  <2> QED
    BY Zenon, <2>2 DEF IsJoin
<1>6. Len(v) \in Nat /\ Len(v) > 1 /\ v[1] = "line1" /\ \A i \in 2..Len(v) : v[i] \in Inner
  BY <1>3 DEF LineFirst
<1> HIDE DEF w
<1>7. Len(w) \in Nat /\ Len(w) > 2 /\ Len(w) - 1 = Len(v) /\ Len(w) = Len(v) + 1
  BY <1>4, <1>5, <1>6
<1>8. w[1] = "line1" /\ w[Len(w)] = "end"
  BY <1>4, <1>5, <1>6, <1>7
<1>9. \A i \in 2..(Len(w) - 1) : w[i] \in Inner
  BY <1>5, <1>6, <1>7
<1>10. Shaped(w, Len(w))
  BY <1>5, <1>7, <1>8, <1>9 DEF Shaped
<1>11. HeadUnits(r) = w
  BY Zenon DEF HeadUnits, w, v, e
<1> QED
  BY Zenon, <1>10, <1>11

(* The units of the k-th request, h of them in the header.                  *)
Section(s, k, h, len) ==
  /\ s \in Seq(Unit) /\ h \in Nat /\ h > 2 /\ Len(s) = h + len
  /\ \A i \in 1..(h + len) :
       /\ s[i].req = k /\ (s[i].u = "line1" <=> i = 1) /\ (s[i].u = "end" <=> i = h)
       /\ i > h => s[i] = [req |-> k, u |-> "body"]

(* A request on the wire is its head and its body, numbered.                *)
LEMMA UnitsShape ==
  ASSUME NEW k \in Nat, NEW r \in Request_
  PROVE  Section(UnitsOf(k, r), k, Len(HeadUnits(r)), r.len)
<1> DEFINE t == HeadUnits(r)  h == Len(t)  n == r.len  b == [i \in 1..n |-> "body"]  s == t \o b
<1>1. Shaped(t, h) /\ n \in Nat
  BY Zenon, HeadShape DEF Request_
<1>2. b \in Seq(UnitKinds) /\ Len(b) = n /\ \A i \in 1..n : b[i] = "body"
  <2>1. "body" \in UnitKinds
    BY Zenon DEF UnitKinds
  <2> HIDE DEF n
  <2> QED
    BY <1>1, <2>1
<1>3. UnitsOf(k, r) = [i \in 1..Len(s) |-> [req |-> k, u |-> s[i]]]
  BY Zenon DEF UnitsOf, HeadUnits
<1> HIDE DEF t, b, n
<1>4. /\ s \in Seq(UnitKinds) /\ Len(s) = h + n /\ \A i \in 1..h : s[i] = t[i]
      /\ \A i \in 1..n : s[h + i] = "body"
  <2>1. /\ s \in Seq(UnitKinds) /\ Len(s) = h + Len(b) /\ (\A i \in 1..h : s[i] = t[i])
        /\ \A i \in 1..Len(b) : s[h + i] = b[i]
    <3> HIDE DEF h
    <3>1. t \in Seq(UnitKinds) /\ h = Len(t)
      BY Zenon, <1>1 DEF Shaped, h
    <3>2. IsJoin(t \o b, t, b, UnitKinds)
      BY Zenon, <1>2, <3>1, Concatenated
    <3> QED
      BY Zenon, <3>1, <3>2 DEF IsJoin
  <2> HIDE DEF s
  <2> QED
    BY Zenon, <1>2, <2>1
<1> HIDE DEF s, h
<1>5. ASSUME NEW i \in 1..(h + n)
      PROVE  s[i] \in UnitKinds /\ (s[i] = "line1" <=> i = 1) /\ (s[i] = "end" <=> i = h) /\ (i > h => s[i] = "body")
  <2>1. CASE i > h
    <3>1. i - h \in 1..n /\ h + (i - h) = i
      BY <1>1, <2>1 DEF Shaped
    <3>2. s[i] = "body"
      BY Zenon, <1>4, <3>1
    <3>3. i # 1 /\ i # h
      BY <1>1, <2>1 DEF Shaped
    <3>4. "body" \in UnitKinds /\ "body" # "line1" /\ "body" # "end"
      BY Zenon DEF UnitKinds
    <3> QED
      BY Zenon, <3>2, <3>3, <3>4
  <2>2. CASE ~(i > h)
    <3>1. i \in 1..h /\ (i = 1 \/ i = h \/ i \in 2..(h - 1)) /\ 1 # h
      <4>1. h \in Nat /\ h > 2 /\ n \in Nat
        BY Zenon, <1>1 DEF Shaped
      <4> QED
        BY <2>2, <4>1
    <3>2. s[i] = t[i] /\ s[i] \in UnitKinds
      <4>1. i \in 1..Len(s)
        BY <1>1, <1>4, <3>1 DEF Shaped
      <4>2. ASSUME NEW S, NEW x \in Seq(S), NEW j \in 1..Len(x) PROVE x[j] \in S
        OBVIOUS
      <4> QED
        BY Zenon, <1>4, <3>1, <4>1, <4>2
    <3>3. i \in 2..(h - 1) => s[i] \in Inner
      BY Zenon, <1>1, <3>2 DEF Shaped
    <3>4. i \in 2..(h - 1) => i # 1 /\ i # h
      BY <1>1 DEF Shaped
    <3>5. \A x \in Inner : x # "line1" /\ x # "end"
      BY DEF Inner
    <3>6. s[1] = "line1" /\ s[h] = "end"
      <4>1. 1 \in 1..h /\ h \in 1..h
        BY <1>1 DEF Shaped
      <4> QED
        BY Zenon, <1>1, <1>4, <4>1 DEF Shaped
    <3>7. "line1" # "end"
      OBVIOUS
    <3> QED
      BY Zenon, <2>2, <3>1, <3>2, <3>3, <3>4, <3>5, <3>6, <3>7
  <2> QED
    BY Zenon, <2>1, <2>2
<1> DEFINE v == UnitsOf(k, r)
<1>6. v = [i \in 1..(h + n) |-> [req |-> k, u |-> s[i]]]
  BY Zenon, <1>3, <1>4
<1> HIDE DEF v
<1>7. ASSUME NEW i \in 1..(h + n) PROVE v[i] = [req |-> k, u |-> s[i]] /\ v[i] \in Unit
  BY Zenon, <1>5, <1>6 DEF Unit
<1>8. h \in Nat /\ h > 2 /\ h + n \in Nat
  BY <1>1 DEF Shaped
<1>9. v \in Seq(Unit) /\ Len(v) = h + n
  <2> DEFINE m == h + n
             val(i) == [req |-> k, u |-> s[i]]
  <2>1. m \in Nat /\ v = [i \in 1..m |-> val(i)] /\ \A i \in 1..m : val(i) \in Unit
    BY Zenon, <1>6, <1>7, <1>8
  <2> HIDE DEF m, val
  <2>2. v \in Seq(Unit) /\ Len(v) = m
    BY <2>1
  <2> QED
    BY Zenon, <2>2 DEF m
<1>10. ASSUME NEW i \in 1..(h + n)
       PROVE  /\ v[i].req = k /\ (v[i].u = "line1" <=> i = 1) /\ (v[i].u = "end" <=> i = h)
              /\ i > h => v[i] = [req |-> k, u |-> "body"]
  <2>1. v[i].req = k /\ v[i].u = s[i] /\ v[i] = [req |-> k, u |-> s[i]]
    BY <1>7
  <2>2. (s[i] = "line1" <=> i = 1) /\ (s[i] = "end" <=> i = h) /\ (i > h => s[i] = "body")
    BY Zenon, <1>5
  <2> QED
    BY Zenon, <2>1, <2>2
<1>11. Section(v, k, h, n)
  BY Zenon, <1>8, <1>9, <1>10 DEF Section
<1> QED
  BY Zenon, <1>11 DEF v, h, t, n

(* The units of the first requests, one request more at a time: there is    *)
(* one way to do it, which is what FirstUnits gives.                        *)
Grown(f, load, n, T) ==
  /\ f \in [0..n -> T] /\ f[0] = <<>>
  /\ \A k \in 1..n : f[k] = f[k - 1] \o UnitsOf(k, load[k])

(* The units of the first n requests can be put on the wire one request     *)
(* after the other.                                                         *)
LEMMA GrownExists ==
  ASSUME NEW load \in Seq(Request_)
  PROVE  \A n \in 0..Len(load) : \E f : Grown(f, load, n, Seq(Unit))
<1> DEFINE T == Seq(Unit)
           Some == {n \in Nat : n <= Len(load) => \E f : Grown(f, load, n, T)}
<1>1. 0 \in Some
  <2> DEFINE f == [i \in 0..0 |-> <<>>]
  <2>1. <<>> \in T
    OBVIOUS
  <2> HIDE DEF T
  <2>2. f \in [0..0 -> T] /\ f[0] = <<>> /\ 1..0 = {}
    BY <2>1
  <2> HIDE DEF f
  <2>3. Grown(f, load, 0, T)
    BY Zenon, <2>2 DEF Grown
  <2> QED
    BY Zenon, <2>3, 0 \in Nat
<1>2. ASSUME NEW n \in Nat, n \in Some PROVE n + 1 \in Some
  <2>1. n + 1 \in Nat
    OBVIOUS
  <2>2. ASSUME n + 1 <= Len(load) PROVE \E f : Grown(f, load, n + 1, T)
    <3>1. n <= Len(load) /\ n + 1 \in 1..Len(load) /\ n \in 0..n
      BY <2>2
    <3>2. PICK g : Grown(g, load, n, T)
      BY Zenon, <1>2, <3>1
    <3> DEFINE u == UnitsOf(n + 1, load[n + 1])
               last == g[n] \o u
               f == [i \in 0..(n + 1) |-> IF i = n + 1 THEN last ELSE g[i]]
    <3>3. u \in Seq(Unit)
      <4>1. load[n + 1] \in Request_
        BY <3>1
      <4>2. ASSUME NEW k \in Nat, NEW r \in Request_ PROVE UnitsOf(k, r) \in Seq(Unit)
        BY Zenon, UnitsShape DEF Section
      <4> QED
        BY Zenon, <2>1, <4>1, <4>2
    <3>4. last \in T
      <4>1. g[n] \in T
        BY Zenon, <3>1, <3>2 DEF Grown
      <4> HIDE DEF u
      <4> QED
        BY <3>3, <4>1
    <3>5. g \in [0..n -> T] /\ g[0] = <<>> /\ last \in T
      BY Zenon, <3>2, <3>4 DEF Grown
    <3> HIDE DEF last, T
    <3>6. f \in [0..(n + 1) -> T] /\ f[0] = <<>> /\ f[n + 1] = last /\ \A i \in 0..n : f[i] = g[i]
      BY <3>5
    <3> HIDE DEF f
    <3>7. ASSUME NEW k \in 1..(n + 1) PROVE f[k] = f[k - 1] \o UnitsOf(k, load[k])
      <4>1. CASE k = n + 1
        <5>1. k - 1 = n
          BY <4>1
        <5> QED
          BY Zenon, <3>1, <3>6, <4>1, <5>1 DEF last
      <4>2. CASE k # n + 1
        <5>1. k \in 1..n /\ k \in 0..n /\ k - 1 \in 0..n
          BY <4>2
        <5>2. g[k] = g[k - 1] \o UnitsOf(k, load[k])
          BY Zenon, <3>2, <5>1 DEF Grown
        <5> QED
          BY Zenon, <3>6, <5>1, <5>2
      <4> QED
        BY Zenon, <4>1, <4>2
    <3>8. Grown(f, load, n + 1, T)
      BY Zenon, <3>6, <3>7 DEF Grown
    <3> QED
      BY Zenon, <3>8
  <2> QED
    BY Zenon, <2>1, <2>2
<1>3. \A n \in Nat : n \in Some
  <2> HIDE DEF Some
  <2> QED
    BY Zenon, <1>1, <1>2, Induction
<1>4. ASSUME NEW n \in 0..Len(load) PROVE n \in Nat /\ n <= Len(load)
  OBVIOUS
<1> QED
  BY Zenon, <1>3, <1>4

(* FirstUnits is what such a function ends with.                            *)
LEMMA GrownIsFirst ==
  ASSUME NEW load, NEW n \in Nat, NEW T, NEW g, Grown(g, load, n, T)
  PROVE  FirstUnits(load, n) = g[n]
<1> DEFINE Loop(f) == f = [k \in 0..n |-> IF k = 0 THEN <<>> ELSE f[k - 1] \o UnitsOf(k, load[k])]
           units == CHOOSE f : Loop(f)
           Equal == {i \in Nat : i <= n => units[i] = g[i]}
<1>1. Loop(g)
  <2> DEFINE next(k) == IF k = 0 THEN <<>> ELSE g[k - 1] \o UnitsOf(k, load[k])
  <2>1. ASSUME NEW k \in 0..n PROVE g[k] = next(k)
    <3>1. k = 0 \/ (k # 0 /\ k \in 1..n)
      OBVIOUS
    <3> QED
      BY Zenon, <3>1 DEF Grown
  <2>2. g \in [0..n -> T]
    BY Zenon DEF Grown
  <2> HIDE DEF next
  <2>3. g = [k \in 0..n |-> next(k)]
    BY Zenon, <2>1, <2>2
  <2> QED
    BY Zenon, <2>3 DEF next
<1>2. Loop(units)
  BY Zenon, <1>1
<1>3. FirstUnits(load, n) = units[n]
  BY Zenon DEF FirstUnits
<1> HIDE DEF units
<1>4. ASSUME NEW k \in 0..n PROVE units[k] = IF k = 0 THEN <<>> ELSE units[k - 1] \o UnitsOf(k, load[k])
  BY Zenon, <1>2
<1>5. 0 \in Equal
  <2>1. 0 \in 0..n
    OBVIOUS
  <2> QED
    BY Zenon, <1>4, <2>1, 0 \in Nat DEF Grown
<1>6. ASSUME NEW i \in Nat, i \in Equal PROVE i + 1 \in Equal
  <2>1. i + 1 \in Nat
    OBVIOUS
  <2>2. ASSUME i + 1 <= n PROVE units[i + 1] = g[i + 1]
    <3>1. i + 1 \in 0..n /\ i + 1 \in 1..n /\ i + 1 # 0 /\ (i + 1) - 1 = i /\ i <= n
      BY <2>2
    <3>2. units[i + 1] = units[i] \o UnitsOf(i + 1, load[i + 1])
      BY Zenon, <1>4, <3>1
    <3>3. g[i + 1] = g[i] \o UnitsOf(i + 1, load[i + 1])
      BY Zenon, <3>1 DEF Grown
    <3>4. units[i] = g[i]
      BY Zenon, <1>6, <3>1
    <3> QED
      BY Zenon, <3>2, <3>3, <3>4
  <2> QED
    BY Zenon, <2>1, <2>2
<1>7. \A i \in Nat : i \in Equal
  <2> HIDE DEF Equal
  <2> QED
    BY Zenon, <1>5, <1>6, Induction
<1>8. n <= n
  OBVIOUS
<1> QED
  BY Zenon, <1>3, <1>7, <1>8

(* One request more on the wire.                                            *)
LEMMA FirstUnitsMore ==
  ASSUME NEW load \in Seq(Request_), NEW n \in Nat, n < Len(load)
  PROVE  /\ FirstUnits(load, n) \in Seq(Unit)
         /\ FirstUnits(load, n + 1) = FirstUnits(load, n) \o UnitsOf(n + 1, load[n + 1])
<1> DEFINE T == Seq(Unit)
<1>1. n + 1 \in Nat /\ n + 1 \in 0..Len(load) /\ n + 1 \in 1..(n + 1) /\ (n + 1) - 1 = n /\ n \in 0..n /\ n \in 0..(n + 1)
  OBVIOUS
<1>2. PICK g : Grown(g, load, n + 1, T)
  BY Zenon, <1>1, GrownExists
<1> HIDE DEF T
<1>3. g \in [0..(n + 1) -> T] /\ g[0] = <<>> /\ \A k \in 1..(n + 1) : g[k] = g[k - 1] \o UnitsOf(k, load[k])
  BY Zenon, <1>2 DEF Grown
<1> DEFINE h == [k \in 0..n |-> g[k]]
<1>4. h \in [0..n -> T] /\ h[0] = <<>> /\ h[n] = g[n]
  BY <1>1, <1>3
<1>5. ASSUME NEW k \in 1..n PROVE h[k] = h[k - 1] \o UnitsOf(k, load[k])
  <2>1. k \in 1..(n + 1) /\ k \in 0..n /\ k - 1 \in 0..n
    OBVIOUS
  <2> QED
    BY Zenon, <1>3, <2>1
<1> HIDE DEF h
<1>6. Grown(h, load, n, T)
  BY Zenon, <1>4, <1>5 DEF Grown
<1>7. FirstUnits(load, n) = h[n] /\ FirstUnits(load, n + 1) = g[n + 1]
  BY Zenon, <1>1, <1>2, <1>6, GrownIsFirst
<1>8. h[n] \in T
  BY Zenon, <1>1, <1>4
<1> QED
  BY Zenon, <1>1, <1>3, <1>4, <1>7, <1>8 DEF T

(* The wire w of the first n requests of load: e[k] is where the k-th ends. *)
At(x, i, k, a, h) ==
  /\ x \in Unit /\ x.req = k /\ (x.u = "line1" <=> i = a + 1) /\ (x.u = "end" <=> i = h)
  /\ i > h => x = [req |-> k, u |-> "body"]
Part(w, k, a, b, len) ==
  /\ a \in Nat /\ b \in Nat /\ b <= Len(w) /\ len \in Nat /\ a + 2 < b - len
  /\ \A i \in (a + 1)..b : At(w[i], i, k, a, b - len)
Laid(w, e, load, n) ==
  /\ w \in Seq(Unit) /\ e \in [0..n -> Nat] /\ e[0] = 0 /\ e[n] = Len(w)
  /\ \A k \in 1..n : Part(w, k, e[k - 1], e[k], load[k].len)
  /\ \A j, k \in 0..n : j <= k => e[j] <= e[k]
  /\ \A i \in 1..Len(w) : \E k \in 1..n : i \in (e[k - 1] + 1)..e[k]

(* A request stays where it is when others follow.                          *)
LEMMA PartKept ==
  ASSUME NEW w \in Seq(Unit), NEW s \in Seq(Unit), NEW k, NEW a, NEW b, NEW len, Part(w, k, a, b, len)
  PROVE  Part(w \o s, k, a, b, len)
<1> DEFINE v == w \o s
<1>1. IsJoin(v, w, s, Unit)
  BY Zenon, Concatenated
<1> HIDE DEF v
<1>2. a \in Nat /\ b \in Nat /\ b <= Len(w) /\ len \in Nat /\ a + 2 < b - len
  BY Zenon DEF Part
<1>3. Len(v) = Len(w) + Len(s) /\ Len(w) \in Nat /\ Len(s) \in Nat
  BY <1>1 DEF IsJoin
<1>4. b <= Len(v)
  BY <1>2, <1>3
<1>5. ASSUME NEW i \in (a + 1)..b PROVE At(v[i], i, k, a, b - len)
  <2>1. i \in 1..Len(w)
    BY <1>2, <1>3
  <2>2. v[i] = w[i]
    BY Zenon, <1>1, <2>1 DEF IsJoin
  <2>3. At(w[i], i, k, a, b - len)
    BY Zenon DEF Part
  <2> QED
    BY Zenon, <2>2, <2>3
<1>6. Part(v, k, a, b, len)
  BY Zenon, <1>2, <1>4, <1>5 DEF Part
<1> QED
  BY Zenon, <1>6 DEF v

(* A request that is joined to the wire is its last part.                   *)
LEMMA PartAdded ==
  ASSUME NEW w \in Seq(Unit), NEW s, NEW k \in Nat, NEW h, NEW len \in Nat, Section(s, k, h, len)
  PROVE  Part(w \o s, k, Len(w), Len(w \o s), len) /\ w \o s \in Seq(Unit) /\ Len(w \o s) > Len(w)
<1> DEFINE v == w \o s
<1>1. s \in Seq(Unit) /\ h \in Nat /\ h > 2 /\ Len(s) = h + len
  BY Zenon DEF Section
<1>2. IsJoin(v, w, s, Unit)
  BY Zenon, <1>1, Concatenated
<1> HIDE DEF v
<1>3. v \in Seq(Unit) /\ Len(v) = Len(w) + Len(s) /\ Len(w) \in Nat /\ Len(v) \in Nat
  BY <1>2, <1>1 DEF IsJoin
<1> DEFINE a == Len(w)  b == Len(v)  g == b - len
<1>4. a \in Nat /\ b \in Nat /\ b <= Len(v) /\ a + 2 < g /\ g = a + h /\ b = a + h + len /\ b > a
  BY <1>1, <1>3
<1> HIDE DEF a, b, g
<1>5. ASSUME NEW i \in (a + 1)..b PROVE At(v[i], i, k, a, g)
  <2> DEFINE j == i - a
  <2>1. j \in 1..(h + len) /\ a + j = i
    BY <1>1, <1>4
  <2>2. (j = 1 <=> i = a + 1) /\ (j = h <=> i = g) /\ (j > h <=> i > g)
    BY <1>1, <1>4
  <2> HIDE DEF j
  <2>3. v[i] = s[j]
    <3>1. v[a + j] = s[j]
      BY Zenon, <1>1, <1>2, <2>1 DEF IsJoin, a
    <3> QED
      BY Zenon, <2>1, <3>1
  <2>4. /\ s[j].req = k /\ (s[j].u = "line1" <=> j = 1) /\ (s[j].u = "end" <=> j = h)
        /\ j > h => s[j] = [req |-> k, u |-> "body"]
    BY Zenon, <2>1 DEF Section
  <2>5. s[j] \in Unit
    <3>1. j \in 1..Len(s)
      BY Zenon, <1>1, <2>1
    <3>2. ASSUME NEW S, NEW x \in Seq(S), NEW m \in 1..Len(x) PROVE x[m] \in S
      OBVIOUS
    <3> QED
      BY Zenon, <1>1, <3>1, <3>2
  <2> QED
    BY Zenon, <2>2, <2>3, <2>4, <2>5 DEF At
<1>6. Part(v, k, a, b, len)
  <2>1. a + 2 < b - len
    BY Zenon, <1>4 DEF g
  <2> QED
    BY Zenon, <1>4, <1>5, <2>1 DEF Part, g
<1> QED
  BY Zenon, <1>3, <1>4, <1>6 DEF a, b, v

(* With one request more the wire is laid out as before, and the new        *)
(* request at its end.                                                      *)
LEMMA LaidMore ==
  ASSUME NEW w, NEW e, NEW load, NEW n \in Nat, Laid(w, e, load, n), NEW s, NEW h,
         load[n + 1].len \in Nat, Section(s, n + 1, h, load[n + 1].len),
         NEW f, f = [k \in 0..(n + 1) |-> IF k = n + 1 THEN Len(w \o s) ELSE e[k]]
  PROVE  Laid(w \o s, f, load, n + 1)
<1> DEFINE v == w \o s  len == load[n + 1].len  m == n + 1  L == Len(v)
<1>1. w \in Seq(Unit) /\ s \in Seq(Unit) /\ e[n] = Len(w) /\ e[0] = 0 /\ e \in [0..n -> Nat]
  BY Zenon DEF Laid, Section
<1>2. Part(v, m, Len(w), L, len) /\ v \in Seq(Unit) /\ L > Len(w)
  <2>1. m \in Nat
    OBVIOUS
  <2> HIDE DEF len, m
  <2>2. Section(s, m, h, len) /\ len \in Nat
    BY Zenon DEF len, m
  <2> QED
    BY Zenon, <1>1, <2>1, <2>2, PartAdded
<1>3. ASSUME NEW k \in 1..n PROVE Part(v, k, e[k - 1], e[k], load[k].len)
  <2>1. Part(w, k, e[k - 1], e[k], load[k].len)
    BY Zenon DEF Laid
  <2> QED
    BY Zenon, <1>1, <2>1, PartKept
<1>4. f[m] = L /\ \A k \in 0..n : f[k] = e[k] /\ f[k] \in Nat /\ e[k] <= Len(w)
  <2>1. m \in 0..m /\ \A k \in 0..n : k \in 0..m /\ k # m /\ k <= n /\ n \in 0..n
    OBVIOUS
  <2> QED
    BY Zenon, <1>1, <2>1 DEF Laid
<1>5. Len(w) \in Nat /\ L \in Nat
  BY <1>1, <1>2
<1> HIDE DEF v, L
<1>6. f \in [0..m -> Nat]
  <2> DEFINE val(k) == IF k = n + 1 THEN Len(w \o s) ELSE e[k]
  <2>1. f = [k \in 0..m |-> val(k)]
    BY Zenon
  <2>2. ASSUME NEW k \in 0..m PROVE f[k] \in Nat
    <3>1. k = m \/ k \in 0..n
      OBVIOUS
    <3> QED
      BY Zenon, <1>4, <1>5, <3>1
  <2> HIDE DEF val, m
  <2> QED
    BY Zenon, <2>1, <2>2
<1>7. f[0] = 0 /\ f[m] = L
  <2>1. 0 \in 0..n
    OBVIOUS
  <2> QED
    BY Zenon, <1>1, <1>4, <2>1
<1>8. ASSUME NEW k \in 1..m PROVE Part(v, k, f[k - 1], f[k], load[k].len)
  <2>1. CASE k = m
    <3>1. k - 1 = n /\ n \in 0..n
      BY <2>1
    <3> QED
      BY Zenon, <1>1, <1>2, <1>4, <2>1, <3>1
  <2>2. CASE k # m
    <3>1. k \in 1..n /\ k \in 0..n /\ k - 1 \in 0..n
      BY <2>2
    <3> QED
      BY Zenon, <1>3, <1>4, <3>1
  <2> QED
    BY Zenon, <2>1, <2>2
<1>9. ASSUME NEW j \in 0..m, NEW k \in 0..m, j <= k PROVE f[j] <= f[k]
  <2>1. CASE k = m
    <3>1. CASE j = m
      BY SMTT(60), <1>4, <1>5, <2>1, <3>1
    <3>2. CASE j # m
      <4>1. j \in 0..n
        BY <3>2
      <4>2. f[j] <= Len(w) /\ f[j] \in Nat
        BY Zenon, <1>4, <4>1
      <4> QED
        BY <1>2, <1>4, <1>5, <2>1, <4>2
    <3> QED
      BY Zenon, <3>1, <3>2
  <2>2. CASE k # m
    <3>1. j \in 0..n /\ k \in 0..n
      BY <1>9, <2>2
    <3>2. e[j] <= e[k]
      BY Zenon, <1>9, <3>1 DEF Laid
    <3> QED
      BY Zenon, <1>4, <3>1, <3>2
  <2> QED
    BY Zenon, <2>1, <2>2
<1>10. ASSUME NEW i \in 1..L PROVE \E k \in 1..m : i \in (f[k - 1] + 1)..f[k]
  <2>1. CASE i <= Len(w)
    <3>1. i \in 1..Len(w)
      BY <1>5, <2>1
    <3>2. PICK k \in 1..n : i \in (e[k - 1] + 1)..e[k]
      BY Zenon, <3>1 DEF Laid
    <3>3. k \in 1..m /\ k \in 0..n /\ k - 1 \in 0..n
      OBVIOUS
    <3> QED
      BY Zenon, <1>4, <3>2, <3>3
  <2>2. CASE ~(i <= Len(w))
    <3>1. i \in (Len(w) + 1)..L /\ m \in 1..m /\ m - 1 = n /\ n \in 0..n
      BY <1>5, <2>2
    <3> QED
      BY Zenon, <1>1, <1>4, <3>1
  <2> QED
    BY Zenon, <2>1, <2>2
<1>11. Laid(v, f, load, m)
  BY Zenon, <1>2, <1>6, <1>7, <1>8, <1>9, <1>10 DEF Laid, L
<1> QED
  BY Zenon, <1>11 DEF v

(* The wire of any workload is laid out that way.                           *)
LEMMA WireLaid ==
  ASSUME NEW load \in Seq(Request_)
  PROVE  \A n \in 0..Len(load) : Laid(FirstUnits(load, n), [k \in 0..n |-> Len(FirstUnits(load, k))], load, n)
<1> DEFINE e(n) == [k \in 0..n |-> Len(FirstUnits(load, k))]
           Done == {n \in Nat : n <= Len(load) => Laid(FirstUnits(load, n), e(n), load, n)}
<1>1. 0 \in Done
  <2>1. FirstUnits(load, 0) = <<>>
    <3> DEFINE f == [i \in 0..0 |-> <<>>]  T == {<<>>}
    <3>1. f \in [0..0 -> T] /\ f[0] = <<>> /\ 1..0 = {}
      OBVIOUS
    <3> HIDE DEF f, T
    <3>2. Grown(f, load, 0, T)
      BY Zenon, <3>1 DEF Grown
    <3> QED
      BY Zenon, <3>1, <3>2, 0 \in Nat, GrownIsFirst
  <2>2. Len(FirstUnits(load, 0)) = 0 /\ <<>> \in Seq(Unit)
    BY <2>1
  <2> DEFINE g == e(0)
  <2>3. g \in [0..0 -> Nat] /\ g[0] = 0 /\ 1..0 = {} /\ \A j \in 0..0 : j = 0
    <3> DEFINE val(k) == Len(FirstUnits(load, k))
    <3>1. val(0) = 0
      BY Zenon, <2>2
    <3>2. 1..0 = {} /\ 0..0 = {0}
      OBVIOUS
    <3>3. g = [k \in 0..0 |-> val(k)]
      BY Zenon
    <3> HIDE DEF val, g
    <3>4. g \in [{0} -> Nat] /\ g[0] = 0
      BY <3>1, <3>2, <3>3
    <3> QED
      BY Zenon, <3>2, <3>4
  <2> HIDE DEF g
  <2>4. Laid(FirstUnits(load, 0), g, load, 0)
    BY Zenon, <2>1, <2>2, <2>3 DEF Laid
  <2> QED
    BY Zenon, <2>4, 0 \in Nat DEF g
<1>2. ASSUME NEW n \in Nat, n \in Done PROVE n + 1 \in Done
  <2>1. n + 1 \in Nat
    OBVIOUS
  <2>2. ASSUME n + 1 <= Len(load) PROVE Laid(FirstUnits(load, n + 1), e(n + 1), load, n + 1)
    <3> DEFINE w == FirstUnits(load, n)  s == UnitsOf(n + 1, load[n + 1])
               f == [k \in 0..(n + 1) |-> IF k = n + 1 THEN Len(w \o s) ELSE e(n)[k]]
               h == Len(HeadUnits(load[n + 1]))
    <3>1. n < Len(load) /\ n <= Len(load) /\ load[n + 1] \in Request_
      <4>1. n < Len(load) /\ n <= Len(load) /\ n + 1 \in 1..Len(load)
        BY <2>2
      <4> QED
        BY <4>1
    <3>2. FirstUnits(load, n + 1) = w \o s
      BY Zenon, <3>1, FirstUnitsMore
    <3>3. Laid(w, e(n), load, n)
      BY Zenon, <1>2, <3>1
    <3>4. Section(s, n + 1, h, load[n + 1].len) /\ load[n + 1].len \in Nat
      BY Zenon, <2>1, <3>1, UnitsShape DEF Request_
    <3>5. e(n + 1) = f
      <4>1. \A k \in 0..(n + 1) : k # n + 1 => k \in 0..n
        OBVIOUS
      <4>2. \A k \in 0..(n + 1) : e(n + 1)[k] = f[k]
        BY Zenon, <3>2, <4>1
      <4> QED
        BY Zenon, <4>2
    <3> HIDE DEF w, s, f, h, e
    <3>6. f = [k \in 0..(n + 1) |-> IF k = n + 1 THEN Len(w \o s) ELSE e(n)[k]]
      BY Zenon DEF f
    <3>7. Laid(w \o s, f, load, n + 1)
      BY Zenon, <3>3, <3>4, <3>6, LaidMore
    <3> QED
      BY Zenon, <3>2, <3>5, <3>7
  <2> QED
    BY Zenon, <2>1, <2>2
<1>3. \A n \in Nat : n \in Done
  <2> HIDE DEF Done
  <2> QED
    BY Zenon, <1>1, <1>2, Induction
<1>4. ASSUME NEW n \in 0..Len(load) PROVE n \in Nat /\ n <= Len(load)
  OBVIOUS
<1> QED
  BY Zenon, <1>3, <1>4

-----------------------------------------------------------------------------
(* The inductive invariant.  HeadEnd(k) is where the header of the k-th     *)
(* request ends, Base where what the session has consumed ends.             *)
Total == Len(requests)
HeadEnd(k) == IF k = 0 THEN 0 ELSE EndOf(k) - requests[k].len
Base == IF pos = "execute" THEN first - 1 ELSE taken
Reading == pos \in {"read", "execute"}
Opened == Reading /\ begun
Between == pos = "write" \/ (Reading /\ ~begun)

TypeInv ==
  /\ requests \in Workloads /\ begun \in BOOLEAN /\ eof \in BOOLEAN
  /\ sent \in 0..Len(Wire) /\ taken \in 0..sent /\ answers \in Nat /\ offset \in Nat /\ left \in Nat
  /\ pos \in {"read", "execute", "body", "handle", "write", "closed"}
  /\ req \in [k : 0..Total, lost : SUBSET {"line", "len", "ka"}]
  /\ handled \in Seq([k : Nat, lost : SUBSET {"line", "len", "ka"}, body : Seq(Unit)]) /\ body \in Seq(Unit)
  /\ harm \subseteq {"slow", "cut", "leftover", "straddled"} /\ (req.lost # {} => "cut" \in harm)
  /\ pos \in {"body", "handle", "write"} => ~begun
  /\ pos = "execute" => first \in 1..taken

(* Every answer is one to a request that was handled, and the requests are  *)
(* handled in order, none of them twice.                                    *)
Answered == Len(handled) - (IF pos = "write" THEN 1 ELSE 0)
CountInv ==
  /\ Len(handled) <= Total /\ answers <= Answered /\ (~eof => answers = Answered)
  /\ Opened \/ pos \in {"body", "handle"} => req.k > Len(handled)
  /\ Between => req.k >= Len(handled)

(* A header is open inside the header of its request; what comes between    *)
(* two requests begins behind the header of the last.                       *)
PlaceInv ==
  /\ Opened => (req.k > 0 /\ EndOf(req.k - 1) < Base /\ Base < HeadEnd(req.k))
  /\ Between => HeadEnd(req.k) <= Base

BodyInv ==
  pos \in {"body", "handle"} =>
    LET len == Length(req)  n == Len(body)  h == HeadEnd(req.k) IN
    /\ req.k > 0 /\ h + n <= taken /\ body = SubSeq(Wire, h + 1, h + n)
    /\ pos = "body" =>
         /\ left \in 1..len /\ offset < len /\ n = offset + (len - left) /\ taken = h + n
         /\ offset > 0 => "straddled" \in harm
    /\ pos = "handle" => n = IF Straddled(len) THEN len + offset ELSE len

(* As long as no buffer was dropped and no body overran.                    *)
ExactInv ==
  harm \cap Misread = {} =>
    /\ \A i \in 1..Len(handled) : handled[i].k = i
    /\ Opened \/ pos \in {"body", "handle"} => req.k = Len(handled) + 1
    /\ Between => req.k = Len(handled)
    /\ Between \/ pos = "handle" => Base = HeadEnd(req.k) + (IF req.k = 0 THEN 0 ELSE Length(req))

HttpIInv == TypeInv /\ CountInv /\ PlaceInv /\ BodyInv /\ ExactInv

-----------------------------------------------------------------------------
(* Where the requests are on the wire.                                      *)
OnWire ==
  /\ Wire \in Seq(Unit) /\ Total \in Nat /\ Len(Wire) \in Nat /\ EndOf(0) = 0 /\ EndOf(Total) = Len(Wire)
  /\ \A k \in 0..Total : EndOf(k) \in 0..Len(Wire)
  /\ \A j, k \in 0..Total : j <= k => EndOf(j) <= EndOf(k)
Within(k) ==
  /\ requests[k].len \in Nat /\ HeadEnd(k) \in Nat /\ EndOf(k - 1) + 2 < HeadEnd(k)
  /\ HeadEnd(k) + requests[k].len = EndOf(k)
  /\ \A i \in (EndOf(k - 1) + 1)..EndOf(k) : At(Wire[i], i, k, EndOf(k - 1), HeadEnd(k))

(* The requests lie on the wire one behind the other, and nothing else      *)
(* does.                                                                    *)
LEMMA WirePlaces ==
  ASSUME requests \in Workloads
  PROVE  /\ OnWire
         /\ \A k \in 1..Total : Within(k)
         /\ \A i \in 1..Len(Wire) : \E k \in 1..Total : i \in (EndOf(k - 1) + 1)..EndOf(k)
<1> DEFINE e == [k \in 0..Total |-> Len(FirstUnits(requests, k))]
<1>1. requests \in Seq(Request_)
  BY Zenon, HttpAssumption DEF Request_
<1>2. Total \in Nat /\ Total \in 0..Total /\ 0 \in 0..Total
  BY <1>1 DEF Total
<1>3. Laid(FirstUnits(requests, Total), e, requests, Total)
  BY Zenon, <1>1, <1>2, WireLaid DEF Total
<1>4. Wire = FirstUnits(requests, Total)
  BY Zenon DEF Wire, Wires, Total
<1>5. Lengths[requests] = e
  BY Zenon DEF Lengths, Total
<1> HIDE DEF e
<1>6. Laid(Wire, e, requests, Total) /\ \A k : EndOf(k) = e[k]
  BY Zenon, <1>3, <1>4, <1>5 DEF EndOf
<1>7. /\ Wire \in Seq(Unit) /\ EndOf(0) = 0 /\ EndOf(Total) = Len(Wire)
      /\ \A j, k \in 0..Total : j <= k => EndOf(j) <= EndOf(k)
      /\ \A i \in 1..Len(Wire) : \E k \in 1..Total : i \in (EndOf(k - 1) + 1)..EndOf(k)
      /\ \A k \in 1..Total : Part(Wire, k, EndOf(k - 1), EndOf(k), requests[k].len)
      /\ \A k \in 0..Total : EndOf(k) \in Nat
  BY Zenon, <1>6 DEF Laid
<1>8. Len(Wire) \in Nat
  BY <1>7
<1>9. ASSUME NEW k \in 0..Total PROVE EndOf(k) \in 0..Len(Wire)
  <2>1. EndOf(k) \in Nat /\ EndOf(k) <= EndOf(Total)
    <3>1. k <= Total
      BY <1>2
    <3> QED
      BY Zenon, <1>2, <1>7, <3>1
  <2> QED
    BY <1>7, <1>8, <2>1
<1>10. ASSUME NEW k \in 1..Total PROVE Within(k)
  <2> DEFINE a == EndOf(k - 1)  b == EndOf(k)  len == requests[k].len
  <2>1. Part(Wire, k, a, b, len)
    BY Zenon, <1>7
  <2>2. k # 0
    OBVIOUS
  <2>3. HeadEnd(k) = b - len
    BY Zenon, <2>2 DEF HeadEnd
  <2> HIDE DEF a, b, len
  <2>4. a \in Nat /\ b \in Nat /\ len \in Nat /\ a + 2 < b - len
    BY Zenon, <2>1 DEF Part
  <2>5. HeadEnd(k) \in Nat /\ HeadEnd(k) + len = b
    BY <2>3, <2>4
  <2>6. \A i \in (a + 1)..b : At(Wire[i], i, k, a, HeadEnd(k))
    BY Zenon, <2>1, <2>3 DEF Part
  <2> QED
    BY Zenon, <2>3, <2>4, <2>5, <2>6 DEF Within, a, b, len
<1> QED
  BY Zenon, <1>2, <1>7, <1>8, <1>9, <1>10 DEF OnWire

(* A request line begins where the request before it ends.                  *)
LEMMA LineStarts ==
  ASSUME requests \in Workloads, NEW i \in 1..Len(Wire), Wire[i].u = "line1"
  PROVE  Wire[i].req \in 1..Total /\ EndOf(Wire[i].req - 1) + 1 = i
<1>1. PICK k \in 1..Total : i \in (EndOf(k - 1) + 1)..EndOf(k)
  BY Zenon, WirePlaces
<1>2. At(Wire[i], i, k, EndOf(k - 1), HeadEnd(k))
  BY Zenon, <1>1, WirePlaces DEF Within
<1> QED
  BY Zenon, <1>1, <1>2 DEF At

(* The least element of a set of numbers.                                   *)
LEMMA MinIs ==
  ASSUME NEW S \in SUBSET Nat, NEW m \in S, \A x \in S : m <= x
  PROVE  Min(S) = m
<1>1. \E x \in S : \A y \in S : x <= y
  BY Zenon
<1>2. Min(S) \in S /\ \A y \in S : Min(S) <= y
  BY Zenon, <1>1 DEF Min
<1>3. Min(S) <= m /\ m <= Min(S) /\ Min(S) \in Nat /\ m \in Nat
  BY Zenon, <1>2
<1> QED
  BY <1>3

(* The first end of a header behind a place in the header of the k-th.      *)
LEMMA HeaderEnds ==
  ASSUME requests \in Workloads, NEW k \in 1..Total, NEW i \in Nat, EndOf(k - 1) < i, i <= HeadEnd(k),
         NEW t \in 0..Len(Wire), NEW E, E = {j \in i..t : Wire[j].u = "end"}
  PROVE  (E = {} <=> t < HeadEnd(k)) /\ (E # {} => Min(E) = HeadEnd(k))
<1> DEFINE a == EndOf(k - 1)  h == HeadEnd(k)  b == EndOf(k)
<1>1. h \in Nat /\ a \in Nat /\ b \in Nat /\ a + 2 < h /\ h <= b
  <2>1. k - 1 \in 0..Total /\ k \in 0..Total
    BY WirePlaces DEF OnWire
  <2>2. a \in 0..Len(Wire) /\ b \in 0..Len(Wire) /\ Len(Wire) \in Nat
    BY Zenon, <2>1, WirePlaces DEF OnWire
  <2>3. requests[k].len \in Nat /\ h \in Nat /\ a + 2 < h /\ h + requests[k].len = b
    BY Zenon, WirePlaces DEF Within
  <2> HIDE DEF a, b, h
  <2> QED
    BY <2>2, <2>3
<1>2. \A j \in (a + 1)..b : At(Wire[j], j, k, a, h)
  BY Zenon, WirePlaces DEF Within
<1>3. a < i /\ i <= h
  BY Zenon
<1> HIDE DEF a, b, h
<1>4. ASSUME NEW j \in E PROVE j \in Nat /\ j <= t /\ h <= j
  <2>1. j \in i..t /\ Wire[j].u = "end"
    BY Zenon
  <2>2. j \in Nat /\ j <= t
    BY <2>1
  <2>3. ASSUME j < h PROVE FALSE
    <3>1. j \in (a + 1)..b /\ j # h
      BY <1>1, <1>3, <2>1, <2>3
    <3> QED
      BY Zenon, <1>2, <2>1, <3>1 DEF At
  <2> QED
    BY <1>1, <2>2, <2>3
<1>5. ASSUME h <= t PROVE h \in E
  <2>1. h \in i..t /\ h \in (a + 1)..b
    BY <1>1, <1>3, <1>5
  <2> QED
    BY Zenon, <1>2, <2>1 DEF At
<1>6. E # {} => h <= t
  BY <1>1, <1>4
<1>7. E # {} => Min(E) = h
  <2>1. E \subseteq Nat
    BY Zenon, <1>4
  <2> QED
    BY Zenon, <1>4, <1>5, <1>6, <2>1, MinIs
<1>8. (h <= t) <=> ~(t < h)
  BY <1>1
<1> QED
  BY Zenon, <1>5, <1>6, <1>7, <1>8 DEF h

(* Where a request begins, where its head ends and where it ends.           *)
LEMMA Bounds ==
  ASSUME requests \in Workloads, NEW k \in 1..Total
  PROVE  /\ k - 1 \in 0..Total /\ k \in 0..Total /\ EndOf(k - 1) \in Nat /\ EndOf(k) \in Nat /\ HeadEnd(k) \in Nat
         /\ requests[k].len \in Nat /\ EndOf(k - 1) + 2 < HeadEnd(k) /\ HeadEnd(k) + requests[k].len = EndOf(k)
         /\ EndOf(k) <= Len(Wire) /\ Len(Wire) \in Nat
<1>1. k - 1 \in 0..Total /\ k \in 0..Total
  BY WirePlaces DEF OnWire
<1>2. EndOf(k - 1) \in 0..Len(Wire) /\ EndOf(k) \in 0..Len(Wire) /\ Len(Wire) \in Nat
  BY Zenon, <1>1, WirePlaces DEF OnWire
<1>3. /\ requests[k].len \in Nat /\ HeadEnd(k) \in Nat /\ EndOf(k - 1) + 2 < HeadEnd(k)
      /\ HeadEnd(k) + requests[k].len = EndOf(k)
  BY Zenon, WirePlaces DEF Within
<1>4. EndOf(k - 1) \in Nat /\ EndOf(k) \in Nat /\ EndOf(k) <= Len(Wire)
  BY <1>2
<1> QED
  BY Zenon, <1>1, <1>2, <1>3, <1>4

(* A request that begins behind the header of the k-th is a later one.      *)
LEMMA Later ==
  ASSUME requests \in Workloads, NEW k \in 0..Total, NEW j \in 1..Total, HeadEnd(k) <= EndOf(j - 1)
  PROVE  k < j
<1>1. SUFFICES ASSUME j <= k PROVE FALSE
  BY WirePlaces DEF OnWire
<1>2. k \in 1..Total /\ j - 1 <= k - 1
  BY <1>1, WirePlaces DEF OnWire
<1>3. j - 1 \in 0..Total /\ k - 1 \in 0..Total /\ EndOf(k - 1) + 2 < HeadEnd(k) /\ EndOf(j - 1) \in Nat
      /\ EndOf(k - 1) \in Nat /\ HeadEnd(k) \in Nat
  BY Zenon, <1>2, Bounds
<1>4. EndOf(j - 1) <= EndOf(k - 1)
  BY Zenon, <1>2, <1>3, WirePlaces DEF OnWire
<1> QED
  BY <1>3, <1>4

(* BodyBehind the header of the k-th and not behind its end, a request begins   *)
(* only at its end.                                                         *)
LEMMA NextStart ==
  ASSUME requests \in Workloads, NEW k \in 0..Total, NEW i \in 1..Len(Wire), HeadEnd(k) <= i - 1, i - 1 <= EndOf(k),
         Wire[i].u = "line1"
  PROVE  Wire[i].req = k + 1
<1>1. Wire[i].req \in 1..Total /\ EndOf(Wire[i].req - 1) + 1 = i
  BY Zenon, LineStarts
<1> DEFINE j == Wire[i].req
<1>2. EndOf(j - 1) \in Nat /\ EndOf(j) \in Nat /\ EndOf(j - 1) + 2 < EndOf(j) /\ j - 1 \in 0..Total
  <2> HIDE DEF j
  <2>1. j \in 1..Total
    BY Zenon, <1>1 DEF j
  <2>2. /\ EndOf(j - 1) \in Nat /\ EndOf(j) \in Nat /\ HeadEnd(j) \in Nat /\ j - 1 \in 0..Total
        /\ requests[j].len \in Nat /\ EndOf(j - 1) + 2 < HeadEnd(j) /\ HeadEnd(j) + requests[j].len = EndOf(j)
    BY Zenon, <2>1, Bounds
  <2> QED
    BY SMTT(60), <2>2
<1>3. j \in 1..Total /\ EndOf(j - 1) = i - 1
  BY <1>1, <1>2
<1> HIDE DEF j
<1>4. k < j
  <2>1. HeadEnd(k) <= EndOf(j - 1)
    BY Zenon, <1>3
  <2> QED
    BY Zenon, <1>3, <2>1, Later
<1>5. ASSUME k < j - 1 PROVE FALSE
  <2> DEFINE l == k + 1
  <2>1. l \in 1..Total /\ l <= j - 1 /\ l - 1 = k
    BY <1>3, <1>5, WirePlaces DEF OnWire
  <2>2. /\ EndOf(l - 1) \in Nat /\ EndOf(l) \in Nat /\ HeadEnd(l) \in Nat /\ l \in 0..Total
        /\ requests[l].len \in Nat /\ EndOf(l - 1) + 2 < HeadEnd(l) /\ HeadEnd(l) + requests[l].len = EndOf(l)
    <3> HIDE DEF l
    <3> QED
      BY Zenon, <2>1, Bounds
  <2> HIDE DEF l
  <2>3. EndOf(l) <= EndOf(j - 1)
    BY Zenon, <1>2, <2>1, <2>2, WirePlaces DEF OnWire
  <2> DEFINE x == EndOf(k)  y == EndOf(l)  z == EndOf(j - 1)  g == HeadEnd(l)  len == requests[l].len
  <2>4. /\ x \in Nat /\ y \in Nat /\ g \in Nat /\ len \in Nat /\ x + 2 < g /\ g + len = y /\ y <= z /\ z = i - 1
        /\ i - 1 <= x /\ z \in Nat
    BY ZenonT(60), <1>2, <1>3, <2>1, <2>2, <2>3
  <2> HIDE DEF x, y, z, g, len
  <2> QED
    BY <2>4
<1>6. j = k + 1
  BY <1>3, <1>4, <1>5, WirePlaces DEF OnWire
<1> QED
  BY Zenon, <1>6 DEF j

(* A part of a sequence.                                                    *)
IsPart(b, w, h, n, S) == b \in Seq(S) /\ Len(b) = n /\ \A i \in 1..n : b[i] = w[h + i]

(* A part of a sequence by its place.                                       *)
LEMMA Taken ==
  ASSUME NEW S, NEW w \in Seq(S), NEW h \in Nat, NEW n \in Nat, h + n <= Len(w)
  PROVE  IsPart(SubSeq(w, h + 1, h + n), w, h, n, S)
<1> DEFINE b == SubSeq(w, h + 1, h + n)
<1>1. b \in Seq(S) /\ Len(b) = n
  BY SMTT(30)
<1>2. ASSUME NEW i \in 1..n PROVE b[i] = w[h + i]
  BY SMTT(30), <1>2
<1> QED
  BY Zenon, <1>1, <1>2 DEF IsPart

(* What follows the header of the k-th request is its body.                 *)
BodyBehind(b, k, n, len) ==
  /\ requests \in Workloads /\ k \in 1..Total /\ n \in Nat /\ len \in 0..n /\ len <= requests[k].len
  /\ HeadEnd(k) + n <= Len(Wire) /\ b = SubSeq(Wire, HeadEnd(k) + 1, HeadEnd(k) + n)
BodyIs(b, k, len) == SubSeq(b, 1, len) = [i \in 1..len |-> [req |-> k, u |-> "body"]]

(* The bytes behind a head are the body of that request, as far as that     *)
(* goes.                                                                    *)
LEMMA BodyPart ==
  ASSUME NEW k, NEW n, NEW len, NEW b, BodyBehind(b, k, n, len)
  PROVE  BodyIs(b, k, len)
<1> /\ requests \in Workloads /\ k \in 1..Total /\ n \in Nat /\ len \in 0..n /\ len <= requests[k].len
    /\ HeadEnd(k) + n <= Len(Wire) /\ b = SubSeq(Wire, HeadEnd(k) + 1, HeadEnd(k) + n)
  BY Zenon DEF BodyBehind
<1> DEFINE h == HeadEnd(k)  unit == [req |-> k, u |-> "body"]  w == Wire
<1>1. /\ h \in Nat /\ requests[k].len \in Nat /\ EndOf(k - 1) + 2 < h /\ h + requests[k].len = EndOf(k)
      /\ EndOf(k - 1) \in Nat /\ EndOf(k) \in Nat /\ Len(w) \in Nat
  BY Zenon, Bounds
<1>2. w \in Seq(Unit)
  BY Zenon, WirePlaces DEF OnWire
<1>3. ASSUME NEW i \in 1..len PROVE w[h + i] = unit
  <2>1. h + i \in (EndOf(k - 1) + 1)..EndOf(k) /\ h + i > h
    <3> DEFINE x == EndOf(k - 1)  y == EndOf(k)  l == requests[k].len
    <3>1. h \in Nat /\ l \in Nat /\ x \in Nat /\ y \in Nat /\ x + 2 < h /\ h + l = y /\ len <= l
      BY Zenon, <1>1
    <3> HIDE DEF h, x, y, l
    <3>2. h + i \in (x + 1)..y /\ h + i > h
      BY <3>1
    <3> QED
      BY Zenon, <3>2 DEF x, y
  <2> QED
    BY Zenon, <2>1, WirePlaces DEF Within, At
<1>4. b = SubSeq(w, h + 1, h + n) /\ h + n <= Len(w)
  BY Zenon
<1> HIDE DEF h, unit, w
<1>5. b \in Seq(Unit) /\ Len(b) = n /\ \A i \in 1..n : b[i] = w[h + i]
  <2>1. IsPart(SubSeq(w, h + 1, h + n), w, h, n, Unit)
    BY Zenon, <1>1, <1>2, <1>4, Taken
  <2> QED
    BY Zenon, <1>4, <2>1 DEF IsPart
<1>6. ASSUME NEW i \in 1..len PROVE b[i] = unit
  <2>1. i \in 1..n
    OBVIOUS
  <2> QED
    BY Zenon, <1>3, <1>5, <2>1
<1>7. SubSeq(b, 1, len) = [i \in 1..len |-> unit]
  BY SMTT(60), <1>5, <1>6
<1> QED
  BY Zenon, <1>7 DEF unit, BodyIs

-----------------------------------------------------------------------------
(* The invariant is inductive.                                              *)
LEMMA SameWire ==
  ASSUME requests' = requests
  PROVE  Wire' = Wire /\ Total' = Total /\ (\A k : EndOf(k)' = EndOf(k)) /\ \A k : HeadEnd(k)' = HeadEnd(k)
<1>1. Wire' = Wire /\ Total' = Total /\ \A k : EndOf(k)' = EndOf(k)
  BY Zenon DEF Wire, Total, EndOf
<1> QED
  BY Zenon, <1>1 DEF HeadEnd

(* The length that recvRequest uses is the one that was sent, unless a cut  *)
(* lost it.                                                                 *)
LEMMA LengthIs ==
  ASSUME requests \in Workloads, NEW r, r.k \in 1..Total
  PROVE  Length(r) \in Nat /\ Length(r) <= requests[r.k].len /\ ("len" \notin r.lost => Length(r) = requests[r.k].len)
<1>1. requests[r.k].len \in Nat
  BY Zenon, Bounds
<1>2. CASE "len" \in r.lost
  <2>1. Length(r) = 0
    BY Zenon, <1>2 DEF Length
  <2> QED
    BY <1>1, <1>2, <2>1
<1>3. CASE "len" \notin r.lost
  <2>1. Length(r) = requests[r.k].len
    BY Zenon, <1>3 DEF Length
  <2> QED
    BY <1>1, <2>1
<1> QED
  BY Zenon, <1>2, <1>3

(* The session starts with nothing sent.                                    *)
LEMMA HttpInitIInv ==
  ASSUME HttpInit
  PROVE  HttpIInv
<1>1. requests \in Workloads
  BY Zenon DEF HttpInit
<1>2. Total \in Nat /\ Len(Wire) \in Nat
  BY Zenon, <1>1, WirePlaces DEF OnWire
<1>3. req.k = 0 /\ req.lost = {} /\ req \in [k : 0..Total, lost : SUBSET {"line", "len", "ka"}]
  BY <1>2 DEF HttpInit, NoReq
<1>4. handled = <<>> /\ Len(handled) = 0 /\ body = <<>>
  BY DEF HttpInit
<1>5. TypeInv
  <2>1. 0 \in 0..Len(Wire) /\ 0 \in 0..0 /\ 0 \in Nat
    BY <1>2
  <2>2. ASSUME NEW S PROVE <<>> \in Seq(S)
    OBVIOUS
  <2>3. "read" # "execute" /\ "read" \notin {"body", "handle", "write"}
    OBVIOUS
  <2>4. handled \in Seq([k : Nat, lost : SUBSET {"line", "len", "ka"}, body : Seq(Unit)]) /\ body \in Seq(Unit)
    BY Zenon, <1>4, <2>2
  <2>5. harm = {} /\ pos = "read"
    BY Zenon DEF HttpInit
  <2> QED
    BY Zenon, <1>1, <1>3, <2>1, <2>3, <2>4, <2>5 DEF HttpInit, TypeInv
<1>6. CountInv
  BY <1>2, <1>3, <1>4 DEF HttpInit, CountInv, Answered, Opened, Between, Reading
<1>7. PlaceInv
  BY <1>3 DEF HttpInit, PlaceInv, Opened, Between, Reading, Base, HeadEnd
<1>8. BodyInv
  BY Zenon DEF HttpInit, BodyInv
<1>9. ExactInv
  BY <1>3, <1>4 DEF HttpInit, ExactInv, Opened, Between, Reading, Base, HeadEnd
<1> QED
  BY Zenon, <1>5, <1>6, <1>7, <1>8, <1>9 DEF HttpIInv

(* The client.                                                              *)
LEMMA ServerStays ==
  ASSUME UNCHANGED <<requests, serverVars, harm>>
  PROVE  PlaceInv' = PlaceInv /\ BodyInv' = BodyInv /\ ExactInv' = ExactInv
<1>1. /\ taken' = taken /\ pos' = pos /\ first' = first /\ begun' = begun /\ req' = req /\ offset' = offset
      /\ left' = left /\ body' = body /\ handled' = handled /\ requests' = requests /\ harm' = harm
  BY Zenon DEF serverVars
<1>2. Reading' = Reading /\ Base' = Base
  BY Zenon, <1>1 DEF Reading, Base
<1>3. Opened' = Opened /\ Between' = Between
  BY Zenon, <1>1, <1>2 DEF Opened, Between
<1>4. Length(req)' = Length(req) /\ Wire' = Wire /\ \A k : EndOf(k)' = EndOf(k) /\ HeadEnd(k)' = HeadEnd(k)
  BY Zenon, <1>1, SameWire DEF Length
<1>5. \A n : Straddled(n)' = Straddled(n)
  BY Zenon, <1>1 DEF Straddled
<1> QED
  BY Zenon, <1>1, <1>2, <1>3, <1>4, <1>5 DEF PlaceInv, BodyInv, ExactInv

(* The client sends, or leaves.                                             *)
LEMMA ClientIInv ==
  ASSUME HttpIInv, Leave \/ \E n \in 1..MaxSegment : Send(n)
  PROVE  HttpIInv'
<1>1. UNCHANGED <<requests, serverVars, harm>> /\ answers' = answers
  BY Zenon DEF Leave, Send
<1>2. /\ taken' = taken /\ pos' = pos /\ first' = first /\ begun' = begun /\ req' = req /\ offset' = offset
      /\ left' = left /\ body' = body /\ handled' = handled /\ requests' = requests /\ harm' = harm
  BY Zenon, <1>1 DEF serverVars
<1>3. Wire' = Wire /\ Total' = Total
  BY Zenon, <1>2, SameWire
<1>4. eof' \in BOOLEAN /\ (~eof' => ~eof)
  BY Zenon DEF Leave, Send, HttpIInv, TypeInv
<1>5. requests \in Workloads /\ sent \in 0..Len(Wire) /\ taken \in 0..sent /\ answers \in Nat
  BY Zenon DEF HttpIInv, TypeInv
<1>6. OnWire
  BY Zenon, <1>5, WirePlaces
<1>7. sent' \in 0..Len(Wire) /\ taken \in 0..sent'
  <2>1. CASE Leave
    BY Zenon, <1>5, <2>1 DEF Leave
  <2>2. CASE \E n \in 1..MaxSegment : Send(n)
    <3>1. PICK n \in 1..MaxSegment : sent' = sent + n /\ sent + n <= MaySend
      BY Zenon, <2>2 DEF Send
    <3>2. MaySend <= Len(Wire) /\ MaySend \in Nat
      <4>1. sent <= Len(Wire) /\ Len(Wire) <= Len(Wire) /\ sent \in Nat /\ Len(Wire) \in Nat
        BY <1>5, <1>6 DEF OnWire
      <4>2. ASSUME answers < Total PROVE EndOf(answers + 1) <= Len(Wire) /\ EndOf(answers + 1) \in Nat
        <5>1. answers + 1 \in 1..Total
          BY <1>5, <1>6, <4>2 DEF OnWire
        <5> QED
          BY Zenon, <1>5, <5>1, Bounds
      <4> QED
        BY Zenon, <4>1, <4>2 DEF MaySend, Total
    <3>3. n \in Nat
      OBVIOUS
    <3>4. Len(Wire) \in Nat
      BY Zenon, <1>6 DEF OnWire
    <3> DEFINE may == MaySend  len == Len(Wire)
    <3>5. may <= len /\ may \in Nat /\ len \in Nat /\ sent + n <= may /\ sent \in 0..len /\ taken \in 0..sent
      BY Zenon, <1>5, <3>1, <3>2, <3>4
    <3> HIDE DEF may, len
    <3>6. sent + n \in 0..len /\ taken \in 0..(sent + n)
      BY <3>3, <3>5
    <3> QED
      BY Zenon, <3>1, <3>6 DEF len
  <2> QED
    BY Zenon, <2>1, <2>2
<1>8. TypeInv'
  BY Zenon, <1>1, <1>2, <1>3, <1>4, <1>5, <1>7 DEF HttpIInv, TypeInv
<1>9. CountInv'
  <2>1. Opened' = Opened /\ Between' = Between /\ Answered' = Answered
    BY Zenon, <1>2 DEF Opened, Between, Reading, Answered
  <2> QED
    BY Zenon, <1>1, <1>2, <1>3, <1>4, <2>1 DEF HttpIInv, CountInv
<1> QED
  BY Zenon, <1>1, <1>8, <1>9, ServerStays DEF HttpIInv

(* The end of the session.                                                  *)
LEMMA CloseIInv ==
  ASSUME HttpIInv, readFails \/ executeFails
  PROVE  HttpIInv'
<1>1. /\ requests' = requests /\ sent' = sent /\ eof' = eof /\ answers' = answers /\ taken' = taken
      /\ first' = first /\ begun' = begun /\ req' = req /\ offset' = offset /\ left' = left /\ body' = body
      /\ handled' = handled /\ pos' = "closed" /\ pos # "write"
  BY Zenon DEF readFails, executeFails, clientVars
<1>2. Wire' = Wire /\ Total' = Total
  BY Zenon, <1>1, SameWire
<1>3. harm' \subseteq {"slow", "cut", "leftover", "straddled"} /\ harm \subseteq harm'
  BY Zenon DEF readFails, executeFails, HttpIInv, TypeInv
<1>4. ~Opened' /\ ~Between' /\ pos' \notin {"body", "handle", "write", "execute"} /\ ~Reading'
  BY <1>1 DEF Opened, Between, Reading
<1>5. TypeInv'
  <2>1. (req.lost # {} => "cut" \in harm') /\ "closed" \in {"read", "execute", "body", "handle", "write", "closed"}
    BY Zenon, <1>3 DEF HttpIInv, TypeInv
  <2>2. pos' # "execute"
    BY <1>1
  <2> QED
    BY Zenon, <1>1, <1>2, <1>3, <1>4, <2>1, <2>2 DEF HttpIInv, TypeInv
<1>6. CountInv'
  <2>1. Answered' = Answered
    BY <1>1 DEF Answered
  <2> QED
    BY Zenon, <1>1, <1>2, <1>4, <2>1 DEF HttpIInv, CountInv
<1>7. PlaceInv' /\ BodyInv'
  BY Zenon, <1>4 DEF PlaceInv, BodyInv
<1>8. ExactInv'
  <2>1. pos' # "handle"
    BY <1>1
  <2>2. harm' \cap Misread = {} => harm \cap Misread = {}
    BY Zenon, <1>3
  <2> QED
    BY Zenon, <1>1, <1>4, <2>1, <2>2 DEF HttpIInv, ExactInv
<1> QED
  BY Zenon, <1>5, <1>6, <1>7, <1>8 DEF HttpIInv

(* What a read gives.                                                       *)
LEMMA DataIs ==
  ASSUME NEW n \in Nat, n > 0, sent \in Nat, taken \in Nat, taken <= sent, Available > 0
  PROVE  Data(n) \in 1..n /\ taken + Data(n) <= sent
<1>1. Available = sent - taken /\ Available \in Nat
  BY DEF Available
<1> DEFINE a == Available
<1>2. a \in Nat /\ a > 0 /\ a = sent - taken
  BY <1>1
<1> HIDE DEF a
<1>3. Min({a, n}) = IF a <= n THEN a ELSE n
  <2> DEFINE m == IF a <= n THEN a ELSE n
             S == {a, n}
  <2>1. m \in S /\ S \subseteq Nat /\ \A x \in S : m <= x
    BY <1>2
  <2> HIDE DEF m, S
  <2>2. Min(S) = m
    BY Zenon, <2>1, MinIs
  <2> QED
    BY Zenon, <2>2 DEF m, S
<1>4. Data(n) = Min({a, n})
  BY Zenon DEF Data, a
<1> DEFINE d == Data(n)
<1>5. d = IF a <= n THEN a ELSE n
  BY Zenon, <1>3, <1>4
<1> HIDE DEF d
<1>6. d \in 1..n /\ taken + d <= sent
  BY <1>2, <1>5
<1> QED
  BY Zenon, <1>6 DEF d

(* The session reads what has arrived into its buffer (http_session.cc,     *)
(* recvRequest).                                                            *)
LEMMA readIInv ==
  ASSUME HttpIInv, read
  PROVE  HttpIInv'
<1>1. /\ requests' = requests /\ sent' = sent /\ eof' = eof /\ answers' = answers
      /\ begun' = begun /\ req' = req /\ offset' = offset /\ left' = left /\ body' = body
      /\ handled' = handled /\ harm' = harm /\ pos = "read" /\ pos' = "execute"
      /\ first' = taken + 1 /\ taken' = taken + Data(RequestBuffer) /\ Available > 0
  BY Zenon DEF read, clientVars
<1>2. Wire' = Wire /\ Total' = Total /\ (\A k : EndOf(k)' = EndOf(k)) /\ \A k : HeadEnd(k)' = HeadEnd(k)
  BY Zenon, <1>1, SameWire
<1>3. sent \in 0..Len(Wire) /\ taken \in 0..sent
  BY Zenon DEF HttpIInv, TypeInv
<1>4. taken' \in 0..sent /\ first' \in 1..taken' /\ first' - 1 = taken
  <2>1. RequestBuffer \in Nat /\ RequestBuffer > 0
    BY HttpAssumption
  <2>2. sent \in Nat /\ taken \in Nat /\ taken <= sent
    BY <1>3
  <2>3. Data(RequestBuffer) \in 1..RequestBuffer /\ taken + Data(RequestBuffer) <= sent
    BY Zenon, <1>1, <2>1, <2>2, DataIs
  <2> QED
    BY <1>1, <2>1, <2>2, <2>3
<1>5. Reading /\ Reading' /\ Base = taken /\ Base' = taken
  BY <1>1, <1>4 DEF Reading, Base
<1>6. Opened' = Opened /\ Between' = Between /\ Opened = begun /\ Between = ~begun
  BY Zenon, <1>1, <1>5 DEF Opened, Between, HttpIInv, TypeInv
<1>7. pos' \notin {"body", "handle", "write"} /\ Answered' = Answered /\ pos' # "handle"
  BY <1>1 DEF Answered
<1>8. TypeInv'
  BY Zenon, <1>1, <1>2, <1>4, <1>7 DEF HttpIInv, TypeInv
<1>9. CountInv'
  BY Zenon, <1>1, <1>2, <1>6, <1>7 DEF HttpIInv, CountInv
<1>10. PlaceInv'
  BY Zenon, <1>1, <1>2, <1>5, <1>6 DEF HttpIInv, PlaceInv
<1>11. BodyInv'
  BY Zenon, <1>7 DEF BodyInv
<1>12. ExactInv'
  <2>1. Length(req)' = Length(req)
    BY Zenon, <1>1 DEF Length
  <2> QED
    BY Zenon, <1>1, <1>2, <1>5, <1>6, <1>7, <2>1 DEF HttpIInv, ExactInv
<1> QED
  BY Zenon, <1>8, <1>9, <1>10, <1>11, <1>12 DEF HttpIInv

(* The request in the parser when execute has something of a header: it is  *)
(* a later one than the last, and the next one as long as none was misread. *)
LEMMA Parsed ==
  ASSUME HttpIInv, Valid
  PROVE  /\ Parsing \in [k : 1..Total, lost : SUBSET {"line", "len", "ka"}] /\ (Parsing.lost # {} => "cut" \in harm)
         /\ EndOf(Parsing.k - 1) < first /\ first <= HeadEnd(Parsing.k) /\ first \in 1..taken
         /\ Parsing.k > Len(handled) /\ (harm \cap Misread = {} => Parsing.k = Len(handled) + 1)
         /\ (Ends = {} <=> taken < HeadEnd(Parsing.k)) /\ (Ends # {} => Min(Ends) = HeadEnd(Parsing.k))
<1>1. pos = "execute" /\ (begun \/ Wire[first].u = "line1")
  BY Zenon DEF Valid
<1>2. /\ requests \in Workloads /\ begun \in BOOLEAN /\ sent \in 0..Len(Wire) /\ taken \in 0..sent
      /\ first \in 1..taken /\ req \in [k : 0..Total, lost : SUBSET {"line", "len", "ka"}]
      /\ (req.lost # {} => "cut" \in harm) /\ Len(handled) <= Total
  BY Zenon, <1>1 DEF HttpIInv, TypeInv, CountInv
<1>3. Total \in Nat /\ Len(Wire) \in Nat
  BY Zenon, <1>2, WirePlaces DEF OnWire
<1>4. first \in Nat /\ taken \in 0..Len(Wire) /\ first \in 1..Len(Wire)
  BY <1>2, <1>3
<1>5. Reading /\ Base = first - 1 /\ Len(handled) \in Nat
  <2>1. handled \in Seq([k : Nat, lost : SUBSET {"line", "len", "ka"}, body : Seq(Unit)])
    BY Zenon DEF HttpIInv, TypeInv
  <2>2. ASSUME NEW S, NEW x \in Seq(S) PROVE Len(x) \in Nat
    OBVIOUS
  <2>3. Len(handled) \in Nat
    BY Zenon, <2>1, <2>2
  <2>4. Reading /\ Base = first - 1
    BY Zenon, <1>1 DEF Reading, Base
  <2> QED
    BY Zenon, <2>3, <2>4
<1> DEFINE k == Parsing.k
           lost == Parsing.lost
           H == harm \cap Misread = {}
<1>6. CASE begun
  <2>1. Parsing = req
    BY Zenon, <1>6 DEF Parsing
  <2>2. Opened
    BY Zenon, <1>5, <1>6 DEF Opened
  <2>3. req.k > 0 /\ EndOf(req.k - 1) < first - 1 /\ first - 1 < HeadEnd(req.k)
    BY Zenon, <1>5, <2>2 DEF HttpIInv, PlaceInv
  <2>4. req.k > Len(handled) /\ (H => req.k = Len(handled) + 1)
    BY Zenon, <2>2 DEF HttpIInv, CountInv, ExactInv
  <2>5. req.k \in 1..Total /\ req.lost \in SUBSET {"line", "len", "ka"}
    BY <1>2, <1>3, <2>3
  <2>6. EndOf(req.k - 1) \in Nat /\ HeadEnd(req.k) \in Nat
    BY Zenon, <1>2, <2>5, Bounds
  <2>7. EndOf(req.k - 1) < first /\ first <= HeadEnd(req.k)
    BY <1>4, <2>3, <2>6
  <2>8. req \in [k : 1..Total, lost : SUBSET {"line", "len", "ka"}]
    BY <1>2, <2>5
  <2>9. (Ends = {} <=> taken < HeadEnd(req.k)) /\ (Ends # {} => Min(Ends) = HeadEnd(req.k))
    BY Zenon, <1>2, <1>4, <2>5, <2>7, HeaderEnds DEF Ends
  <2> QED
    BY Zenon, <1>2, <2>1, <2>4, <2>7, <2>8, <2>9
<1>7. CASE ~begun
  <2> DEFINE j == Wire[first].req
  <2>1. Parsing = [k |-> j, lost |-> {}] /\ Wire[first].u = "line1"
    BY Zenon, <1>1, <1>7 DEF Parsing
  <2>2. j \in 1..Total /\ EndOf(j - 1) + 1 = first
    BY Zenon, <1>2, <1>4, <2>1, LineStarts
  <2>3. Parsing.k = j /\ Parsing.lost = {} /\ Parsing \in [k : 1..Total, lost : SUBSET {"line", "len", "ka"}]
    <3> HIDE DEF j
    <3> QED
      BY <2>1, <2>2
  <2> HIDE DEF j
  <2>4. EndOf(j - 1) \in Nat /\ HeadEnd(j) \in Nat /\ EndOf(j - 1) + 2 < HeadEnd(j)
    BY Zenon, <1>2, <2>2, Bounds
  <2>5. EndOf(j - 1) < first /\ first <= HeadEnd(j) /\ EndOf(j - 1) = first - 1
    BY <2>2, <2>4
  <2>6. Between /\ req.k \in 0..Total
    BY Zenon, <1>2, <1>5, <1>7 DEF Between
  <2>7. HeadEnd(req.k) <= first - 1 /\ req.k >= Len(handled)
    BY Zenon, <1>5, <2>6 DEF HttpIInv, PlaceInv, CountInv
  <2>8. req.k < j
    <3>1. HeadEnd(req.k) <= EndOf(j - 1)
      BY Zenon, <2>5, <2>7
    <3> QED
      BY Zenon, <1>2, <2>2, <2>6, <3>1, Later
  <2>9. ASSUME H PROVE j = Len(handled) + 1
    <3>1. req.k = Len(handled) /\ first - 1 = HeadEnd(req.k) + (IF req.k = 0 THEN 0 ELSE Length(req))
      BY Zenon, <1>5, <2>6, <2>9 DEF HttpIInv, ExactInv
    <3>2. first - 1 <= EndOf(req.k)
      <4>1. CASE req.k = 0
        <5>1. HeadEnd(req.k) = 0 /\ EndOf(req.k) = 0
          BY Zenon, <1>2, <4>1, WirePlaces DEF HeadEnd, OnWire
        <5> QED
          BY <3>1, <4>1, <5>1
      <4>2. CASE req.k # 0
        <5>1. req.k \in 1..Total
          BY <1>3, <2>6, <4>2
        <5>2. Length(req) \in Nat /\ Length(req) <= requests[req.k].len
          BY Zenon, <1>2, <5>1, LengthIs
        <5>3. HeadEnd(req.k) + requests[req.k].len = EndOf(req.k) /\ requests[req.k].len \in Nat /\ HeadEnd(req.k) \in Nat
          BY Zenon, <1>2, <5>1, Bounds
        <5> DEFINE x == Length(req)  y == requests[req.k].len  z == HeadEnd(req.k)  e == EndOf(req.k)
        <5>4. x \in Nat /\ x <= y /\ z + y = e /\ y \in Nat /\ z \in Nat /\ first - 1 = z + x
          BY Zenon, <3>1, <4>2, <5>2, <5>3
        <5> HIDE DEF x, y, z, e
        <5>5. first - 1 <= e
          BY <5>4
        <5> QED
          BY Zenon, <5>5 DEF e
      <4> QED
        BY Zenon, <4>1, <4>2
    <3>3. Wire[first].req = req.k + 1
      BY ZenonT(60), <1>2, <1>4, <2>1, <2>6, <2>7, <3>2, NextStart
    <3> QED
      BY Zenon, <3>1, <3>3 DEF j
  <2>10. j > Len(handled)
    BY <1>5, <2>2, <2>6, <2>7, <2>8
  <2>11. (Ends = {} <=> taken < HeadEnd(j)) /\ (Ends # {} => Min(Ends) = HeadEnd(j))
    BY ZenonT(60), <1>2, <1>4, <2>2, <2>5, HeaderEnds DEF Ends
  <2> QED
    BY Zenon, <1>2, <2>3, <2>5, <2>9, <2>10, <2>11
<1> QED
  BY Zenon, <1>6, <1>7

(* execute has not seen the end of the head.                                *)
LEMMA executeOpenIInv ==
  ASSUME HttpIInv, executeOpen
  PROVE  HttpIInv'
<1> DEFINE P == Parsing  c == Cut(Wire[taken].u)
<1>1. /\ requests' = requests /\ sent' = sent /\ eof' = eof /\ answers' = answers /\ taken' = taken
      /\ first' = first /\ offset' = offset /\ left' = left /\ body' = body /\ handled' = handled
      /\ pos = "execute" /\ pos' = "read" /\ begun' = TRUE /\ Valid /\ Ends = {}
      /\ req' = [P EXCEPT !.lost = @ \cup c] /\ harm' = harm \cup (IF c # {} THEN {"cut"} ELSE {})
  BY Zenon DEF executeOpen, clientVars, Valid
<1>2. Wire' = Wire /\ Total' = Total /\ (\A k : EndOf(k)' = EndOf(k)) /\ \A k : HeadEnd(k)' = HeadEnd(k)
  BY Zenon, <1>1, SameWire
<1>3. /\ P \in [k : 1..Total, lost : SUBSET {"line", "len", "ka"}] /\ (P.lost # {} => "cut" \in harm)
      /\ EndOf(P.k - 1) < first /\ first \in 1..taken
      /\ P.k > Len(handled) /\ (harm \cap Misread = {} => P.k = Len(handled) + 1)
      /\ taken < HeadEnd(P.k)
  BY Zenon, <1>1, Parsed
<1>4. c \subseteq {"line", "len", "ka"}
  BY DEF Cut
<1> HIDE DEF P, c
<1>5. req' \in [k : 1..Total, lost : SUBSET {"line", "len", "ka"}] /\ req'.k = P.k /\ req'.lost = P.lost \cup c
  BY <1>1, <1>3, <1>4
<1>6. /\ requests \in Workloads /\ sent \in 0..Len(Wire) /\ taken \in 0..sent
      /\ harm \subseteq {"slow", "cut", "leftover", "straddled"}
  BY Zenon DEF HttpIInv, TypeInv
<1>7. Total \in Nat /\ Len(Wire) \in Nat
  BY Zenon, <1>6, WirePlaces DEF OnWire
<1>8. req' \in [k : 0..Total, lost : SUBSET {"line", "len", "ka"}] /\ req'.k > 0
  <2>1. 1..Total \subseteq 0..Total /\ \A x \in 1..Total : x > 0
    OBVIOUS
  <2>2. req'.k \in 1..Total
    BY Zenon, <1>5
  <2> QED
    BY <1>5, <2>1, <2>2
<1>9. harm' \subseteq {"slow", "cut", "leftover", "straddled"} /\ (req'.lost # {} => "cut" \in harm') /\ harm \subseteq harm'
  BY Zenon, <1>1, <1>3, <1>5, <1>6
<1>10. Opened' /\ ~Between' /\ Base' = taken
  BY <1>1 DEF Opened, Between, Reading, Base
<1>11. pos' \notin {"body", "handle", "write", "execute"} /\ Answered' = Answered /\ pos' # "handle" /\ pos' # "execute"
  BY <1>1 DEF Answered
<1>12. TypeInv'
  BY Zenon, <1>1, <1>2, <1>8, <1>9, <1>11 DEF HttpIInv, TypeInv
<1>13. CountInv'
  BY ZenonT(60), <1>1, <1>2, <1>3, <1>5, <1>10, <1>11 DEF HttpIInv, CountInv
<1>14. PlaceInv'
  <2>1. EndOf(P.k - 1) < taken
    <3>1. EndOf(P.k - 1) \in Nat
      BY Zenon, <1>3, <1>5, <1>6, Bounds
    <3> QED
      BY <1>3, <1>6, <1>7, <3>1
  <2> QED
    BY ZenonT(60), <1>2, <1>3, <1>5, <1>8, <1>10, <2>1 DEF PlaceInv
<1>15. BodyInv'
  BY Zenon, <1>11 DEF BodyInv
<1>16. ExactInv'
  <2>1. harm' \cap Misread = {} => harm \cap Misread = {}
    BY Zenon, <1>9
  <2> QED
    BY ZenonT(60), <1>1, <1>3, <1>5, <1>10, <1>11, <2>1 DEF HttpIInv, ExactInv
<1> QED
  BY Zenon, <1>12, <1>13, <1>14, <1>15, <1>16 DEF HttpIInv

(* The smaller of two numbers.                                              *)
LEMMA MinTwo ==
  ASSUME NEW a \in Nat, NEW n \in Nat
  PROVE  Min({a, n}) = IF a <= n THEN a ELSE n
<1> DEFINE m == IF a <= n THEN a ELSE n
           S == {a, n}
<1>1. m \in S /\ S \subseteq Nat /\ \A x \in S : m <= x
  OBVIOUS
<1> HIDE DEF m, S
<1>2. Min(S) = m
  BY ZenonT(60), <1>1, MinIs
<1> QED
  BY Zenon, <1>2 DEF m, S

(* execute has seen the end of the head: what is left in the buffer is the  *)
(* first part of the body.                                                  *)
LEMMA executeDoneIInv ==
  ASSUME HttpIInv, executeDone
  PROVE  HttpIInv'
<1> DEFINE P == Parsing  k == P.k  h == HeadEnd(k)  n == taken - h  len == Length(P)  m == Min({n, len})
<1>0. Valid /\ Ends # {}
  BY Zenon DEF executeDone
<1>1. /\ P \in [k : 1..Total, lost : SUBSET {"line", "len", "ka"}] /\ (P.lost # {} => "cut" \in harm)
      /\ k > Len(handled) /\ (harm \cap Misread = {} => k = Len(handled) + 1)
      /\ ~(taken < h) /\ Min(Ends) = h
  BY Zenon, <1>0, Parsed
<1>2. /\ requests' = requests /\ sent' = sent /\ eof' = eof /\ answers' = answers /\ taken' = taken
      /\ first' = first /\ handled' = handled /\ pos = "execute" /\ begun' = FALSE
      /\ req' = P /\ offset' = n /\ body' = SubSeq(Wire, h + 1, h + m)
      /\ pos' = (IF len > n THEN "body" ELSE "handle") /\ left' = (IF len > n THEN len ELSE 0)
      /\ harm' = harm \cup (IF n > len THEN {"leftover"} ELSE {})
                   \cup (IF 0 < n /\ n < len THEN {"straddled"} ELSE {})
  BY Zenon, <1>1 DEF executeDone, clientVars, Valid
<1>3. Wire' = Wire /\ Total' = Total /\ (\A x : EndOf(x)' = EndOf(x)) /\ \A x : HeadEnd(x)' = HeadEnd(x)
  BY Zenon, <1>2, SameWire
<1>4. /\ requests \in Workloads /\ sent \in 0..Len(Wire) /\ taken \in 0..sent
      /\ harm \subseteq {"slow", "cut", "leftover", "straddled"}
  BY Zenon DEF HttpIInv, TypeInv
<1>5. Total \in Nat /\ Len(Wire) \in Nat /\ Wire \in Seq(Unit)
  BY Zenon, <1>4, WirePlaces DEF OnWire
<1>6. k \in 1..Total /\ k > 0 /\ P \in [k : 0..Total, lost : SUBSET {"line", "len", "ka"}]
  <2>1. 1..Total \subseteq 0..Total /\ \A x \in 1..Total : x > 0
    OBVIOUS
  <2> HIDE DEF P
  <2>2. k \in 1..Total
    BY Zenon, <1>1
  <2> QED
    BY <1>1, <2>1, <2>2
<1>7. h \in Nat /\ len \in Nat
  BY Zenon, <1>4, <1>6, Bounds, LengthIs
<1>8. Length(req)' = len
  BY Zenon, <1>2 DEF Length
<1> HIDE DEF P, k, h, len
<1>9. n \in Nat /\ taken = h + n /\ taken \in Nat /\ taken <= Len(Wire)
  BY <1>1, <1>4, <1>5, <1>7
<1> HIDE DEF n
<1>10. m = IF n <= len THEN n ELSE len
  BY Zenon, <1>7, <1>9, MinTwo
<1> HIDE DEF m
<1>11. m \in Nat /\ h + m <= taken /\ h + m <= Len(Wire)
  BY <1>5, <1>7, <1>9, <1>10
<1>12. body' \in Seq(Unit) /\ Len(body') = m
  BY ZenonT(60), <1>2, <1>5, <1>7, <1>11, Taken DEF IsPart
<1>13. /\ (len > n => /\ pos' = "body" /\ left' = len /\ len \in 1..len /\ n < len /\ m = n + (len - len) /\ taken = h + m
                      /\ (n > 0 => "straddled" \in harm'))
       /\ (~(len > n) => pos' = "handle" /\ left' = 0 /\ m = len /\ ~(n < len) /\ (taken = h + len \/ "leftover" \in harm'))
  <2>1. CASE len > n
    <3>1. n < len /\ m = n + (len - len) /\ taken = h + m /\ len \in 1..len /\ (n > 0 <=> 0 < n)
      BY <1>7, <1>9, <1>10, <2>1
    <3> QED
      BY Zenon, <1>2, <2>1, <3>1
  <2>2. CASE ~(len > n)
    <3>1. m = len /\ ~(n < len) /\ (n > len \/ taken = h + len)
      BY <1>7, <1>9, <1>10, <2>2
    <3> QED
      BY Zenon, <1>2, <2>2, <3>1
  <2> QED
    BY Zenon, <2>1, <2>2
<1>14. pos' \in {"body", "handle"} /\ pos' # "execute" /\ pos' # "write" /\ "body" # "handle"
  BY <1>13
<1>15. harm' \subseteq {"slow", "cut", "leftover", "straddled"} /\ harm \subseteq harm'
  BY Zenon, <1>2, <1>4
<1>16. ~Opened' /\ ~Between' /\ Base' = taken
  BY <1>2, <1>14 DEF Opened, Between, Reading, Base
<1>17. TypeInv'
  <2>1. left' \in Nat /\ pos' \in {"read", "execute", "body", "handle", "write", "closed"}
    BY Zenon, <1>7, <1>13, <1>14, 0 \in Nat
  <2>2. req' \in [k : 0..Total, lost : SUBSET {"line", "len", "ka"}] /\ (req'.lost # {} => "cut" \in harm')
    BY Zenon, <1>1, <1>2, <1>6, <1>15
  <2> QED
    BY ZenonT(60), <1>2, <1>3, <1>9, <1>12, <1>14, <1>15, <2>1, <2>2 DEF HttpIInv, TypeInv
<1>18. CountInv'
  <2>1. Answered' = Answered
    BY <1>2, <1>14 DEF Answered
  <2>2. req'.k > Len(handled)
    BY Zenon, <1>1, <1>2 DEF k
  <2> QED
    BY ZenonT(60), <1>2, <1>3, <1>16, <2>1, <2>2 DEF HttpIInv, CountInv
<1>19. PlaceInv'
  BY Zenon, <1>16 DEF PlaceInv
<1>20. HeadEnd(req.k)' = h /\ req'.k = k
  BY Zenon, <1>2, <1>3 DEF h, k
<1>21. BodyInv'
  <2>2. body' = SubSeq(Wire', h + 1, h + m) /\ h + m <= taken' /\ req'.k > 0
    BY Zenon, <1>2, <1>3, <1>6, <1>11, <1>20
  <2>3. pos' = "body" => /\ left' \in 1..len /\ offset' < len /\ m = offset' + (len - left') /\ taken' = h + m
                         /\ (offset' > 0 => "straddled" \in harm')
    BY Zenon, <1>2, <1>13, <1>14
  <2>4. pos' = "handle" => m = IF 0 < offset' /\ offset' < len THEN len + offset' ELSE len
    BY Zenon, <1>2, <1>13, <1>14
  <2> QED
    BY ZenonT(60), <1>8, <1>12, <1>20, <2>2, <2>3, <2>4 DEF BodyInv, Straddled
<1>22. ExactInv'
  <2>1. harm' \cap Misread = {} => harm \cap Misread = {} /\ "leftover" \notin harm'
    BY Zenon, <1>15 DEF Misread
  <2>2. k # 0
    BY <1>6
  <2>3. harm' \cap Misread = {} /\ pos' = "handle" => taken = h + len
    BY Zenon, <1>13, <1>14, <2>1
  <2> QED
    BY ZenonT(60), <1>1, <1>2, <1>8, <1>14, <1>16, <1>20, <2>1, <2>2, <2>3 DEF HttpIInv, ExactInv
<1> QED
  BY Zenon, <1>17, <1>18, <1>19, <1>21, <1>22 DEF HttpIInv

(* Two parts of a sequence that meet.                                       *)
Meet(b, c, w, h, m, n, S) ==
  /\ w \in Seq(S) /\ h \in Nat /\ m \in Nat /\ n \in Nat /\ h + m + n <= Len(w)
  /\ b = SubSeq(w, h + 1, h + m) /\ c = SubSeq(w, h + m + 1, h + m + n)
Whole(u, w, h, t) == u = SubSeq(w, h + 1, h + t)

(* Two parts of the wire that meet are one part.                            *)
LEMMA Consecutive ==
  ASSUME NEW S, NEW w, NEW h, NEW m, NEW n, NEW b, NEW c, Meet(b, c, w, h, m, n, S)
  PROVE  Whole(b \o c, w, h, m + n)
<1> /\ w \in Seq(S) /\ h \in Nat /\ m \in Nat /\ n \in Nat /\ h + m + n <= Len(w)
    /\ b = SubSeq(w, h + 1, h + m) /\ c = SubSeq(w, h + m + 1, h + m + n)
  BY Zenon DEF Meet
<1> SUFFICES b \o c = SubSeq(w, h + 1, h + (m + n))
  BY Zenon DEF Whole
<1> DEFINE d == SubSeq(w, h + 1, h + (m + n))  g == h + m  t == m + n  u == b \o c
<1>1. h + m <= Len(w) /\ g \in Nat /\ g + n <= Len(w) /\ t \in Nat /\ h + t <= Len(w) /\ t = m + n
  OBVIOUS
<1>2. IsPart(b, w, h, m, S)
  BY Zenon, <1>1, Taken
<1>3. IsPart(c, w, g, n, S)
  BY Zenon, <1>1, Taken
<1>4. IsPart(d, w, h, t, S)
  BY Zenon, <1>1, Taken
<1> HIDE DEF d
<1>5. IsJoin(u, b, c, S)
  BY Zenon, <1>2, <1>3, Concatenated DEF IsPart
<1> HIDE DEF u, t
<1>6. u \in Seq(S) /\ Len(u) = t /\ d \in Seq(S) /\ Len(d) = t
  BY Zenon, <1>1, <1>2, <1>3, <1>4, <1>5 DEF IsPart, IsJoin
<1>7. ASSUME NEW i \in 1..t PROVE u[i] = d[i]
  <2>1. d[i] = w[h + i]
    BY Zenon, <1>4 DEF IsPart
  <2>2. CASE i <= m
    <3>1. i \in 1..m
      BY <1>1, <2>2
    <3> QED
      BY ZenonT(60), <1>2, <1>5, <2>1, <3>1 DEF IsPart, IsJoin
  <2>3. CASE ~(i <= m)
    <3> DEFINE j == i - m
    <3>1. j \in 1..n /\ m + j = i /\ g + j = h + i
      BY <1>1, <2>3
    <3> HIDE DEF j, g
    <3>2. u[m + j] = c[j] /\ c[j] = w[g + j]
      BY ZenonT(60), <1>2, <1>3, <1>5, <3>1 DEF IsPart, IsJoin
    <3> QED
      BY ZenonT(60), <2>1, <3>1, <3>2
  <2> QED
    BY Zenon, <2>2, <2>3
<1>8. u = d
  BY SMTT(60), <1>6, <1>7
<1> QED
  BY Zenon, <1>8 DEF u, d

(* readFixSize brings the rest of the body.                                 *)
LEMMA readFixSizeIInv ==
  ASSUME HttpIInv, readFixSize
  PROVE  HttpIInv'
<1> DEFINE n == Data(left)  k == req.k  h == HeadEnd(k)  len == Length(req)  m == Len(body)
<1>1. /\ requests' = requests /\ sent' = sent /\ eof' = eof /\ answers' = answers /\ taken' = taken + n
      /\ first' = first /\ handled' = handled /\ pos = "body" /\ begun' = begun /\ harm' = harm
      /\ req' = req /\ offset' = offset /\ body' = body \o SubSeq(Wire, taken + 1, taken + n) /\ left' = left - n
      /\ pos' = (IF n = left THEN "handle" ELSE "body") /\ Available > 0
  BY Zenon DEF readFixSize, clientVars
<1>2. Wire' = Wire /\ Total' = Total /\ (\A x : EndOf(x)' = EndOf(x)) /\ \A x : HeadEnd(x)' = HeadEnd(x)
  BY Zenon, <1>1, SameWire
<1>3. /\ requests \in Workloads /\ sent \in 0..Len(Wire) /\ taken \in 0..sent /\ req.k \in 0..Total /\ offset \in Nat
      /\ left \in Nat /\ begun = FALSE
  BY Zenon, <1>1 DEF HttpIInv, TypeInv
<1>4. Total \in Nat /\ Len(Wire) \in Nat /\ Wire \in Seq(Unit)
  BY Zenon, <1>3, WirePlaces DEF OnWire
<1>5. /\ k > 0 /\ body = SubSeq(Wire, h + 1, h + m) /\ left \in 1..len /\ offset < len /\ m = offset + (len - left)
      /\ taken = h + m /\ (offset > 0 => "straddled" \in harm)
  BY Zenon, <1>1 DEF HttpIInv, BodyInv
<1>6. k \in 1..Total
  BY <1>3, <1>4, <1>5
<1>7. h \in Nat /\ len \in Nat
  BY Zenon, <1>3, <1>6, Bounds, LengthIs
<1>8. n \in 1..left /\ taken + n <= sent
  <2>1. sent \in Nat /\ taken \in Nat /\ taken <= sent /\ left > 0
    BY <1>3, <1>4, <1>5, <1>7
  <2> QED
    BY ZenonT(60), <1>1, <1>3, <2>1, DataIs
<1>9. Length(req)' = len /\ HeadEnd(req.k)' = h
  BY ZenonT(60), <1>1, <1>2 DEF Length
<1> HIDE DEF n, k, h, len, m
<1>10. m \in Nat /\ n \in Nat /\ h + m + n <= Len(Wire) /\ taken + n \in 0..sent /\ taken + n = h + (m + n)
       /\ left - n \in Nat
  BY <1>3, <1>4, <1>5, <1>7, <1>8
<1>11. body' = SubSeq(Wire, h + 1, h + (m + n))
  <2> DEFINE c == SubSeq(Wire, h + m + 1, h + m + n)
  <2>1. body' = body \o c
    BY Zenon, <1>1, <1>5
  <2>2. c = SubSeq(Wire, h + m + 1, h + m + n)
    BY Zenon
  <2> HIDE DEF c
  <2>3. body \o c = SubSeq(Wire, h + 1, h + (m + n))
    <3>1. Meet(body, c, Wire, h, m, n, Unit)
      BY Zenon, <1>4, <1>5, <1>7, <1>10, <2>2 DEF Meet
    <3>2. Whole(body \o c, Wire, h, m + n)
      BY Zenon, <3>1, Consecutive
    <3> QED
      BY Zenon, <3>2 DEF Whole
  <2> QED
    BY Zenon, <2>1, <2>3
<1>12. body' \in Seq(Unit) /\ Len(body') = m + n
  <2> DEFINE t == m + n
  <2>1. t \in Nat /\ h + t <= Len(Wire)
    BY <1>4, <1>7, <1>10
  <2>2. body' = SubSeq(Wire, h + 1, h + t)
    BY Zenon, <1>11
  <2> HIDE DEF t
  <2>3. body' \in Seq(Unit) /\ Len(body') = t
    BY ZenonT(60), <1>4, <1>7, <2>1, <2>2, Taken DEF IsPart
  <2> QED
    BY Zenon, <2>3 DEF t
<1>13. pos' \in {"body", "handle"} /\ pos' # "execute" /\ pos' # "write" /\ "body" # "handle"
  BY <1>1
<1>14. ~Opened' /\ ~Between' /\ Base' = taken + n
  BY <1>1, <1>13 DEF Opened, Between, Reading, Base
<1>15. TypeInv'
  BY ZenonT(60), <1>1, <1>2, <1>3, <1>10, <1>12, <1>13 DEF HttpIInv, TypeInv
<1>16. CountInv'
  <2>1. Answered' = Answered
    BY <1>1, <1>13 DEF Answered
  <2>2. req.k > Len(handled)
    BY Zenon, <1>1 DEF HttpIInv, CountInv
  <2> QED
    BY ZenonT(60), <1>1, <1>2, <1>14, <2>1, <2>2 DEF HttpIInv, CountInv
<1>17. PlaceInv'
  BY ZenonT(60), <1>14 DEF PlaceInv
<1>18. /\ (pos' = "body" => left - n \in 1..len /\ m + n = offset + (len - (left - n)))
       /\ (pos' = "handle" => m + n = offset + len)
  <2>1. pos' = "body" => n # left
    BY <1>1
  <2>2. pos' = "handle" => n = left
    BY <1>1
  <2> QED
    BY SMTT(60), <1>3, <1>5, <1>7, <1>8, <1>10, <2>1, <2>2
<1>19. BodyInv'
  <2>1. body' = SubSeq(Wire', h + 1, h + (m + n)) /\ h + (m + n) <= taken' /\ req'.k > 0 /\ taken' = h + (m + n)
    <3>1. taken + n <= taken + n
      BY <1>3, <1>4, <1>10
    <3> QED
      BY ZenonT(60), <1>1, <1>2, <1>5, <1>10, <1>11, <3>1 DEF k
  <2>2. pos' = "handle" => m + n = IF 0 < offset' /\ offset' < len THEN len + offset' ELSE len
    <3>1. ASSUME pos' = "handle" PROVE m + n = IF 0 < offset /\ offset < len THEN len + offset ELSE len
      <4>1. m + n = offset + len /\ offset < len /\ offset \in Nat
        BY Zenon, <1>3, <1>5, <1>18, <3>1
      <4> QED
        BY <1>7, <4>1
    <3> QED
      BY Zenon, <1>1, <3>1
  <2>3. pos' = "body" => /\ left' \in 1..len /\ offset' < len /\ m + n = offset' + (len - left')
                         /\ (offset' > 0 => "straddled" \in harm')
    BY Zenon, <1>1, <1>5, <1>18
  <2> QED
    BY ZenonT(60), <1>9, <1>12, <2>1, <2>2, <2>3 DEF BodyInv, Straddled
<1>20. ExactInv'
  <2>1. harm \cap Misread = {} => "straddled" \notin harm
    BY Zenon DEF Misread
  <2>2. k # 0 /\ ("straddled" \notin harm => offset = 0)
    BY <1>3, <1>5
  <2>3. harm \cap Misread = {} /\ pos' = "handle" => taken + n = h + len
    BY SMTT(60), <1>7, <1>10, <1>18, <2>1, <2>2
  <2> QED
    BY ZenonT(60), <1>1, <1>9, <1>13, <1>14, <2>2, <2>3 DEF HttpIInv, ExactInv, k
<1> QED
  BY Zenon, <1>15, <1>16, <1>17, <1>19, <1>20 DEF HttpIInv

(* The servlet has the request, and its answer is sent.                     *)
LEMMA handleIInv ==
  ASSUME HttpIInv, handle
  PROVE  HttpIInv'
<1> DEFINE new == [k |-> req.k, lost |-> req.lost, body |-> body]
           AtEntry == [k : Nat, lost : SUBSET {"line", "len", "ka"}, body : Seq(Unit)]
           n == Len(handled)
<1>1. /\ requests' = requests /\ sent' = sent /\ eof' = eof /\ answers' = answers /\ taken' = taken
      /\ first' = first /\ handled' = Append(handled, new) /\ pos = "handle" /\ begun' = begun /\ harm' = harm
      /\ req' = req /\ offset' = offset /\ body' = body /\ left' = ResponseUnits /\ pos' = "write"
  BY Zenon DEF handle, clientVars
<1>2. Wire' = Wire /\ Total' = Total /\ (\A x : EndOf(x)' = EndOf(x)) /\ \A x : HeadEnd(x)' = HeadEnd(x)
  BY Zenon, <1>1, SameWire
<1>3. /\ requests \in Workloads /\ sent \in 0..Len(Wire) /\ taken \in 0..sent /\ begun = FALSE
      /\ req \in [k : 0..Total, lost : SUBSET {"line", "len", "ka"}] /\ handled \in Seq(AtEntry) /\ body \in Seq(Unit)
  BY Zenon, <1>1 DEF HttpIInv, TypeInv
<1>4. Total \in Nat /\ Len(Wire) \in Nat
  BY Zenon, <1>3, WirePlaces DEF OnWire
<1>5. req.k \in 0..Total /\ req.k \in Nat /\ new \in AtEntry
  <2>1. req.k \in 0..Total /\ req.lost \in SUBSET {"line", "len", "ka"}
    BY <1>3
  <2>2. req.k \in Nat
    BY <2>1
  <2> QED
    BY Zenon, <1>3, <2>1, <2>2
<1>6. new.k = req.k
  OBVIOUS
<1> HIDE DEF new, AtEntry
<1>7. /\ handled' \in Seq(AtEntry) /\ Len(handled') = n + 1 /\ n \in Nat /\ handled'[n + 1] = new
      /\ \A i \in 1..n : handled'[i] = handled[i]
  BY SMTT(60), <1>1, <1>3, <1>5
<1>8. Base' = taken /\ Base = taken /\ Between' /\ ~Opened' /\ ~Between
      /\ pos' \notin {"body", "handle", "execute"} /\ pos' # "handle" /\ pos' # "execute" /\ pos # "write"
  BY <1>1 DEF Base, Between, Opened, Reading
<1>9. req.k > n /\ n <= Total
  BY Zenon, <1>1 DEF HttpIInv, CountInv
<1>10. TypeInv'
  <2>1. ResponseUnits \in Nat
    BY Zenon, HttpAssumption
  <2> QED
    BY ZenonT(60), <1>1, <1>2, <1>3, <1>7, <1>8, <2>1 DEF HttpIInv, TypeInv, AtEntry
<1>11. CountInv'
  <2>1. Answered' = n /\ Answered = n
    BY SMTT(60), <1>1, <1>7, <1>8 DEF Answered
  <2>2. n + 1 <= Total /\ req.k >= n + 1
    BY <1>4, <1>5, <1>7, <1>9
  <2> QED
    BY ZenonT(60), <1>1, <1>2, <1>7, <1>8, <2>1, <2>2 DEF HttpIInv, CountInv
<1>12. PlaceInv'
  <2>1. req.k > 0 /\ HeadEnd(req.k) + Len(body) <= taken
    BY Zenon, <1>1 DEF HttpIInv, BodyInv
  <2>2. HeadEnd(req.k) \in Nat /\ Len(body) \in Nat /\ taken \in Nat
    <3>1. req.k \in 1..Total
      BY <1>5, <2>1
    <3>2. HeadEnd(req.k) \in Nat
      BY Zenon, <1>3, <3>1, Bounds
    <3>3. ASSUME NEW S, NEW x \in Seq(S) PROVE Len(x) \in Nat
      OBVIOUS
    <3>4. taken \in Nat
      BY <1>3, <1>4
    <3> QED
      BY ZenonT(60), <1>3, <3>2, <3>3, <3>4
  <2>3. HeadEnd(req.k) <= taken
    BY SMTT(60), <2>1, <2>2
  <2> QED
    BY Zenon, <1>1, <1>2, <1>8, <2>3 DEF PlaceInv
<1>13. BodyInv'
  BY <1>1 DEF BodyInv
<1>14. ExactInv'
  <2>1. Length(req)' = Length(req)
    BY Zenon, <1>1 DEF Length
  <2>2. ASSUME harm \cap Misread = {}
        PROVE  /\ \A i \in 1..(n + 1) : handled'[i].k = i
               /\ req.k = n + 1 /\ taken = HeadEnd(req.k) + (IF req.k = 0 THEN 0 ELSE Length(req))
    <3>1. /\ \A i \in 1..n : handled[i].k = i
          /\ req.k = n + 1 /\ taken = HeadEnd(req.k) + (IF req.k = 0 THEN 0 ELSE Length(req))
      BY ZenonT(60), <1>1, <1>8, <2>2 DEF HttpIInv, ExactInv
    <3>2. ASSUME NEW i \in 1..(n + 1) PROVE i = n + 1 \/ i \in 1..n
      BY <1>7
    <3> QED
      BY Zenon, <1>6, <1>7, <3>1, <3>2
  <2> QED
    BY ZenonT(60), <1>1, <1>2, <1>7, <1>8, <2>1, <2>2 DEF ExactInv
<1> QED
  BY Zenon, <1>10, <1>11, <1>12, <1>13, <1>14 DEF HttpIInv

(* The response: a part of it is written, the rest, or the write fails.     *)
LEMMA writeIInv ==
  ASSUME HttpIInv, writeFails \/ \E n \in 1..ResponseUnits : writeFixSize(n)
  PROVE  HttpIInv'
<1>1. /\ requests' = requests /\ sent' = sent /\ eof' = eof /\ taken' = taken /\ first' = first /\ begun' = begun
      /\ req' = req /\ handled' = handled /\ harm' = harm /\ offset' = 0 /\ body' = <<>> /\ pos = "write"
  BY Zenon DEF writeFails, writeFixSize, clientVars
<1>2. Wire' = Wire /\ Total' = Total /\ (\A x : EndOf(x)' = EndOf(x)) /\ \A x : HeadEnd(x)' = HeadEnd(x)
  BY Zenon, <1>1, SameWire
<1>3. Next_ = "read" \/ Next_ = "closed"
  BY Zenon DEF Next_
<1>4. left \in Nat /\ answers \in Nat /\ begun = FALSE /\ eof \in BOOLEAN
  BY Zenon, <1>1 DEF HttpIInv, TypeInv
<1>5. /\ left' \in Nat /\ pos' \in {"read", "write", "closed"}
      /\ pos' = "write" => answers' = answers
      /\ pos' # "write" => answers' = IF eof THEN answers ELSE answers + 1
  <2>1. CASE writeFails
    <3>1. eof /\ left' = 0 /\ answers' = answers /\ pos' = Next_
      BY Zenon, <2>1 DEF writeFails, clientVars
    <3> QED
      BY <1>3, <3>1
  <2>2. CASE \E n \in 1..ResponseUnits : writeFixSize(n)
    <3>1. PICK n \in 1..ResponseUnits : writeFixSize(n)
      BY Zenon, <2>2
    <3>2. /\ n <= left /\ left' = left - n /\ pos' = (IF n = left THEN Next_ ELSE "write")
          /\ answers' = IF n = left /\ ~eof THEN answers + 1 ELSE answers
      BY Zenon, <3>1 DEF writeFixSize
    <3>3. n \in Nat /\ left' \in Nat
      BY <1>4, <3>2, HttpAssumption
    <3> QED
      BY <1>3, <3>2, <3>3
  <2> QED
    BY Zenon, <2>1, <2>2
<1>6. pos' \notin {"body", "handle", "execute"} /\ pos' # "handle" /\ pos' # "execute" /\ Base' = taken /\ Base = taken
  BY <1>1, <1>5 DEF Base
<1>7. ~Opened' /\ Between /\ ~Opened
  BY <1>1, <1>4 DEF Opened, Between, Reading
<1>8. answers' \in Nat
  BY <1>4, <1>5
<1>9. TypeInv'
  <2>1. ASSUME NEW S PROVE <<>> \in Seq(S)
    OBVIOUS
  <2>2. pos' \in {"read", "execute", "body", "handle", "write", "closed"} /\ 0 \in Nat
    BY Zenon, <1>5
  <2>3. body' \in Seq(Unit)
    BY Zenon, <1>1, <2>1
  <2> QED
    BY ZenonT(60), <1>1, <1>2, <1>4, <1>5, <1>6, <1>8, <2>2, <2>3 DEF HttpIInv, TypeInv
<1>10. CountInv'
  <2> DEFINE n == Len(handled)
  <2>1. n \in Nat
    <3>1. handled \in Seq([k : Nat, lost : SUBSET {"line", "len", "ka"}, body : Seq(Unit)])
      BY Zenon DEF HttpIInv, TypeInv
    <3>2. ASSUME NEW S, NEW x \in Seq(S) PROVE Len(x) \in Nat
      OBVIOUS
    <3> QED
      BY Zenon, <3>1, <3>2
  <2>2. Answered = n - 1 /\ Answered' = IF pos' = "write" THEN n - 1 ELSE n
    BY <1>1, <2>1 DEF Answered
  <2>3. answers <= n - 1 /\ (~eof => answers = n - 1)
    BY Zenon, <2>2 DEF HttpIInv, CountInv
  <2>4. answers' <= Answered' /\ (~eof => answers' = Answered')
    <3> HIDE DEF n
    <3> QED
      BY <1>4, <1>5, <2>1, <2>2, <2>3
  <2> QED
    BY ZenonT(60), <1>1, <1>2, <1>6, <1>7, <2>4 DEF HttpIInv, CountInv
<1>11. PlaceInv'
  BY Zenon, <1>1, <1>2, <1>6, <1>7 DEF HttpIInv, PlaceInv
<1>12. BodyInv'
  BY Zenon, <1>6 DEF BodyInv
<1>13. ExactInv'
  <2>1. Length(req)' = Length(req)
    BY Zenon, <1>1 DEF Length
  <2> QED
    BY ZenonT(60), <1>1, <1>2, <1>6, <1>7, <2>1 DEF HttpIInv, ExactInv
<1> QED
  BY Zenon, <1>9, <1>10, <1>11, <1>12, <1>13 DEF HttpIInv

(* Every step keeps the invariant.                                          *)
LEMMA HttpNextIInv ==
  ASSUME HttpIInv, [HttpNext]_httpVars
  PROVE  HttpIInv'
<1>1. CASE UNCHANGED httpVars
  <2>1. UNCHANGED <<requests, serverVars, harm>> /\ sent' = sent /\ eof' = eof /\ answers' = answers
    BY Zenon, <1>1 DEF httpVars, clientVars
  <2>2. /\ taken' = taken /\ pos' = pos /\ first' = first /\ begun' = begun /\ req' = req /\ offset' = offset
        /\ left' = left /\ body' = body /\ handled' = handled /\ requests' = requests /\ harm' = harm
    BY Zenon, <2>1 DEF serverVars
  <2>3. Wire' = Wire /\ Total' = Total
    BY Zenon, <2>2, SameWire
  <2>4. Opened' = Opened /\ Between' = Between /\ Answered' = Answered
    BY Zenon, <2>2 DEF Opened, Between, Reading, Answered
  <2>5. TypeInv'
    BY Zenon, <2>1, <2>2, <2>3 DEF HttpIInv, TypeInv
  <2>6. CountInv'
    BY Zenon, <2>1, <2>2, <2>3, <2>4 DEF HttpIInv, CountInv
  <2> QED
    BY Zenon, <2>1, <2>5, <2>6, ServerStays DEF HttpIInv
<1>2. CASE HttpNext
  BY ZenonT(60), <1>2, ClientIInv, CloseIInv, readIInv, executeOpenIInv, executeDoneIInv, readFixSizeIInv, handleIInv,
     writeIInv DEF HttpNext, Server
<1> QED
  BY Zenon, <1>1, <1>2

(* What the invariant says of the requests that are handled.                *)
LEMMA HttpSoundIInv ==
  ASSUME HttpIInv
  PROVE  SessionSound
<1>1. /\ requests \in Workloads /\ begun \in BOOLEAN /\ sent \in 0..Len(Wire) /\ taken \in 0..sent /\ answers \in Nat
      /\ req \in [k : 0..Total, lost : SUBSET {"line", "len", "ka"}] /\ (req.lost # {} => "cut" \in harm)
      /\ handled \in Seq([k : Nat, lost : SUBSET {"line", "len", "ka"}, body : Seq(Unit)])
  BY Zenon DEF HttpIInv, TypeInv
<1>2. Total \in Nat /\ Len(Wire) \in Nat
  BY Zenon, <1>1, WirePlaces DEF OnWire
<1>3. Len(handled) \in Nat
  <2>1. ASSUME NEW S, NEW x \in Seq(S) PROVE Len(x) \in Nat
    OBVIOUS
  <2> QED
    BY Zenon, <1>1, <2>1
<1>4. req.k \in 0..Total /\ req.lost \subseteq {"line", "len", "ka"}
  BY <1>1
<1>5. HttpTypeOK
  <2>1. answers \in 0..Total
    <3>1. answers <= Answered /\ Len(handled) <= Total
      BY Zenon DEF HttpIInv, CountInv
    <3> QED
      BY <1>1, <1>2, <1>3, <3>1 DEF Answered
  <2> QED
    BY Zenon, <1>1, <1>4, <2>1 DEF HttpIInv, TypeInv, HttpTypeOK, Total
<1>6. BodyRight
  <2>1. SUFFICES ASSUME pos = "handle"
                 PROVE  /\ Len(body) = IF Straddled(Length(req)) THEN Length(req) + offset ELSE Length(req)
                        /\ SubSeq(body, 1, Length(req)) = [i \in 1..Length(req) |-> [req |-> req.k, u |-> "body"]]
    BY Zenon DEF BodyRight
  <2> DEFINE k == req.k  n == Len(body)  len == Length(req)  h == HeadEnd(k)
  <2>2. /\ k > 0 /\ h + n <= taken /\ body = SubSeq(Wire, h + 1, h + n)
        /\ n = IF Straddled(len) THEN len + offset ELSE len
    BY ZenonT(60), <2>1 DEF HttpIInv, BodyInv
  <2>3. k \in 1..Total
    BY <1>2, <1>4, <2>2
  <2>4. len \in Nat /\ len <= requests[k].len /\ h \in Nat /\ requests[k].len \in Nat
    BY Zenon, <1>1, <2>3, Bounds, LengthIs
  <2>5. offset \in Nat
    BY ZenonT(60) DEF HttpIInv, TypeInv
  <2> HIDE DEF k, n, len, h
  <2>6. n \in Nat /\ len \in 0..n /\ h + n <= Len(Wire)
    <3>1. n \in Nat /\ len \in 0..n
      BY <2>2, <2>4, <2>5
    <3> QED
      BY SMTT(60), <1>1, <1>2, <2>2, <2>4, <3>1
  <2>7. SubSeq(body, 1, len) = [i \in 1..len |-> [req |-> k, u |-> "body"]]
    <3>1. BodyBehind(body, k, n, len)
      BY Zenon, <1>1, <2>2, <2>3, <2>4, <2>6 DEF BodyBehind, h
    <3>2. BodyIs(body, k, len)
      BY Zenon, <3>1, BodyPart
    <3> QED
      BY Zenon, <3>2 DEF BodyIs
  <2> QED
    BY Zenon, <2>2, <2>7 DEF k, n, len
<1>7. StartAligned
  <2>1. SUFFICES ASSUME pos = "read", ~begun, harm \cap (Misread \cup {"cut"}) = {}, taken # Len(Wire)
                 PROVE  Wire[taken + 1].u = "line1"
    BY Zenon DEF StartAligned
  <2>2. harm \cap Misread = {} /\ req.lost = {} /\ Between /\ Base = taken
    <3>1. Between /\ Base = taken
      BY <2>1 DEF Between, Reading, Base
    <3> QED
      BY Zenon, <1>1, <2>1, <3>1
  <2> DEFINE k == req.k
  <2>3. taken = HeadEnd(k) + (IF k = 0 THEN 0 ELSE Length(req))
    BY Zenon, <2>2 DEF HttpIInv, ExactInv
  <2>4. taken = EndOf(k)
    <3>1. CASE k = 0
      <4>1. HeadEnd(k) = 0 /\ EndOf(k) = 0
        BY Zenon, <1>1, <3>1, WirePlaces DEF HeadEnd, OnWire
      <4> QED
        BY <2>3, <3>1, <4>1
    <3>2. CASE k # 0
      <4>1. k \in 1..Total
        BY <1>2, <1>4, <3>2
      <4>2. Length(req) = requests[k].len
        BY Zenon, <1>1, <2>2, <4>1, LengthIs
      <4>3. HeadEnd(k) + requests[k].len = EndOf(k)
        BY Zenon, <1>1, <4>1, Bounds
      <4> QED
        BY ZenonT(60), <2>3, <3>2, <4>2, <4>3
    <3> QED
      BY Zenon, <3>1, <3>2
  <2>5. k # Total
    BY ZenonT(60), <1>1, <2>1, <2>4, WirePlaces DEF OnWire
  <2> DEFINE j == k + 1
  <2>6. j \in 1..Total /\ j - 1 = k
    BY <1>2, <1>4, <2>5
  <2> HIDE DEF j, k
  <2>7. /\ EndOf(j - 1) \in Nat /\ EndOf(j) \in Nat /\ HeadEnd(j) \in Nat /\ requests[j].len \in Nat
        /\ EndOf(j - 1) + 2 < HeadEnd(j) /\ HeadEnd(j) + requests[j].len = EndOf(j)
    BY Zenon, <1>1, <2>6, Bounds
  <2>8. taken + 1 \in (EndOf(j - 1) + 1)..EndOf(j) /\ taken = EndOf(j - 1)
    <3> DEFINE a == EndOf(j - 1)  b == EndOf(j)  h == HeadEnd(j)  len == requests[j].len
    <3>1. a \in Nat /\ b \in Nat /\ h \in Nat /\ len \in Nat /\ a + 2 < h /\ h + len = b /\ taken = a
      BY Zenon, <2>4, <2>6, <2>7
    <3> HIDE DEF a, b, h, len
    <3>2. taken + 1 \in (a + 1)..b
      BY <3>1
    <3> QED
      BY Zenon, <3>1, <3>2 DEF a, b
  <2>9. At(Wire[taken + 1], taken + 1, j, EndOf(j - 1), HeadEnd(j))
    BY Zenon, <1>1, <2>6, <2>8, WirePlaces DEF Within
  <2> QED
    BY Zenon, <2>8, <2>9 DEF At
<1>8. InOrder
  BY Zenon DEF HttpIInv, CountInv, Answered, ExactInv, InOrder
<1> QED
  BY Zenon, <1>5, <1>6, <1>7, <1>8 DEF SessionSound

(* What the session reads and answers, for any requests of the client, any  *)
(* sizes of buffer, segment and response, and however the reads cut what    *)
(* the client sends: a request that has kept its length is given its body,  *)
(* read past only by the part that had come with the header; recvRequest    *)
(* begins at a request, and the i-th answer is that of the i-th request,    *)
(* unless one of the named deliveries went wrong before                     *)
(* (http_session.cc:11, http_server.cc:26).                                 *)
THEOREM SessionIsSound == HttpSpec => []SessionSound
<1>1. HttpInit => HttpIInv
  BY Zenon, HttpInitIInv
<1>2. HttpIInv /\ [HttpNext]_httpVars => HttpIInv'
  BY Zenon, HttpNextIInv
<1>3. HttpIInv => SessionSound
  BY Zenon, HttpSoundIInv
<1> QED
  BY <1>1, <1>2, <1>3, PTL DEF HttpSpec

=============================================================================
