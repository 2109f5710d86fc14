---------------------------- MODULE StoreProofs -----------------------------
(* What holds of configuration variables and their registry, and of all     *)
(* that run in MCStore, with any threads, appenders, values and types.      *)
EXTENDS MCStore, LoggerProofs, FiniteSetTheorems

-----------------------------------------------------------------------------
(* A thread is between telling the listeners and writing the value.         *)
Between(t) == step[t] \in {"wrlock", "wrwait", "assign"}

Steps ==
  {"none", "outer", "outerWait", "leave", "convert", "rdlock", "rdwait", "compare", "wrlock", "wrwait", "assign",
   "outerUnlock"}
ConfigTypes ==
  /\ step \in [Users -> Steps] /\ op \in [Users -> Operations \cup {"none"}] /\ arg \in [Users -> Values \cup {Default}]
  /\ overlap \in BOOLEAN
  /\ \A t \in Users : op[t] = "none" => step[t] = "none"

(* ToldRight is not inductive: while a thread is between, what it has told  *)
(* is what it will write, and it is alone there.                            *)
ToldIInv ==
  /\ ConfigTypes
  /\ (\A t \in Users : ~Between(t)) /\ ~overlap => told = m_val
  /\ \A t \in Users : Between(t) /\ ~overlap => told = arg[t] /\ \A u \in Users : Between(u) => u = t

(* The initial state of a ConfigVar (config.h:290).                         *)
LEMMA ConfigInitTold == ConfigInit => ToldIInv
  BY ZenonT(60) DEF ConfigInit, ToldIInv, ConfigTypes, Between, Steps, Operations

(* A step of a thread t that only moves it, between or not as before, keeps *)
(* the invariant (the lock steps of config.h:311-349).                      *)
LEMMA MoveTold ==
  ASSUME ToldIInv, NEW t \in Users, NEW s \in Steps, To(t, s), Stay, op[t] # "none",
         s \in {"wrlock", "wrwait", "assign"} <=> Between(t)
  PROVE  ToldIInv'
  BY DEF ToldIInv, ConfigTypes, Between, Steps, Operations, To, Stay

(* A call that returns without writing keeps it: getValue, addListener, a   *)
(* conversion that throws, the end of fromString.                           *)
LEMMA DoneTold ==
  ASSUME ToldIInv, NEW t \in Users, Done(t), ~Between(t), UNCHANGED <<m_val, told, overlap>>
  PROVE  ToldIInv'
  BY DEF ToldIInv, ConfigTypes, Between, Steps, Operations, Done, To

(* Every step of a ConfigVar's users keeps the invariant.                   *)
LEMMA ConfigNextTold == ToldIInv /\ [ConfigNext]_configVars => ToldIInv'
<1> SUFFICES ASSUME ToldIInv, [ConfigNext]_configVars PROVE ToldIInv'
  OBVIOUS
<1>1. CASE UNCHANGED configVars
  BY Zenon, <1>1 DEF ToldIInv, ConfigTypes, Between, Steps, Operations, configVars
<1>2. ASSUME NEW t \in Users, NEW o \in Operations, NEW v \in Values, Call(t, o, v) PROVE ToldIInv'
  BY <1>2 DEF Call, To, ToldIInv, ConfigTypes, Between, Steps, Operations
<1>3. ASSUME NEW t \in Users, UserStep(t) PROVE ToldIInv'
  <2> DEFINE moves == outerLock(t) \/ outerWait(t) \/ convert(t) \/ readLock(t) \/ readWait(t) \/ writeLock(t) \/ writeWait(t)
  <2>1. CASE moves
    <3>1. op[t] # "none"
      BY Zenon, <2>1 DEF ToldIInv, ConfigTypes, outerLock, outerWait, convert, readLock, readWait, writeLock, writeWait, At
    <3>2. PICK s \in Steps : To(t, s) /\ (s \in {"wrlock", "wrwait", "assign"} <=> Between(t))
      <4>1. CASE outerLock(t) BY Zenon, <4>1 DEF outerLock, wrlock, At, Between, Steps
      <4>2. CASE outerWait(t) BY Zenon, <4>2 DEF outerWait, At, Between, Steps
      <4>3. CASE convert(t) BY Zenon, <4>3 DEF convert, At, Between, Steps
      <4>4. CASE readLock(t) BY Zenon, <4>4 DEF readLock, rdlock, At, Between, Steps
      <4>5. CASE readWait(t) BY Zenon, <4>5 DEF readWait, rdwait, At, Between, Steps
      <4>6. CASE writeLock(t) BY Zenon, <4>6 DEF writeLock, wrlock, At, Between, Steps
      <4>7. CASE writeWait(t) BY Zenon, <4>7 DEF writeWait, At, Between, Steps
      <4> QED BY ZenonT(60), <2>1, <4>1, <4>2, <4>3, <4>4, <4>5, <4>6, <4>7
    <3>3. Stay
      BY Zenon, <2>1 DEF outerLock, outerWait, convert, readLock, readWait, writeLock, writeWait
    <3> QED BY Zenon, <3>1, <3>2, <3>3, MoveTold
  <2>2. CASE leave(t) \/ getValue(t) \/ outerUnlock(t)
    BY Zenon, <2>2, DoneTold DEF leave, getValue, outerUnlock, At, Between, Steps
  <2>3. CASE equal(t)
    BY <2>3 DEF equal, Finish, Done, To, At, ToldIInv, ConfigTypes, Between, Steps, Operations
  <2>4. CASE tell(t)
    BY ZenonT(60), <2>4, ZenonT(60) DEF tell, Setting, To, At, ToldIInv, ConfigTypes, Between, Steps, Operations
  <2>5. CASE assign(t)
    BY <2>5 DEF assign, Finish, Done, To, At, ToldIInv, ConfigTypes, Between, Steps, Operations
  <2> QED BY ZenonT(60), <1>3, <2>1, <2>2, <2>3, <2>4, <2>5 DEF UserStep
<1> QED BY Zenon, <1>1, <1>2, <1>3 DEF ConfigNext

(* For any number of threads the listener knows the value of a variable     *)
(* that nobody is changing, unless two changes overlapped                   *)
(* (config.h:335-340).                                                      *)
THEOREM ListenersKnow == ConfigSpec => []ToldRight
<1>1. ToldIInv => ToldRight
  BY Zenon DEF ToldIInv, ToldRight, Between
<1> QED BY ConfigInitTold, ConfigNextTold, <1>1, PTL DEF ConfigSpec

-----------------------------------------------------------------------------
(* OneVariable needs that nothing was handed out before the first insertion.*)
RegistryIInv == OneVariable /\ (GetDatas = Nobody => handed = {})

(* For any number of threads and types all holders of a variable hold the   *)
(* registered one, unless a lookup race or a lookup under another type has  *)
(* replaced it (config.h:380-386).                                          *)
THEOREM OneRegistered == RegistrySpec => []OneVariable
<1>1. RegistryInit => RegistryIInv
  BY Zenon DEF RegistryInit, RegistryIInv, OneVariable
<1>2. RegistryIInv /\ [RegistryNext]_registryVars => RegistryIInv'
  <2> SUFFICES ASSUME RegistryIInv, [RegistryNext]_registryVars PROVE RegistryIInv'
    OBVIOUS
  <2>1. ASSUME NEW t \in Users, Insert(t) PROVE RegistryIInv'
    BY Zenon, <2>1 DEF Insert, RegistryIInv, OneVariable
  <2>2. ASSUME NEW t \in Users, NEW type \in Types, Lookup(t, type) PROVE RegistryIInv'
    BY Zenon, <2>2 DEF Lookup, RegistryIInv, OneVariable
  <2>3. CASE UNCHANGED registryVars
    BY Zenon, <2>3 DEF registryVars, RegistryIInv, OneVariable
  <2> QED BY Zenon, <2>1, <2>2, <2>3 DEF RegistryNext
<1>3. RegistryIInv => OneVariable
  BY Zenon DEF RegistryIInv
<1> QED BY <1>1, <1>2, <1>3, PTL DEF RegistrySpec

-----------------------------------------------------------------------------
(* Who has the write lock, who has only kept other writers out, and who is  *)
(* counted as a reader.  fromString does not count: its rdlock fails.       *)
Owner(t) ==
  step[t] \in {"leave", "convert", "assign"} \/ (op[t] = "fromString" /\ step[t] \in {"rdlock", "compare"})
Pending(t) == step[t] \in {"outerWait", "wrwait"}
Reader(t) == step[t] \in {"rdwait", "compare"} /\ op[t] # "fromString"

(* Where a thread may be in an operation.                                   *)
Places ==
  /\ step \in [Users -> Steps] /\ op \in [Users -> Operations \cup {"none"}]
  /\ \A t \in Users :
       /\ step[t] \in {"outer", "outerWait"} => op[t] \in {"fromString", "addListener"}
       /\ step[t] = "convert" => op[t] = "fromString"
       /\ step[t] = "rdwait" => op[t] # "fromString"
       /\ op[t] = "none" => step[t] = "none"

Locks == [readers : Int, wrphase : BOOLEAN, wrlocked : BOOLEAN, writer : Users \cup {Nobody}]

(* The lock says who is where, and no reader is inside in the write phase.  *)
LockState ==
  /\ lock \in Locks
  /\ \A t \in Users : lock.writer = t <=> Owner(t)
  /\ lock.wrlocked <=> \E t \in Users : Owner(t) \/ Pending(t)
  /\ \A t, u \in Users : (Owner(t) \/ Pending(t)) /\ (Owner(u) \/ Pending(u)) => t = u
  /\ lock.writer # Nobody => lock.wrphase
  /\ \A t \in Users : Reader(t) /\ step[t] = "compare" => ~lock.wrphase

Count == IsFiniteSet(ReadersIn) /\ lock.readers = Cardinality(ReadersIn)

LockIInv == loads \in Nat /\ (loads = 0 => Places /\ LockState /\ Count)

(* The thread t goes to the step s of the operation o, the others stay.     *)
Moves(t, s, o) == step' = [step EXCEPT ![t] = s] /\ op' = [op EXCEPT ![t] = o]

(* The updates of the lock: by a reader who comes or leaves, by the writer  *)
(* who leaves, by a writer who keeps others out and by one who enters.      *)
Phase(l, r, p) == [l EXCEPT !.readers = r, !.wrphase = p]
Leave(l, p) == [l EXCEPT !.writer = Nobody, !.wrlocked = FALSE, !.wrphase = p]
Block(l) == [l EXCEPT !.wrlocked = TRUE]
Enter(l, t) == [l EXCEPT !.wrphase = TRUE, !.writer = t]

(* The fields of the lock after each of these updates (mutex.h:232-242).    *)
LEMMA PhaseFields ==
  ASSUME NEW l \in Locks, NEW r \in Int, NEW p \in BOOLEAN
  PROVE  LET k == Phase(l, r, p)
         IN  k \in Locks /\ k.readers = r /\ k.wrphase = p /\ k.wrlocked = l.wrlocked /\ k.writer = l.writer
  BY Zenon DEF Locks, Phase

(* The second: RWMutex::unlock of the writer.                               *)
LEMMA LeaveFields ==
  ASSUME NEW l \in Locks, NEW p \in BOOLEAN
  PROVE  LET k == Leave(l, p)
         IN  k \in Locks /\ k.readers = l.readers /\ k.wrphase = p /\ ~k.wrlocked /\ k.writer = Nobody
  BY Zenon DEF Locks, Leave

(* The third: the first half of RWMutex::wrlock.                            *)
LEMMA BlockFields ==
  ASSUME NEW l \in Locks
  PROVE  LET k == Block(l)
         IN  k \in Locks /\ k.readers = l.readers /\ k.wrphase = l.wrphase /\ k.wrlocked /\ k.writer = l.writer
  BY Zenon DEF Locks, Block

(* The fourth: its second half.                                             *)
LEMMA EnterFields ==
  ASSUME NEW l \in Locks, NEW t \in Users
  PROVE  LET k == Enter(l, t)
         IN  k \in Locks /\ k.readers = l.readers /\ k.wrphase /\ k.wrlocked = l.wrlocked /\ k.writer = t
  BY Zenon DEF Locks, Enter

(* The readers when t moves: one more, one less or the same.                *)
LEMMA ReadersMove ==
  ASSUME Places, NEW t \in Users, NEW s, NEW o, Moves(t, s, o)
  PROVE  /\ Reader(t)' /\ ~Reader(t) => ReadersIn' = ReadersIn \cup {t} /\ t \notin ReadersIn
         /\ ~Reader(t)' /\ Reader(t) => ReadersIn' = ReadersIn \ {t} /\ t \in ReadersIn
         /\ (Reader(t)' <=> Reader(t)) => ReadersIn' = ReadersIn
  BY ZenonT(60) DEF Places, Moves, Reader, ReadersIn

(* The count follows when the lock adds what the move of t adds.            *)
LEMMA CountMove ==
  ASSUME Places, Count, NEW t \in Users, NEW s, NEW o, Moves(t, s, o), lock.readers \in Int,
         lock'.readers = lock.readers + (IF Reader(t)' THEN 1 ELSE 0) - (IF Reader(t) THEN 1 ELSE 0)
  PROVE  Count'
<1>1. CASE Reader(t)' /\ ~Reader(t)
  <2>1. ReadersIn' = ReadersIn \cup {t} /\ t \notin ReadersIn
    BY Zenon, <1>1, ReadersMove
  <2>2. IsFiniteSet(ReadersIn') /\ Cardinality(ReadersIn') = Cardinality(ReadersIn) + 1
    BY Zenon, <2>1, FS_AddElement DEF Count
  <2>3. lock'.readers = lock.readers + 1
    BY <1>1
  <2> QED BY Zenon, <2>2, <2>3 DEF Count
<1>2. CASE ~Reader(t)' /\ Reader(t)
  <2>1. ReadersIn' = ReadersIn \ {t} /\ t \in ReadersIn
    BY Zenon, <1>2, ReadersMove
  <2>2. IsFiniteSet(ReadersIn') /\ Cardinality(ReadersIn') = Cardinality(ReadersIn) - 1
    BY Zenon, <2>1, FS_RemoveElement DEF Count
  <2>3. lock'.readers = lock.readers - 1
    BY <1>2
  <2> QED BY Zenon, <2>2, <2>3 DEF Count
<1>3. CASE Reader(t)' <=> Reader(t)
  <2>1. ReadersIn' = ReadersIn
    BY Zenon, <1>3, ReadersMove
  <2>2. lock'.readers = lock.readers
    BY <1>3
  <2> QED BY Zenon, <2>1, <2>2 DEF Count
<1> QED BY ZenonT(60), <1>1, <1>2, <1>3

(* While nobody reads the count is 0, and it is never negative.             *)
LEMMA CountFacts ==
  ASSUME Count
  PROVE  lock.readers \in Nat /\ (lock.readers = 0 => \A t \in Users : ~Reader(t))
         /\ (lock.readers = 1 => \A t, u \in Users : Reader(t) /\ Reader(u) => t = u)
<1>1. lock.readers \in Nat
  BY Zenon, FS_CardinalityType DEF Count
<1>2. ASSUME lock.readers = 0 PROVE \A t \in Users : ~Reader(t)
  <2>1. ReadersIn = {}
    BY ZenonT(60), <1>2, FS_EmptySet, Zenon DEF Count
  <2> QED BY Zenon, <2>1, Zenon DEF ReadersIn, Reader
<1>3. ASSUME lock.readers = 1 PROVE \A t, u \in Users : Reader(t) /\ Reader(u) => t = u
  <2>1. PICK x : ReadersIn = {x}
    BY ZenonT(60), <1>3, FS_Singleton, Zenon DEF Count
  <2> QED BY <2>1 DEF ReadersIn, Reader
<1> QED BY ZenonT(60), <1>1, <1>2, <1>3

(* A move that changes nobody's part in the lock.                           *)
LEMMA PlainMove ==
  ASSUME Places, LockState, Count, NEW t \in Users, NEW s \in Steps, NEW o, Moves(t, s, o), lock' = lock,
         Owner(t)' <=> Owner(t), Pending(t)' <=> Pending(t), Reader(t)' <=> Reader(t),
         s = "compare" /\ Reader(t) => ~lock.wrphase
  PROVE  LockState' /\ Count'
<1>1. \A u \in Users : (Owner(u)' <=> Owner(u)) /\ (Pending(u)' <=> Pending(u)) /\ (Reader(u)' <=> Reader(u))
  BY ZenonT(60) DEF Places, Moves, Owner, Pending, Reader
<1>2. \A u \in Users : u # t => step'[u] = step[u]
  BY Zenon DEF Places, Moves
<1>3. step'[t] = s
  BY Zenon DEF Places, Moves
<1>4. LockState'
  BY ZenonT(60), <1>1, <1>2, <1>3 DEF LockState
<1>5. Count'
  BY CountMove, CountFacts
<1> QED BY Zenon, <1>4, <1>5

(* RWMutex::unlock by the writer.                                           *)
LEMMA WriterLeaves ==
  ASSUME Places, LockState, Count, NEW t \in Users, NEW s \in Steps, NEW o, Moves(t, s, o), Owner(t),
         lock' = unlocked(lock, t), ~Owner(t)', ~Pending(t)', ~Reader(t)'
  PROVE  LockState' /\ Count'
<1>1. \A u \in Users : u # t => (Owner(u)' <=> Owner(u)) /\ (Pending(u)' <=> Pending(u)) /\ (Reader(u)' <=> Reader(u))
                                 /\ step'[u] = step[u]
  BY Zenon DEF Places, Moves, Owner, Pending, Reader
<1>2. lock.writer = t
  BY Zenon DEF LockState
<1>3. lock' = [lock EXCEPT !.writer = Nobody, !.wrlocked = FALSE, !.wrphase = lock.readers = 0]
  BY Zenon, <1>2 DEF unlocked
<1>4. ~Reader(t)
  BY Zenon DEF Owner, Reader
<1>6. \A u \in Users : ~Owner(u)' /\ ~Pending(u)'
  BY Zenon, <1>1 DEF LockState
<1>7. \A u \in Users : Reader(u)' => lock.readers # 0
  BY Zenon, <1>1, CountFacts
<1>8. lock' \in Locks
      /\ lock'.writer = Nobody /\ ~lock'.wrlocked /\ (lock'.wrphase <=> lock.readers = 0) /\ lock'.readers = lock.readers
  <2> DEFINE p == lock.readers = 0
  <2>1. lock \in Locks /\ p \in BOOLEAN /\ lock' = Leave(lock, p)
    BY Zenon, <1>3, Zenon DEF LockState, Leave
  <2> HIDE DEF p
  <2>2. lock' \in Locks /\ lock'.writer = Nobody /\ ~lock'.wrlocked /\ lock'.wrphase = p /\ lock'.readers = lock.readers
    BY <2>1, LeaveFields
  <2> QED BY Zenon, <2>2, Zenon DEF p
<1>5. Count'
  BY SMTT(60), <1>4, <1>8, CountMove, CountFacts
<1>9. LockState'
  BY ZenonT(60), <1>6, <1>7, <1>8, NobodyAssumption DEF LockState
<1> QED BY Zenon, <1>5, <1>9

(* RWMutex::unlock by a reader, with which the phase of a waiting writer    *)
(* may begin.                                                               *)
LEMMA ReaderLeaves ==
  ASSUME Places, LockState, Count, NEW t \in Users, NEW s \in Steps, NEW o, Moves(t, s, o),
         Reader(t), step[t] = "compare", lock' = unlocked(lock, t), ~Owner(t)', ~Pending(t)', ~Reader(t)'
  PROVE  LockState' /\ Count'
<1>1. \A u \in Users : u # t => (Owner(u)' <=> Owner(u)) /\ (Pending(u)' <=> Pending(u)) /\ (Reader(u)' <=> Reader(u))
                                 /\ step'[u] = step[u]
  BY ZenonT(60) DEF Places, Moves, Owner, Pending, Reader
<1>2. ~Owner(t) /\ ~Pending(t) /\ lock.writer # t
  BY Zenon DEF Owner, Pending, Reader, LockState
<1>3. lock' = [lock EXCEPT !.readers = @ - 1, !.wrphase = @ \/ (lock.readers = 1 /\ lock.wrlocked)]
  BY Zenon, <1>2 DEF unlocked
<1>4. lock' \in Locks
      /\ lock'.writer = lock.writer /\ lock'.wrlocked = lock.wrlocked /\ lock'.readers = lock.readers - 1
      /\ (lock'.wrphase <=> lock.wrphase \/ (lock.readers = 1 /\ lock.wrlocked))
  <2> DEFINE p == lock.wrphase \/ (lock.readers = 1 /\ lock.wrlocked)
  <2>1. lock' = Phase(lock, lock.readers - 1, p)
    BY ZenonT(60), <1>3, Zenon DEF Phase
  <2>2. lock \in Locks /\ lock.readers - 1 \in Int /\ p \in BOOLEAN
    BY DEF LockState, Locks
  <2> HIDE DEF p
  <2>3. lock' \in Locks /\ lock'.writer = lock.writer /\ lock'.wrlocked = lock.wrlocked
        /\ lock'.readers = lock.readers - 1 /\ lock'.wrphase = p
    BY SMTT(60), <2>1, <2>2, PhaseFields
  <2> QED BY Zenon, <2>3, Zenon DEF p
<1>5. Count'
  BY <1>2, <1>4, CountMove, CountFacts
<1>6. lock.readers = 1 => \A u \in Users : ~Reader(u)'
  BY Zenon, <1>1, CountFacts
<1>7. \A u \in Users : (Owner(u)' <=> Owner(u)) /\ (Pending(u)' <=> Pending(u))
  BY Zenon, <1>1, <1>2
<1>8. \A u \in Users : Reader(u)' /\ step'[u] = "compare" => ~lock'.wrphase
  BY ZenonT(60), <1>1, <1>4, <1>6 DEF LockState
<1>9. LockState'
  BY ZenonT(60), <1>4, <1>7, <1>8 DEF LockState
<1> QED BY ZenonT(60), <1>5, <1>9

(* RWMutex::rdlock: in, unless a writer has the phase.                      *)
LEMMA ReaderComes ==
  ASSUME Places, LockState, Count, NEW t \in Users, step[t] = "rdlock", op[t] # "fromString",
         rdlock(t, "compare", "rdwait"), op' = op
  PROVE  LockState' /\ Count'
<1> DEFINE phase == lock.wrphase /\ lock.wrlocked
           s == IF phase THEN "rdwait" ELSE "compare"
<1>1. ~Owner(t) /\ ~Pending(t) /\ ~Reader(t) /\ lock.writer # t
  BY Zenon DEF Owner, Pending, Reader, LockState
<1>2. lock.readers \in Nat
  BY Zenon, CountFacts
<1>3. lock' = [lock EXCEPT !.readers = @ + 1, !.wrphase = phase] /\ step' = [step EXCEPT ![t] = s]
  <2>1. ~(lock.writer = t \/ lock.readers + 1 < 0)
    BY <1>1, <1>2
  <2> QED BY Zenon, <2>1, Zenon DEF rdlock, To
<1>4. Moves(t, s, op[t])
  BY Zenon, <1>3 DEF Moves, Places
<1>5. step'[t] = s /\ op'[t] # "fromString"
  BY Zenon, <1>3 DEF Places
<1>6. ~Owner(t)' /\ ~Pending(t)' /\ Reader(t)'
  BY Zenon, <1>5 DEF Owner, Pending, Reader
<1>7. \A u \in Users : u # t => (Owner(u)' <=> Owner(u)) /\ (Pending(u)' <=> Pending(u)) /\ (Reader(u)' <=> Reader(u))
                                 /\ step'[u] = step[u]
  BY Zenon, <1>4 DEF Places, Moves, Owner, Pending, Reader
<1>8. lock' \in Locks
      /\ lock'.writer = lock.writer /\ lock'.wrlocked = lock.wrlocked /\ lock'.readers = lock.readers + 1
      /\ (lock'.wrphase <=> phase)
  <2>1. lock' = Phase(lock, lock.readers + 1, phase)
    BY Zenon, <1>3, Zenon DEF Phase
  <2>2. lock \in Locks /\ lock.readers + 1 \in Int /\ phase \in BOOLEAN
    BY DEF LockState, Locks
  <2> HIDE DEF phase
  <2>3. lock' \in Locks /\ lock'.writer = lock.writer /\ lock'.wrlocked = lock.wrlocked
        /\ lock'.readers = lock.readers + 1 /\ lock'.wrphase = phase
    BY <2>1, <2>2, PhaseFields
  <2> QED BY Zenon, <2>3, Zenon
<1>9. Count'
  <2>1. lock'.readers = lock.readers + (IF Reader(t)' THEN 1 ELSE 0) - (IF Reader(t) THEN 1 ELSE 0)
    BY <1>1, <1>2, <1>6, <1>8
  <2> QED BY SMTT(60), <1>2, <1>4, <2>1, CountMove
<1>10. \A u \in Users : (Owner(u)' <=> Owner(u)) /\ (Pending(u)' <=> Pending(u))
  BY ZenonT(60), <1>1, <1>6, <1>7
<1>11. lock.writer # Nobody => phase
  <2>1. lock.writer \in Users \cup {Nobody}
    BY Zenon DEF LockState, Locks
  <2> QED BY Zenon, <2>1 DEF LockState
<1>12. \A u \in Users : Reader(u)' /\ step'[u] = "compare" => ~phase
  BY Zenon, <1>5, <1>7 DEF LockState
<1>13. LockState'
  BY ZenonT(60), <1>8, <1>10, <1>11, <1>12 DEF LockState
<1> QED BY Zenon, <1>9, <1>13

(* RWMutex::wrlock, first half: no other writer from here on.               *)
LEMMA WriterComes ==
  ASSUME Places, LockState, Count, NEW t \in Users, NEW s \in {"outerWait", "wrwait"}, wrlock(t, s), op' = op,
         step[t] \in {"outer", "wrlock"}
  PROVE  LockState' /\ Count'
<1>1. ~Owner(t) /\ ~Pending(t) /\ ~Reader(t) /\ ~lock.wrlocked
  BY Zenon DEF Owner, Pending, Reader, wrlock
<1>2. lock' = Block(lock) /\ lock \in Locks
  BY Zenon DEF wrlock, Block, LockState
<1>3. lock' \in Locks /\ lock'.readers = lock.readers /\ lock'.wrphase = lock.wrphase /\ lock'.wrlocked
      /\ lock'.writer = lock.writer
  BY Zenon, <1>2, BlockFields
<1>4. Moves(t, s, op[t])
  BY Zenon DEF Moves, Places, wrlock, To
<1>5. step'[t] = s /\ \A u \in Users : u # t => step'[u] = step[u]
  BY Zenon, <1>4 DEF Places, Moves
<1>6. ~Owner(t)' /\ Pending(t)' /\ ~Reader(t)'
  BY Zenon, <1>5 DEF Owner, Pending, Reader
<1>7. \A u \in Users : u # t => (Owner(u)' <=> Owner(u)) /\ (Pending(u)' <=> Pending(u)) /\ (Reader(u)' <=> Reader(u))
  BY Zenon, <1>4 DEF Places, Moves, Owner, Pending, Reader
<1>8. Count'
  BY SMTT(60), <1>1, <1>3, <1>4, <1>6, CountMove, CountFacts
<1>9. LockState'
  BY ZenonT(60), <1>1, <1>3, <1>5, <1>6, <1>7 DEF LockState
<1> QED BY Zenon, <1>8, <1>9

(* RWMutex::wrlock, second half: the readers have left.                     *)
LEMMA WriterEnters ==
  ASSUME Places, LockState, Count, NEW t \in Users, NEW s \in {"leave", "convert", "assign"}, wrwait(t), To(t, s),
         op' = op, Pending(t)
  PROVE  LockState' /\ Count'
<1>1. ~Owner(t) /\ ~Reader(t) /\ (lock.wrphase \/ lock.readers = 0)
  BY Zenon DEF Owner, Pending, Reader, wrwait
<1>2. lock' = Enter(lock, t) /\ lock \in Locks
  BY Zenon DEF wrwait, Enter, LockState
<1>3. lock' \in Locks /\ lock'.readers = lock.readers /\ lock'.wrphase /\ lock'.wrlocked = lock.wrlocked
      /\ lock'.writer = t
  BY Zenon, <1>2, EnterFields
<1>4. Moves(t, s, op[t])
  BY Zenon DEF Moves, Places, To
<1>5. step'[t] = s /\ \A u \in Users : u # t => step'[u] = step[u]
  BY Zenon, <1>4 DEF Places, Moves
<1>6. Owner(t)' /\ ~Pending(t)' /\ ~Reader(t)'
  BY Zenon, <1>5 DEF Owner, Pending, Reader
<1>7. \A u \in Users : u # t => (Owner(u)' <=> Owner(u)) /\ (Pending(u)' <=> Pending(u)) /\ (Reader(u)' <=> Reader(u))
  BY ZenonT(60), <1>4 DEF Places, Moves, Owner, Pending, Reader
<1>8. Count'
  BY SMTT(60), <1>1, <1>3, <1>4, <1>6, CountMove, CountFacts
<1>9. \A u \in Users : Reader(u)' => step'[u] # "compare"
  BY ZenonT(60), <1>1, <1>5, <1>6, <1>7, CountFacts DEF LockState
<1>10. \A u \in Users : u # t => ~Owner(u)' /\ ~Pending(u)'
  BY Zenon, <1>7 DEF LockState
<1>11. LockState'
  BY ZenonT(60), <1>3, <1>6, <1>9, <1>10, NobodyAssumption DEF LockState
<1> QED BY Zenon, <1>8, <1>11

(* What a call that is over, and the end of setValue, do to t's place.      *)
LEMMA EndMoves ==
  ASSUME Places, NEW t \in Users
  PROVE  /\ Done(t) => Moves(t, "none", "none")
         /\ \A l : Finish(t, l) => \E s \in {"none", "outerUnlock"} : \E o : Moves(t, s, o) /\ (s = "none" <=> o = "none")
                                                              /\ (s # "none" => o = op[t])
<1>1. Done(t) => Moves(t, "none", "none")
  BY Zenon DEF Done, Moves, To
<1>2. ASSUME NEW l, Finish(t, l), op[t] = "fromString" PROVE Moves(t, "outerUnlock", op[t])
  BY Zenon, <1>2 DEF Finish, Moves, To, Places
<1>3. ASSUME NEW l, Finish(t, l), op[t] # "fromString" PROVE Moves(t, "none", "none")
  BY Zenon, <1>1, <1>3 DEF Finish
<1> QED BY ZenonT(60), <1>1, <1>2, <1>3

(* Every step keeps the invariant of the lock until the end of the first    *)
(* fromString, which is when loads is no longer 0.                          *)
LEMMA ConfigNextLock == LockIInv /\ [ConfigNext]_configVars => LockIInv'
<1> SUFFICES ASSUME LockIInv, [ConfigNext]_configVars PROVE LockIInv'
  OBVIOUS
<1>1. CASE UNCHANGED configVars
  BY <1>1 DEF LockIInv, Places, LockState, Count, ReadersIn, Owner, Pending, Reader, configVars
<1>2. ASSUME NEW t \in Users, outerUnlock(t) PROVE LockIInv'
  BY <1>2 DEF outerUnlock, LockIInv
<1> DEFINE Steady == UNCHANGED loads /\ (loads = 0 => Places' /\ LockState' /\ Count')
<1>3. Steady => LockIInv'
  BY Zenon DEF LockIInv
<1>4. ASSUME NEW t \in Users, NEW o \in Operations, NEW v \in Values, Call(t, o, v) PROVE Steady
  <2> DEFINE s == IF o \in {"fromString", "addListener"} THEN "outer" ELSE "rdlock"
  <2> SUFFICES ASSUME Places, LockState, Count PROVE Places' /\ LockState' /\ Count'
    BY Zenon, <1>4 DEF Call, LockIInv
  <2>1. Moves(t, s, o) /\ lock' = lock /\ s \in Steps
    BY Zenon, <1>4 DEF Call, Moves, To, Steps
  <2>2. step[t] = "none" /\ op[t] = "none" /\ step'[t] = s /\ op'[t] = o
    BY Zenon, <1>4, <2>1 DEF Call, Places, Moves
  <2>3. ~Owner(t) /\ ~Pending(t) /\ ~Reader(t) /\ ~Owner(t)' /\ ~Pending(t)' /\ ~Reader(t)'
    BY Zenon, <2>2 DEF Owner, Pending, Reader, Operations
  <2>4. Places'
    BY ZenonT(60), <2>1, <2>2 DEF Places, Moves, Operations, Steps
  <2> QED BY ZenonT(60), <2>1, <2>3, <2>4, PlainMove
<1>5. ASSUME NEW t \in Users, UserStep(t), ~outerUnlock(t) PROVE Steady
  <2>1. UNCHANGED loads
    BY Zenon, <1>5 DEF UserStep, outerLock, outerWait, leave, convert, readLock, readWait, getValue, equal, tell, writeLock,
                writeWait, assign, Stay, Finish
  <2> SUFFICES ASSUME Places, LockState, Count PROVE Places' /\ LockState' /\ Count'
    BY Zenon, <2>1 DEF LockIInv
  <2>2. CASE outerLock(t)
    BY ZenonT(60), <2>2, WriterComes, ZenonT(60) DEF outerLock, At, Stay, Places, wrlock, To, Steps
  <2>3. CASE outerWait(t)
    BY ZenonT(60), <2>3, WriterEnters, ZenonT(60) DEF outerWait, At, Stay, Places, To, Steps, Pending
  <2>4. CASE leave(t)
    <3>1. Moves(t, "none", "none") /\ lock' = unlocked(lock, t) /\ Owner(t)
      BY ZenonT(60), <2>4, EndMoves DEF leave, At, Owner
    <3>2. ~Owner(t)' /\ ~Pending(t)' /\ ~Reader(t)' /\ Places'
      BY ZenonT(60), <3>1 DEF Moves, Places, Owner, Pending, Reader, Steps
    <3> QED BY ZenonT(60), <3>1, <3>2, WriterLeaves DEF Steps
  <2>5. CASE convert(t)
    <3>1. Moves(t, "rdlock", op[t]) /\ lock' = lock /\ step[t] = "convert" /\ op[t] = "fromString"
      BY Zenon, <2>5 DEF convert, At, Stay, Moves, To, Places
    <3>2. Owner(t) /\ Owner(t)' /\ ~Pending(t) /\ ~Pending(t)' /\ ~Reader(t) /\ ~Reader(t)' /\ Places'
      BY ZenonT(60), <3>1 DEF Moves, Places, Owner, Pending, Reader, Steps
    <3> QED BY ZenonT(60), <3>1, <3>2, PlainMove DEF Steps
  <2>6. CASE readLock(t) /\ op[t] # "fromString"
    <3>1. LockState' /\ Count'
      BY ZenonT(60), <2>6, ReaderComes DEF readLock, At, Stay
    <3>2. Places'
      BY Zenon, <2>6 DEF readLock, At, Stay, rdlock, To, Places, Steps
    <3> QED BY Zenon, <3>1, <3>2
  <2>7. CASE readLock(t) /\ op[t] = "fromString"
    <3>1. lock.writer = t
      BY Zenon, <2>7 DEF readLock, At, LockState, Owner
    <3>2. Moves(t, "compare", op[t]) /\ lock' = lock
      BY ZenonT(60), <2>7, <3>1 DEF readLock, rdlock, To, Stay, Moves, Places
    <3>3. Owner(t) /\ Owner(t)' /\ ~Pending(t) /\ ~Pending(t)' /\ ~Reader(t) /\ ~Reader(t)' /\ Places'
      BY Zenon, <2>7, <3>2 DEF readLock, At, Moves, Places, Owner, Pending, Reader, Steps
    <3> QED BY ZenonT(60), <3>2, <3>3, PlainMove DEF Steps
  <2>8. CASE readWait(t)
    <3>1. Moves(t, "compare", op[t]) /\ lock' = lock /\ ~lock.wrphase /\ step[t] = "rdwait" /\ op[t] # "fromString"
      BY Zenon, <2>8 DEF readWait, rdwait, At, Stay, Moves, To, Places
    <3>2. ~Owner(t) /\ ~Owner(t)' /\ ~Pending(t) /\ ~Pending(t)' /\ Reader(t) /\ Reader(t)' /\ Places'
      BY ZenonT(60), <3>1 DEF Moves, Places, Owner, Pending, Reader, Steps
    <3> QED BY ZenonT(60), <3>1, <3>2, PlainMove DEF Steps
  <2>9. ASSUME NEW s \in {"none", "outerUnlock", "wrlock"}, NEW o, Moves(t, s, o), s = "none" <=> o = "none",
               s # "none" => o = op[t], lock' = unlocked(lock, t),
               step[t] = "compare" \/ step[t] = "assign"
        PROVE  Places' /\ LockState' /\ Count'
    <3>1. ~Owner(t)' /\ ~Pending(t)' /\ ~Reader(t)' /\ Places' /\ s \in Steps
      BY ZenonT(60), <2>9 DEF Moves, Places, Owner, Pending, Reader, Steps
    <3>2. CASE Owner(t)
      BY ZenonT(60), <2>9, <3>1, <3>2, WriterLeaves
    <3>3. CASE ~Owner(t)
      <4>1. Reader(t) /\ step[t] = "compare"
        BY Zenon, <2>9, <3>3 DEF Owner, Reader
      <4> QED BY ZenonT(60), <2>9, <3>1, <4>1, ReaderLeaves
    <3> QED BY ZenonT(60), <3>2, <3>3
  <2>10. CASE getValue(t)
    BY ZenonT(60), <2>9, <2>10, EndMoves DEF getValue, At
  <2>11. CASE equal(t)
    <3>1. Finish(t, unlocked(lock, t)) /\ step[t] = "compare" /\ lock' = unlocked(lock, t)
      BY Zenon, <2>11 DEF equal, At, Finish
    <3> QED BY ZenonT(60), <2>9, <3>1, EndMoves
  <2>12. CASE assign(t)
    <3>1. Finish(t, unlocked(lock, t)) /\ step[t] = "assign" /\ lock' = unlocked(lock, t)
      BY Zenon, <2>12 DEF assign, At, Finish
    <3> QED BY ZenonT(60), <2>9, <3>1, EndMoves
  <2>13. CASE tell(t)
    <3>1. Moves(t, "wrlock", op[t]) /\ op[t] # "none" /\ step[t] = "compare" /\ lock' = unlocked(lock, t)
      BY Zenon, <2>13 DEF tell, Setting, At, To, Moves, Places
    <3> QED BY Zenon, <2>9, <3>1
  <2>14. CASE writeLock(t)
    BY ZenonT(60), <2>14, WriterComes, ZenonT(60) DEF writeLock, At, Stay, Places, wrlock, To, Steps
  <2>15. CASE writeWait(t)
    BY ZenonT(60), <2>15, WriterEnters, ZenonT(60) DEF writeWait, At, Stay, Places, To, Steps, Pending
  <2> QED BY ZenonT(60), <1>5, <2>2, <2>3, <2>4, <2>5, <2>6, <2>7, <2>8, <2>10, <2>11, <2>12, <2>13, <2>14, <2>15 DEF UserStep
<1> QED BY ZenonT(60), <1>1, <1>2, <1>3, <1>4, <1>5 DEF ConfigNext

(* For any number of threads the lock of a variable does what a lock does,  *)
(* until a fromString has come to its end (config.h:311-349).               *)
THEOREM LockWorks == ConfigSpec => []LockRight
<1>1. ConfigInit => LockIInv
  <2> SUFFICES ASSUME ConfigInit PROVE LockIInv
    OBVIOUS
  <2>1. \A t \in Users : step[t] = "none" /\ op[t] = "none" /\ ~Owner(t) /\ ~Pending(t) /\ ~Reader(t)
    BY Zenon DEF ConfigInit, Owner, Pending, Reader
  <2>2. ReadersIn = {} /\ lock.readers = 0
    BY Zenon, <2>1 DEF ReadersIn, Reader, ConfigInit
  <2>3. Count
    BY Zenon, <2>2, FS_EmptySet DEF Count
  <2>4. Places
    BY Zenon DEF ConfigInit, Places, Steps
  <2>5. lock \in Locks /\ lock.writer = Nobody /\ ~lock.wrlocked /\ ~lock.wrphase
    BY DEF ConfigInit, Locks
  <2>6. LockState
    BY ZenonT(60), <2>1, <2>5, NobodyAssumption DEF LockState
  <2> QED BY Zenon, <2>3, <2>4, <2>6 DEF LockIInv, ConfigInit
<1>2. LockIInv => LockRight
  <2> SUFFICES ASSUME LockIInv, loads = 0 PROVE LockRight
    BY Zenon DEF LockRight
  <2>1. \A t \in Users : Writes(t) => Owner(t)
    BY Zenon DEF Writes, Owner
  <2>2. \A t \in Users : At(t, "compare") => Owner(t) \/ (Reader(t) /\ step[t] = "compare")
    BY Zenon DEF At, Owner, Reader
  <2>3. ASSUME NEW t \in Users, NEW u \in Users, t # u, Writes(t) PROVE ~Writes(u) /\ ~At(u, "compare")
    <3>1. lock.writer = t /\ ~Owner(u) /\ lock.wrphase
      BY ZenonT(60), <2>1, <2>3, NobodyAssumption DEF LockIInv, LockState
    <3> QED BY ZenonT(60), <2>1, <2>2, <3>1 DEF LockIInv, LockState
  <2> QED BY Zenon, <2>3 DEF LockRight, LockIInv, Count
<1> QED BY <1>1, <1>2, ConfigNextLock, PTL DEF ConfigSpec

-----------------------------------------------------------------------------
(* The store.                                                               *)

(* A step of the store is a step of one of its parts, and leaves the others *)
(* as they are.                                                             *)
LEMMA StoreParts ==
  ASSUME [Next]_vars
  PROVE  [BytesNext]_bytesVars /\ [ConfigNext]_configVars /\ [RegistryNext]_registryVars /\ [LogNext]_logVars
<1>1. CASE Next
  BY Zenon, <1>1 DEF Next
<1>2. CASE UNCHANGED vars
  BY Zenon, <1>2 DEF vars
<1> QED
  BY Zenon, <1>1, <1>2

(* All that the run of the store checks of its states holds for nodes of    *)
(* any size, for numbers of any width, and for any threads, values, types,  *)
(* appenders and entries (bytearray.cc, config.h:311-386, log.cc:291-338).  *)
THEOREM StoreIsSound == Spec => []StoreSound
<1>1. Spec => BytesSpec /\ ConfigSpec /\ RegistrySpec /\ LogInit /\ [][LogNext]_logVars
  BY StoreParts, PTL DEF Spec, Init, BytesSpec, ConfigSpec, RegistrySpec
<1>2. LogInit /\ [][LogNext]_logVars => []CrashOnlyByRace
  <2>1. LogIInv => CrashOnlyByRace
    BY Zenon DEF LogIInv, CrashOnlyByRace
  <2> QED
    BY <2>1, LogInitIInv, LogNextIInv, PTL
<1>3. VarintRight /\ ZigzagRight
  BY CodesAreRight
<1>4. (CurRight /\ NullAtEnd) /\ LikeSequence /\ FileRight /\ LockRight /\ ToldRight /\ OneVariable /\ CrashOnlyByRace
      => StoreSound
  BY Zenon, <1>3 DEF StoreSound, ByteArraySound, ConfigSound
<1> QED
  BY <1>1, <1>2, <1>4, CurStaysRight, ArrayIsSequence, FilesAreRight, LockWorks, ListenersKnow, OneRegistered, PTL

(* So the logger of the store is a flat log, whatever else the store does.  *)
THEOREM StoreRefinesFlat == Spec => LogImplementsFlat
BY StoreParts, LogRefinesFlat, PTL DEF Spec, Init
=============================================================================
