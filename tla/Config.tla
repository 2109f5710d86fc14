------------------------------- MODULE Config -------------------------------
(***************************************************************************)
(* One configuration variable, ConfigVar (config.h), with its lock and a   *)
(* listener, used by several threads; and the registry of variables,       *)
(* Config::Lookup.                                                         *)
(*                                                                         *)
(* fromString takes the write lock and calls setValue, which takes the     *)
(* read lock of the same variable, releases it, and takes the write lock.  *)
(* What that does is up to the lock: the pthread_rwlock_t of glibc, whose  *)
(* errors RWMutex (mutex.h:221) does not look at.                          *)
(***************************************************************************)
EXTENDS Integers, FiniteSets

CONSTANTS
  Users,             \* threads
  Values,            \* the values of the variable; one of them is the default
  Default,
  Types,             \* the types that Lookup is called with
  MaxConfigCalls,    \* bound: calls of operations on the variable, and of Lookup
  Nobody

ASSUME NobodyAssumption == Nobody \notin Users

VARIABLES
  lock,      \* [readers, wrphase, wrlocked, writer] of pthread_rwlock_t
  m_val,
  told,      \* the value that the listener was told last
  op, step,  \* per thread: the operation it is in, and where
  arg,       \* per thread: the new value
  calls,     \* calls so far
  loads,     \* history: calls of fromString that have released the lock twice
  overlap    \* history: setValue ran while another one had told but not written

configVars == <<lock, m_val, told, op, step, arg, calls, loads, overlap>>

Operations == {"getValue", "setValue", "fromString", "addListener"}
ConfigInit ==
  /\ lock = [readers |-> 0, wrphase |-> FALSE, wrlocked |-> FALSE, writer |-> Nobody]
  /\ m_val = Default /\ told = Default /\ calls = 0 /\ loads = 0 /\ overlap = FALSE
  /\ op = [t \in Users |-> "none"] /\ step = [t \in Users |-> "none"] /\ arg = [t \in Users |-> Default]

-----------------------------------------------------------------------------
(* glibc.  In the write phase there may be a writer, in the read phase     *)
(* readers; readers counts those inside and those who wait for the phase.  *)
At(t, s) == step[t] = s
To(t, s) == step' = [step EXCEPT ![t] = s]

(* The writer itself gets EDEADLK, an overflow of the count EAGAIN: both   *)
(* go on as if they had the lock.                                          *)
rdlock(t, next, wait) ==
  LET bad == lock.writer = t \/ lock.readers + 1 < 0
      phase == lock.wrphase /\ lock.wrlocked
  IN  /\ To(t, IF bad \/ ~phase THEN next ELSE wait)
      /\ lock' = IF bad THEN lock ELSE [lock EXCEPT !.readers = @ + 1, !.wrphase = phase]
rdwait(t, next) == ~lock.wrphase /\ To(t, next) /\ UNCHANGED lock

wrlock(t, wait) == ~lock.wrlocked /\ lock' = [lock EXCEPT !.wrlocked = TRUE] /\ To(t, wait)
wrwait(t) ==
  /\ lock.wrphase \/ lock.readers = 0
  /\ lock' = [lock EXCEPT !.wrphase = TRUE, !.writer = t]

unlocked(l, t) ==
  IF l.writer = t
  THEN [l EXCEPT !.writer = Nobody, !.wrlocked = FALSE, !.wrphase = l.readers = 0]
  ELSE [l EXCEPT !.readers = @ - 1, !.wrphase = @ \/ (l.readers = 1 /\ l.wrlocked)]

-----------------------------------------------------------------------------
Call(t, o, v) ==
  /\ op[t] = "none" /\ calls < MaxConfigCalls /\ calls' = calls + 1
  /\ o \in {"getValue", "addListener"} => v = Default
  /\ op' = [op EXCEPT ![t] = o] /\ arg' = [arg EXCEPT ![t] = v]
  /\ To(t, IF o \in {"fromString", "addListener"} THEN "outer" ELSE "rdlock")
  /\ UNCHANGED <<lock, m_val, told, loads, overlap>>
Done(t) ==
  /\ op' = [op EXCEPT ![t] = "none"] /\ arg' = [arg EXCEPT ![t] = Default] /\ To(t, "none")
  /\ UNCHANGED calls
Stay == UNCHANGED <<m_val, told, op, arg, calls, loads, overlap>>

(* The write lock of fromString and addListener.                           *)
outerLock(t) == At(t, "outer") /\ wrlock(t, "outerWait") /\ Stay
outerWait(t) ==
  /\ At(t, "outerWait") /\ wrwait(t) /\ To(t, IF op[t] = "addListener" THEN "leave" ELSE "convert") /\ Stay

(* addListener's assignments, or a conversion that throws.                 *)
leave(t) ==
  /\ At(t, "leave") \/ At(t, "convert")
  /\ lock' = unlocked(lock, t) /\ Done(t) /\ UNCHANGED <<m_val, told, loads, overlap>>
convert(t) == At(t, "convert") /\ To(t, "rdlock") /\ UNCHANGED lock /\ Stay

readLock(t) == At(t, "rdlock") /\ rdlock(t, "compare", "rdwait") /\ Stay
readWait(t) == At(t, "rdwait") /\ rdwait(t, "compare") /\ Stay

(* getValue reads; it returns a reference, whose use is after the lock.    *)
getValue(t) ==
  /\ At(t, "compare") /\ op[t] = "getValue" /\ lock' = unlocked(lock, t) /\ Done(t)
  /\ UNCHANGED <<m_val, told, loads, overlap>>

(* The end of setValue, after which fromString has its own lock to release.*)
Setting(t) == op[t] \in {"setValue", "fromString"}
Finish(t, l) ==
  /\ lock' = l
  /\ IF op[t] = "fromString" THEN To(t, "outerUnlock") /\ UNCHANGED <<op, arg, calls>> ELSE Done(t)
  /\ UNCHANGED loads

(* setValue has released the write lock already.                           *)
outerUnlock(t) ==
  /\ At(t, "outerUnlock") /\ lock' = unlocked(lock, t) /\ loads' = loads + 1 /\ Done(t)
  /\ UNCHANGED <<m_val, told, overlap>>

(* The value is the old one: return.                                       *)
equal(t) ==
  /\ At(t, "compare") /\ Setting(t) /\ arg[t] = m_val
  /\ Finish(t, unlocked(lock, t)) /\ UNCHANGED <<m_val, told, overlap>>

(* The listeners are told ...                                              *)
tell(t) ==
  /\ At(t, "compare") /\ Setting(t) /\ arg[t] # m_val
  /\ told' = arg[t] /\ lock' = unlocked(lock, t) /\ To(t, "wrlock")
  /\ overlap' = (overlap \/ \E u \in Users : step[u] \in {"wrlock", "wrwait", "assign"})
  /\ UNCHANGED <<m_val, op, arg, calls, loads>>

(* ... and then the value is written, under another lock.                  *)
writeLock(t) == At(t, "wrlock") /\ wrlock(t, "wrwait") /\ Stay
writeWait(t) == At(t, "wrwait") /\ wrwait(t) /\ To(t, "assign") /\ Stay

assign(t) ==
  /\ At(t, "assign") /\ m_val' = arg[t] /\ Finish(t, unlocked(lock, t)) /\ UNCHANGED <<told, overlap>>

UserStep(t) ==
  \/ outerLock(t) \/ outerWait(t) \/ leave(t) \/ convert(t) \/ readLock(t) \/ readWait(t)
  \/ getValue(t) \/ equal(t) \/ tell(t) \/ writeLock(t) \/ writeWait(t) \/ assign(t) \/ outerUnlock(t)
ConfigNext == \E t \in Users : UserStep(t) \/ \E o \in Operations, v \in Values : Call(t, o, v)

(* The kernel runs every thread that can go on.                            *)
ConfigSpec == ConfigInit /\ [][ConfigNext]_configVars /\ \A t \in Users : WF_configVars(UserStep(t))
-----------------------------------------------------------------------------
(* The registry for one name: Lookup with a default looks the name up,     *)
(* under the read lock, and creates the variable, under the write lock,    *)
(* when it found none of its type.                                         *)
VARIABLES
  GetDatas,  \* the variable registered under the name, or Nobody
  looking,   \* per thread: the type it has looked for in vain, or Nobody
  handed,    \* the variables that Lookup has returned: [id, type]
  lookups,   \* calls so far, which number the variables
  replaced   \* history: what an insertion has replaced: {}, "race", "type"

registryVars == <<GetDatas, looking, handed, lookups, replaced>>
RegistryInit ==
  GetDatas = Nobody /\ looking = [t \in Users |-> Nobody] /\ handed = {} /\ lookups = 0 /\ replaced = {}

Lookup(t, type) ==
  /\ looking[t] = Nobody /\ lookups < MaxConfigCalls /\ lookups' = lookups + 1
  /\ IF GetDatas # Nobody /\ GetDatas.type = type
     THEN handed' = handed \cup {GetDatas} /\ UNCHANGED looking
     ELSE looking' = [looking EXCEPT ![t] = [type |-> type, id |-> lookups + 1]] /\ UNCHANGED handed
  /\ UNCHANGED <<GetDatas, replaced>>

Insert(t) ==
  /\ looking[t] # Nobody
  /\ GetDatas' = looking[t] /\ handed' = handed \cup {looking[t]} /\ looking' = [looking EXCEPT ![t] = Nobody]
  /\ replaced' = replaced \cup
       (IF GetDatas = Nobody THEN {} ELSE IF GetDatas.type = looking[t].type THEN {"race"} ELSE {"type"})
  /\ UNCHANGED lookups
RegistryNext == \E t \in Users : Insert(t) \/ \E type \in Types : Lookup(t, type)
RegistrySpec == RegistryInit /\ [][RegistryNext]_registryVars
-----------------------------------------------------------------------------
(* While nobody has come to the end of fromString, the lock does what a    *)
(* lock does: its count is that of the readers, and whoever writes under   *)
(* it (assign, the listeners' map, fromString's conversion) is alone.      *)
Writes(t) == step[t] \in {"assign", "leave", "convert"}
ReadersIn == {t \in Users : step[t] \in {"rdwait", "compare"} /\ op[t] # "fromString"}
LockRight ==
  loads = 0 =>
    /\ lock.readers = Cardinality(ReadersIn)
    /\ \A t, u \in Users : t # u /\ Writes(t) => ~Writes(u) /\ ~At(u, "compare")

(* The listener knows the value, except between tell and assign, unless    *)
(* two calls of setValue were there at once: they may write in the other   *)
(* order than they told (config.h:335-340).                                *)
ToldRight ==
  (\A t \in Users : step[t] \notin {"wrlock", "wrwait", "assign"}) => told = m_val \/ overlap

(* All holders of a variable hold the one that LoadFromYaml changes,       *)
(* unless two looked for it before one of them had created it, or it was   *)
(* looked up under another type, which replaces it (config.h:381-382).     *)
OneVariable == replaced = {} => handed \subseteq {GetDatas}

(* The configuration: see its three parts.                                 *)
ConfigSound == LockRight /\ ToldRight /\ OneVariable

(* Every call on a variable returns as long as it was not loaded from a    *)
(* string: fromString releases the lock twice, and after that the count of *)
(* readers is -1 when they have left, which a writer waits for to be 0.    *)
CallsReturn == <>[](loads > 0 \/ \A t \in Users : op[t] = "none")
=============================================================================
