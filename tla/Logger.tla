------------------------------- MODULE Logger -------------------------------
(***************************************************************************)
(* The asynchronous logger (log.cc): log() writes into currentBuffer under *)
(* m_mutex; the thread of the logger swaps it with bufferToWrite under the *)
(* mutex and gives that to the appenders without it; the listener of the   *)
(* configuration changes appenders and level.  An entry is its bytes, the  *)
(* files are what was written to them.                                     *)
(***************************************************************************)
EXTENDS ByteArray

CONSTANTS
  Producers,         \* threads that log
  Appenders,         \* FileLogAppender objects
  Watched,           \* the one that is there from the start
  NoAppender,
  Lengths,           \* the lengths of entries
  MaxEntries,        \* bound: entries that are ever logged
  MaxChanges         \* bound: changes of the configuration

ASSUME LoggerAssumption == Watched \in Appenders /\ Lengths \subseteq Nat /\ MaxEntries \in Nat

VARIABLES
  currentBuffer, bufferToWrite,
  running_,
  m_appenders,       \* sequence of appenders
  m_stdoutAppender,  \* there is one
  m_level,           \* entries pass: "low", or none does: "off"
  pc,                \* where asyncLogFunc is
  appender,          \* its place in the list: the appender at hand
  doing,             \* per producer: "idle", "stdout" or "lock" inside log()
  files,             \* per appender: what has been written to it
  entries,           \* entries so far; the bytes of an entry are its number
  changes,           \* changes of the configuration so far
  alive,             \* the logger has not been destroyed
  crashed,           \* a freed object was used
  raced              \* history: an appender was removed while it was in use

bufferVars == <<currentBuffer, bufferToWrite>>
setVars == <<m_appenders, m_stdoutAppender, m_level, changes>>
logVars == <<bufferVars, setVars, running_, pc, appender, doing, files, entries, alive, crashed, raced>>

LogInit ==
  /\ currentBuffer = ByteArray /\ bufferToWrite = ByteArray /\ running_ = TRUE
  /\ m_appenders = <<Watched>> /\ m_stdoutAppender = TRUE /\ m_level = "low" /\ changes = 0
  /\ pc = "loop" /\ appender = NoAppender /\ doing = [p \in Producers |-> "idle"]
  /\ files = [x \in Appenders |-> <<>>] /\ entries = 0 /\ alive = TRUE /\ crashed = FALSE /\ raced = FALSE

Listed == {m_appenders[i] : i \in 1..Len(m_appenders)}
Up == alive /\ ~crashed

-----------------------------------------------------------------------------
(* log(): the level, the standard output, and the buffer.                  *)
log(p) ==
  /\ Up /\ doing[p] = "idle" /\ m_level = "low"
  /\ doing' = [doing EXCEPT ![p] = IF m_stdoutAppender THEN "stdout" ELSE "lock"]
  /\ UNCHANGED <<bufferVars, setVars, running_, pc, appender, files, entries, alive, crashed, raced>>

(* m_stdoutAppender is read without the mutex.                             *)
logStdout(p) ==
  /\ ~crashed /\ doing[p] = "stdout"
  /\ crashed' = ~m_stdoutAppender /\ doing' = [doing EXCEPT ![p] = "lock"]
  /\ UNCHANGED <<bufferVars, setVars, running_, pc, appender, files, entries, alive, raced>>

Entry(n) == [i \in 1..n |-> entries + 1]
writeString(p, n) ==
  /\ ~crashed /\ doing[p] = "lock" /\ entries < MaxEntries /\ entries' = entries + 1
  /\ currentBuffer' = write(currentBuffer, Entry(n)) /\ doing' = [doing EXCEPT ![p] = "idle"]
  /\ UNCHANGED <<bufferToWrite, setVars, running_, pc, appender, files, alive, crashed, raced>>

-----------------------------------------------------------------------------
(* asyncLogFunc                                                            *)
Goto(label) == pc' = label /\ UNCHANGED <<setVars, doing, entries, alive, raced>>
(* A step after the destruction of the logger uses its members.            *)
InThread(label) == ~crashed /\ pc = label
Freed == crashed' = ~alive

loop ==
  /\ InThread("loop") /\ Goto(IF running_ THEN "lock" ELSE "end") /\ Freed
  /\ UNCHANGED <<bufferVars, running_, appender, files>>

(* With nothing to write the thread waits, which gives the mutex back; the *)
(* wait is always over after flushInterval_, as nobody notifies.           *)
swap == currentBuffer' = bufferToWrite /\ bufferToWrite' = currentBuffer
lockAndSwap ==
  /\ InThread("lock") /\ Freed
  /\ IF getSize(currentBuffer) = 0 THEN Goto("wait") /\ UNCHANGED bufferVars ELSE swap /\ Goto("write")
  /\ UNCHANGED <<running_, appender, files>>

(* Mutant: a wait without a limit, for a notification nobody sends.        *)
waitNotified == InThread("wait") /\ FALSE /\ Freed /\ swap /\ Goto("write") /\ UNCHANGED <<running_, appender, files>>

waitForSeconds == InThread("wait") /\ Freed /\ swap /\ Goto("write") /\ UNCHANGED <<running_, appender, files>>

(* bufferToWrite from its beginning, to each appender ...                  *)
setPosition0 ==
  /\ InThread("write") /\ Freed /\ bufferToWrite' = setPosition(bufferToWrite, 0)
  /\ IF getReadSize(bufferToWrite') = 0 THEN Goto("loop") /\ UNCHANGED appender
     ELSE /\ Goto(IF m_appenders = <<>> THEN "clear" ELSE "append")
          /\ appender' = IF m_appenders = <<>> THEN NoAppender ELSE Head(m_appenders)
  /\ UNCHANGED <<currentBuffer, running_, files>>

(* ... which it walks through without the mutex.                           *)
append ==
  /\ InThread("append")
  /\ crashed' = (~alive \/ appender \notin Listed)
  /\ files' = IF crashed' THEN files ELSE [files EXCEPT ![appender] = @ \o writeToFile(bufferToWrite)]
  /\ LET later == {i \in 2..Len(m_appenders) : m_appenders[i - 1] = appender}
     IN  IF later = {} THEN Goto("clear") /\ appender' = NoAppender
         ELSE Goto("append") /\ appender' = m_appenders[CHOOSE i \in later : TRUE]
  /\ UNCHANGED <<bufferVars, running_>>

(* Mutant: the buffer is not cleared, and comes back after the next swap.  *)
clearBufferNot ==
  /\ InThread("clear") /\ Freed /\ Goto("loop") /\ UNCHANGED <<bufferVars, running_, appender, files>>

clearBuffer ==
  /\ InThread("clear") /\ Freed /\ bufferToWrite' = clear(bufferToWrite) /\ Goto("loop")
  /\ UNCHANGED <<currentBuffer, running_, appender, files>>

-----------------------------------------------------------------------------
(* The listener of the configuration, and the users of the logger.         *)
Change ==
  /\ Up /\ changes < MaxChanges /\ changes' = changes + 1
  /\ UNCHANGED <<bufferVars, running_, pc, appender, doing, files, entries, alive, crashed>>
addAppender(x) ==
  /\ Change /\ x \notin Listed \cup {Watched} /\ m_appenders' = Append(m_appenders, x)
  /\ UNCHANGED <<m_stdoutAppender, m_level, raced>>
setStdoutAppender == Change /\ m_stdoutAppender' = TRUE /\ UNCHANGED <<m_appenders, m_level, raced>>

(* std::list::erase.                                                       *)
erase(s, i) == [j \in 1..(Len(s) - 1) |-> IF j < i THEN s[j] ELSE s[j + 1]]
deleteAppender(x) ==
  /\ Change
  /\ \E i \in 1..Len(m_appenders) :
       /\ m_appenders[i] = x /\ \A j \in 1..(i - 1) : m_appenders[j] # x
       /\ m_appenders' = erase(m_appenders, i)
  /\ raced' = (raced \/ x = appender)
  /\ UNCHANGED <<m_stdoutAppender, m_level>>
clearAppenders ==
  /\ Change /\ m_appenders' = <<>> /\ m_stdoutAppender' = FALSE
  /\ raced' = (raced \/ appender \in Listed \/ \E p \in Producers : doing[p] = "stdout")
  /\ UNCHANGED m_level
setLevel(v) == Change /\ m_level' = v /\ UNCHANGED <<m_appenders, m_stdoutAppender, raced>>

(* stop(); start() does the same.                                          *)
stop ==
  /\ Up /\ running_ /\ running_' = FALSE
  /\ UNCHANGED <<bufferVars, setVars, pc, appender, doing, files, entries, alive, crashed, raced>>

(* ~Logger, when nobody has a pointer any more: stop(), and the members    *)
(* are gone while the detached thread may still run.                       *)
destroy ==
  /\ Up /\ \A p \in Producers : doing[p] = "idle"
  /\ running_' = FALSE /\ alive' = FALSE /\ raced' = (raced \/ pc # "end")
  /\ UNCHANGED <<bufferVars, setVars, pc, appender, doing, files, entries, crashed>>

LogThread == loop \/ lockAndSwap \/ waitForSeconds \/ setPosition0 \/ append \/ clearBuffer
Producer(p) == log(p) \/ logStdout(p) \/ \E n \in Lengths : writeString(p, n)
Changes ==
  \/ setStdoutAppender \/ clearAppenders \/ \E v \in {"low", "off"} : setLevel(v)
  \/ \E x \in Appenders : addAppender(x) \/ deleteAppender(x)
LogNext == LogThread \/ (\E p \in Producers : Producer(p)) \/ Changes \/ stop \/ destroy

(* The thread of the logger runs on; the others may stop at any time.      *)
LogSpec == LogInit /\ [][LogNext]_logVars /\ WF_logVars(LogThread)
-----------------------------------------------------------------------------
(* What FlatLog calls the queue of a file: the bytes of bufferToWrite that *)
(* it has still to get, and those of currentBuffer.  Watched is the first  *)
(* of the list.                                                            *)
Content(b) == getReadBuffers(b, b.m_size, 0)
Attached == alive /\ ~crashed /\ Watched \in Listed
Queue ==
  IF ~Attached THEN <<>>
  ELSE (IF pc = "write" \/ (pc = "append" /\ appender = Watched) THEN Content(bufferToWrite) ELSE <<>>)
       \o Content(currentBuffer)
Flat == INSTANCE FlatLog WITH
  Entries <- {[i \in 1..n |-> k] : n \in Lengths, k \in 1..MaxEntries},
  queue <- Queue, file <- files[Watched], attached <- Attached

(* The two buffers, the swap and the walk through the appenders implement  *)
(* the log: no byte of an entry is lost, doubled or out of order between   *)
(* log() and the file, while the file is attached.                         *)
LogImplementsFlat == Flat!FlatSpec

(* While the logger runs, all that was logged comes into the file; after   *)
(* stop() what the thread has not swapped yet never does (log.cc:309).     *)
EntriesFlushed == <>[](running_ /\ Attached => Queue = <<>>)

(* The logger uses a freed object only when an appender was removed while  *)
(* it was in use without the mutex (log.cc:297, 330), or the logger was    *)
(* destroyed before its thread had ended.                                  *)
CrashOnlyByRace == crashed => raced
=============================================================================
