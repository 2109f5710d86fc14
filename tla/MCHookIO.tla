------------------------------ MODULE MCHookIO ------------------------------
(* Two fibers and the programs they may run, each a sequence of calls on   *)
(* the socket 1 they are given and on the ones they open.                  *)
EXTENDS HookIO, TLC
CONSTANTS f1, f2

Call(op, n, s, on) == [op |-> op, fd |-> n, sock |-> s, on |-> on]
c(op, s) == Call(op, 1, s, FALSE)
two(p, q) == (f1 :> p) @@ (f2 :> q)
MCPrograms == {
  \* a reader whose socket is closed, and its number used again
  two(<<c("setsockopt", 1), c("read", 1)>>, <<c("close", 1), c("socket", 0), c("connect", 2), c("read", 2)>>),
  \* the user's non-blocking flag, set and cleared
  two(<<Call("fcntl", 1, 1, TRUE), c("read", 1), c("fcntl", 1), c("read", 1)>>, <<c("sleep", 0), c("close", 1)>>),
  \* two connection attempts under the same number, closed by either fiber
  two(<<c("close", 1), c("socket", 0), c("connect", 2), c("close", 2), c("socket", 0), c("connect", 3)>>, <<c("sleep", 0), c("close", 2)>>),
  \* FIONBIO, and both directions of one socket
  two(<<c("ioctl", 1), c("read", 1)>>, <<c("setsockopt", 1), c("write", 1)>>),
  \* a writer or a connecting fiber whose socket is closed
  two(<<c("setsockopt", 1), c("write", 1)>>, <<c("close", 1)>>),
  \* accept, with or without a number left
  two(<<c("accept", 1), Call("read", 2, 2, FALSE)>>, <<c("sleep", 0), c("socket", 0)>>)}
=============================================================================
