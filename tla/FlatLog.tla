------------------------------ MODULE FlatLog ------------------------------
(***************************************************************************)
(* What a logger promises to one of its files (log.cc): the bytes of the   *)
(* entries come out in the order they were logged, each once and none left *)
(* out, as long as the file is attached.  Module Logger implements it with *)
(* two buffers of nodes and a thread.                                      *)
(***************************************************************************)
EXTENDS Sequences, Naturals

CONSTANT Entries     \* the entries: sequences of bytes

VARIABLES queue, file, attached

FlatInit == queue = <<>> /\ file = <<>> /\ attached = TRUE
FlatAppend == attached /\ \E e \in Entries : queue' = queue \o e /\ UNCHANGED <<file, attached>>
FlatWrite ==
  /\ attached /\ queue # <<>>
  /\ \E n \in 1..Len(queue) : file' = file \o SubSeq(queue, 1, n) /\ queue' = SubSeq(queue, n + 1, Len(queue))
  /\ UNCHANGED attached
FlatDetach == attached /\ attached' = FALSE /\ queue' = <<>> /\ UNCHANGED file
FlatSpec == FlatInit /\ [][FlatAppend \/ FlatWrite \/ FlatDetach]_<<queue, file, attached>>
=============================================================================
