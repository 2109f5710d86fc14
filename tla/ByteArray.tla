----------------------------- MODULE ByteArray -----------------------------
(***************************************************************************)
(* ByteArray (bytearray.cc): a list of nodes of m_baseSize bytes with one  *)
(* position for reading and writing, and the number codes.  The operations *)
(* are functions on an array; module Buffers lets a user call them, module *)
(* Logger keeps its two buffers with them.                                 *)
(*                                                                         *)
(* The nodes are one sequence m, m_cur is the number of a node and 0 for   *)
(* NULL, m_capacity is the length of m.                                    *)
(***************************************************************************)
EXTENDS Integers, Sequences, FiniteSets

CONSTANTS
  m_baseSize,
  Junk               \* what memory holds that nothing was written to

ASSUME BaseSizeAssumption == m_baseSize \in Nat \ {0}

Byte == Nat \cup {Junk}
ByteArray == [m |-> [i \in 1..m_baseSize |-> Junk], m_cur |-> 1, m_position |-> 0, m_size |-> 0]

getCapacity(a) == Len(a.m) - a.m_position
getReadSize(a) == a.m_size - a.m_position
getSize(a) == a.m_position

(* Where in m the next byte is: by the node of m_cur, not by m_position.   *)
Here(a) == ((a.m_cur - 1) * m_baseSize) + (a.m_position % m_baseSize)
NodesFor(n) == (n + m_baseSize - 1) \div m_baseSize

(* Mutant: the number of new nodes is rounded down.                        *)
addCapacityFloor(a, n) ==
  IF getCapacity(a) >= n THEN a
  ELSE [a EXCEPT !.m = @ \o [i \in 1..(((n - getCapacity(a)) \div m_baseSize) * m_baseSize) |-> Junk],
                 !.m_cur = IF getCapacity(a) = 0 THEN (Len(a.m) \div m_baseSize) + 1 ELSE @]

(* Only as many nodes as are missing, at the end of the list, which is     *)
(* looked for from m_cur on.                                               *)
addCapacity(a, n) ==
  IF getCapacity(a) >= n THEN a
  ELSE [a EXCEPT !.m = @ \o [i \in 1..(NodesFor(n - getCapacity(a)) * m_baseSize) |-> Junk],
                 !.m_cur = IF getCapacity(a) = 0 THEN (Len(a.m) \div m_baseSize) + 1 ELSE @]

(* memcpy of buf to the place h of the memory m.                           *)
Copy(m, h, buf) == [i \in 1..Len(m) |-> IF i \in (h + 1)..(h + Len(buf)) THEN buf[i - h] ELSE m[i]]
Larger(x, y) == IF x > y THEN x ELSE y

(* write(buf, size): m_cur stays at the node of the last byte written.     *)
write(a, buf) ==
  IF buf = <<>> THEN a
  ELSE LET b == addCapacity(a, Len(buf))
           h == Here(b)
           end == a.m_position + Len(buf)
       IN  [m |-> Copy(b.m, h, buf), m_cur |-> ((h + Len(buf) - 1) \div m_baseSize) + 1,
            m_position |-> end, m_size |-> Larger(end, a.m_size)]

(* The n bytes from here on: read(buf, n), toString, getReadBuffers.       *)
Bytes(a, n) == SubSeq(a.m, Here(a) + 1, Here(a) + n)
getReadBuffers(a, n, position) == SubSeq(a.m, position + 1, position + n)

(* The node that comes after h bytes of m, NULL after the last.            *)
NodeAt(a, h) == IF h = Len(a.m) THEN 0 ELSE (h \div m_baseSize) + 1
read(a, n) ==
  IF n > getReadSize(a) \/ n = 0 THEN a
  ELSE [a EXCEPT !.m_cur = NodeAt(a, Here(a) + n), !.m_position = @ + n]

setPosition(a, v) ==
  IF v > Len(a.m) THEN a
  ELSE [a EXCEPT !.m_position = v, !.m_size = Larger(v, @), !.m_cur = NodeAt(a, v)]

(* Back to one node; what is in it does not count any more.                *)
clear(a) == ByteArray

(* writeToFile: in each round diff is taken off, although only the first   *)
(* node may start in the middle, and off the smaller of a node and what is *)
(* left.  A round that comes out negative, or past the last node, is no    *)
(* bytes and the end: the stream is bad, or cur is NULL.                   *)
Rounds == [cur : Nat, pos : Nat, left : Nat, out : Seq(Byte)]
WriteRound(m) ==
  [r \in Rounds |->
     LET diff == r.pos % m_baseSize
         len == (IF r.left > m_baseSize THEN m_baseSize ELSE r.left) - diff
         h == ((r.cur - 1) * m_baseSize) + diff
     IN  IF r.cur = 0 \/ r.left = 0 \/ len < 0 \/ h + len > Len(m) THEN r
         ELSE [cur |-> r.cur + 1, pos |-> r.pos + len, left |-> r.left - len,
               out |-> r.out \o SubSeq(m, h + 1, h + len)]]

(* Each round goes to the next node: there are no more of them than bytes. *)
writeToFile(a) ==
  LET round[i \in Nat] ==
        IF i = 0 THEN [cur |-> a.m_cur, pos |-> a.m_position, left |-> getReadSize(a), out |-> <<>>]
        ELSE WriteRound(a.m)[round[i - 1]]
  IN  round[Len(a.m)].out

(* SocketStream::read(ba, n) of the bytes buf, at most n: getWriteBuffers  *)
(* makes room for n and gives the places from here on, setPosition moves   *)
(* behind what came.                                                       *)
getWriteBuffers(a, n, buf) ==
  LET b == addCapacity(a, n) IN [b EXCEPT !.m = Copy(@, Here(b), buf)]
streamRead(a, n, buf) ==
  LET b == getWriteBuffers(a, n, buf)
  IN  IF buf = <<>> THEN b ELSE setPosition(b, b.m_position + Len(buf))

(* SocketStream::write(ba, n) when the kernel takes k of the bytes.        *)
streamWrite(a, k) == IF k = 0 THEN a ELSE setPosition(a, a.m_position + k)

-----------------------------------------------------------------------------
(* The varint code.  A number is the set of its bits; a byte has seven of  *)
(* them and says whether more follow.                                      *)
Highest(v) == IF v = {} THEN 0 ELSE CHOOSE b \in v : \A c \in v : c <= b
writeUint(v) ==
  LET n == (Highest(v) \div 7) + 1
  IN  [i \in 1..n |-> [more |-> i < n, bits |-> {b \in 0..6 : 7 * (i - 1) + b \in v}]]

(* The bytes a reader of at most limit bits takes, and the bits it puts    *)
(* into an accumulator of 32 bits.  readUint64 shifts that by up to 63: a  *)
(* shift by 32 or more is undefined, and gives nothing or is taken modulo  *)
(* 32.                                                                     *)
ReadBytes(s, limit) ==
  {i \in 1..Len(s) : 7 * (i - 1) < limit /\ \A j \in 1..(i - 1) : s[j].more}
Shift(bits, k) == {k + b : b \in bits} \cap 0..31
readUint32(s) == UNION {Shift(s[i].bits, 7 * (i - 1)) : i \in ReadBytes(s, 32)}
readUint64(s, wraps) ==
  UNION {LET k == 7 * (i - 1)
         IN  IF k < 32 THEN Shift(s[i].bits, k) ELSE IF wraps THEN Shift(s[i].bits, k % 32) ELSE {}
           : i \in ReadBytes(s, 64)}

(* The zigzag code for the 2 * half signed numbers of a width.  The bits   *)
(* of -(v & 1) are all 0 or all 1, and xor with all ones is -x - 1.  The   *)
(* operand of DecodeZigzag32 is wider than its numbers; the operand of     *)
(* DecodeZigzag64 is signed, and >> keeps its sign.                        *)
EncodeZigzag(v) == IF v < 0 THEN (0 - v) * 2 - 1 ELSE v * 2
DecodeZigzag32(u) == IF u % 2 = 0 THEN u \div 2 ELSE 0 - (u \div 2) - 1
DecodeZigzag64(u, half) == DecodeZigzag32(IF u >= half THEN u - 2 * half ELSE u)
=============================================================================
