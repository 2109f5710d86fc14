---------------------------- MODULE LoggerProofs ----------------------------
(* What holds of byte arrays with nodes of any size, and of the             *)
(* asynchronous logger, which writes its entries to them, with any          *)
(* producers and appenders.                                                 *)
EXTENDS Buffers, Logger, WellFoundedInduction, TLAPS

-----------------------------------------------------------------------------
(* Arithmetic of positions: nodes of m_baseSize bytes.                      *)

(* A position is a node and an offset in it (bytearray.cc uses / and % of   *)
(* m_baseSize for them).                                                    *)
LEMMA Split ==
  ASSUME NEW p \in Nat
  PROVE  /\ p \div m_baseSize \in Nat /\ p % m_baseSize \in 0..(m_baseSize - 1)
         /\ p = (p \div m_baseSize) * m_baseSize + (p % m_baseSize)
  BY BaseSizeAssumption

(* Only one node and offset make a position.                                *)
LEMMA Unsplit ==
  ASSUME NEW c \in Nat, NEW r \in 0..(m_baseSize - 1), NEW p \in Nat, p = c * m_baseSize + r
  PROVE  p \div m_baseSize = c /\ p % m_baseSize = r
  BY BaseSizeAssumption

(* So many nodes and so many more.                                          *)
LEMMA Distribute ==
  ASSUME NEW c \in Nat, NEW d \in Nat
  PROVE  (c + d) * m_baseSize = c * m_baseSize + d * m_baseSize
  BY BaseSizeAssumption

(* Rounded up to nodes, n bytes fit.                                        *)
LEMMA RoundUp ==
  ASSUME NEW n \in Nat
  PROVE  NodesFor(n) \in Nat /\ NodesFor(n) * m_baseSize >= n
<1> DEFINE k == n + m_baseSize - 1
<1>1. k \in Nat
  BY BaseSizeAssumption
<1>2. /\ k \div m_baseSize \in Nat /\ k % m_baseSize \in 0..(m_baseSize - 1)
      /\ k = (k \div m_baseSize) * m_baseSize + (k % m_baseSize)
  BY Zenon, <1>1, Split
<1>3. (k \div m_baseSize) * m_baseSize \in Int
  BY <1>2, BaseSizeAssumption
<1> QED
  BY <1>2, <1>3, BaseSizeAssumption DEF NodesFor

-----------------------------------------------------------------------------
(* The array.                                                               *)

(* Two sequences of bytes, one after the other.                             *)
LEMMA Joined ==
  ASSUME NEW s \in Seq(Byte), NEW t \in Seq(Byte)
  PROVE  /\ s \o t \in Seq(Byte) /\ Len(s \o t) = Len(s) + Len(t)
         /\ \A i \in 1..Len(s) : (s \o t)[i] = s[i]
         /\ \A i \in 1..Len(t) : (s \o t)[Len(s) + i] = t[i]
  OBVIOUS

(* An array between two operations, wherever m_cur is.                      *)
Array(a) ==
  /\ a \in [m : Seq(Byte), m_cur : Nat, m_position : Nat, m_size : Nat]
  /\ a.m_position <= a.m_size /\ a.m_size <= Len(a.m) /\ Len(a.m) % m_baseSize = 0

(* m_cur is the node of m_position, or the one before it.                   *)
AtNode(a) == a.m_cur = NodeAt(a, a.m_position)
OneBehind(a) == a.m_position > 0 /\ a.m_cur * m_baseSize = a.m_position

(* With m_cur at its node the next byte is the one at m_position.           *)
LEMMA HereIsPosition ==
  ASSUME NEW a, Array(a), AtNode(a), a.m_cur # 0
  PROVE  Here(a) = a.m_position
<1> DEFINE p == a.m_position
<1>1. p \in Nat /\ a.m_cur = (p \div m_baseSize) + 1
  BY Zenon DEF Array, AtNode, NodeAt
<1>2. p \div m_baseSize \in Nat /\ p = (p \div m_baseSize) * m_baseSize + (p % m_baseSize)
  BY Zenon, <1>1, Split
<1> QED
  BY <1>1, <1>2 DEF Here

(* Wherever m_cur is, the next byte is a place in memory.                   *)
LEMMA HereIsPlace ==
  ASSUME NEW a, Array(a), a.m_cur # 0
  PROVE  Here(a) \in Nat
<1>1. a.m_position \in Nat /\ a.m_cur \in Nat
  BY Zenon DEF Array
<1>2. a.m_cur - 1 \in Nat /\ a.m_position % m_baseSize \in Nat
  BY <1>1, BaseSizeAssumption
<1>3. (a.m_cur - 1) * m_baseSize \in Nat
  BY <1>2, BaseSizeAssumption
<1> QED
  BY <1>2, <1>3 DEF Here

(* addCapacity makes room for n bytes behind m_position and changes nothing *)
(* else of what the array holds; m_cur stays right, and is made right when  *)
(* the array was full (bytearray.cc:555-582).                               *)
LEMMA AddCapacity ==
  ASSUME NEW a, Array(a), a.m_cur # 0, NEW n \in Nat
  PROVE  LET b == addCapacity(a, n) IN
         /\ Array(b) /\ b.m_cur # 0 /\ b.m_position = a.m_position /\ b.m_size = a.m_size
         /\ a.m_position + n <= Len(b.m) /\ Len(a.m) <= Len(b.m)
         /\ \A i \in 1..Len(a.m) : b.m[i] = a.m[i]
         /\ AtNode(a) \/ (n > 0 /\ getCapacity(a) = 0) => AtNode(b)
         /\ OneBehind(a) => AtNode(b) \/ OneBehind(b)
<1> DEFINE b == addCapacity(a, n)
           more == NodesFor(n - getCapacity(a)) * m_baseSize
           new == [i \in 1..more |-> Junk]
<1>1. /\ a.m \in Seq(Byte) /\ a.m_cur \in Nat /\ a.m_position \in Nat /\ a.m_size \in Nat
      /\ a.m_position <= a.m_size /\ a.m_size <= Len(a.m) /\ Len(a.m) \in Nat
      /\ a = [m |-> a.m, m_cur |-> a.m_cur, m_position |-> a.m_position, m_size |-> a.m_size]
      /\ Len(a.m) % m_baseSize = 0 /\ getCapacity(a) = Len(a.m) - a.m_position
  BY DEF Array, getCapacity
<1>2. CASE getCapacity(a) >= n
  BY <1>1, <1>2 DEF addCapacity, AtNode, OneBehind
<1>3. CASE ~(getCapacity(a) >= n)
  <2>1. n - getCapacity(a) \in Nat
    BY <1>1, <1>3
  <2>2. NodesFor(n - getCapacity(a)) \in Nat /\ more \in Nat /\ more >= n - getCapacity(a)
    BY <2>1, RoundUp, BaseSizeAssumption
  <2>3. new \in Seq(Byte) /\ Len(new) = more
    BY <2>2 DEF Byte
  <2> DEFINE c == IF getCapacity(a) = 0 THEN (Len(a.m) \div m_baseSize) + 1 ELSE a.m_cur
  <2>4. b = [m |-> a.m \o new, m_cur |-> c, m_position |-> a.m_position, m_size |-> a.m_size]
    BY Zenon, <1>1, <1>3 DEF addCapacity
  <2> HIDE DEF b, new, more, c
  <2>5. b.m = a.m \o new /\ b.m_cur = c /\ b.m_position = a.m_position /\ b.m_size = a.m_size
    BY Zenon, <2>4
  <2>6. b.m \in Seq(Byte) /\ Len(b.m) = Len(a.m) + more /\ \A i \in 1..Len(a.m) : b.m[i] = a.m[i]
    <3>1. a.m \o new \in Seq(Byte) /\ Len(a.m \o new) = Len(a.m) + Len(new)
      BY Zenon, <1>1, <2>3, Joined
    <3>2. \A i \in 1..Len(a.m) : (a.m \o new)[i] = a.m[i]
      BY Zenon, <1>1, <2>3, Joined
    <3> QED
      BY Zenon, <2>3, <2>5, <3>1, <3>2
  <2>7. Len(b.m) % m_baseSize = 0
    <3> DEFINE q == Len(a.m) \div m_baseSize
               w == NodesFor(n - getCapacity(a))
    <3>1. q \in Nat /\ Len(a.m) = q * m_baseSize + 0
      BY Zenon, <1>1, Split
    <3>2. w \in Nat /\ more = w * m_baseSize
      BY Zenon, <2>2 DEF more
    <3> HIDE DEF q, w
    <3>3. (q + w) * m_baseSize = q * m_baseSize + w * m_baseSize
      BY Zenon, <3>1, <3>2, Distribute
    <3>4. q * m_baseSize \in Int /\ q + w \in Nat
      BY <3>1, <3>2, BaseSizeAssumption
    <3>5. Len(b.m) = (q + w) * m_baseSize + 0
      BY <2>2, <2>6, <3>1, <3>2, <3>3, <3>4
    <3>6. 0 \in 0..(m_baseSize - 1) /\ Len(b.m) \in Nat
      BY SMTT(60), <1>1, <2>2, <2>6, BaseSizeAssumption
    <3> QED
      BY Zenon, <3>4, <3>5, <3>6, Unsplit
  <2>8. c \in Nat /\ c # 0
    BY <1>1, Split DEF c
  <2>9. Array(b) /\ b.m_cur # 0
    BY <1>1, <2>2, <2>4, <2>5, <2>6, <2>7, <2>8 DEF Array
  <2>10. a.m_position + n <= Len(b.m) /\ Len(a.m) <= Len(b.m)
    BY <1>1, <2>2, <2>6
  <2>11. CASE getCapacity(a) = 0
    <3>1. a.m_position = Len(a.m) /\ Len(b.m) > Len(a.m)
      BY <1>1, <1>3, <2>2, <2>6, <2>11
    <3>2. AtNode(b)
      BY <2>5, <2>11, <3>1 DEF AtNode, NodeAt, c
    <3> QED
      BY Zenon, <2>5, <2>6, <2>9, <2>10, <3>2 DEF b
  <2>12. CASE getCapacity(a) # 0
    <3>1. c = a.m_cur /\ a.m_position < Len(a.m) /\ a.m_position < Len(b.m)
      BY SMTT(60), <1>1, <2>2, <2>6, <2>12 DEF c
    <3>2. AtNode(a) => AtNode(b)
      BY <1>1, <2>5, <2>6, <3>1 DEF AtNode, NodeAt
    <3>3. OneBehind(a) => OneBehind(b)
      BY Zenon, <2>5, <3>1 DEF OneBehind
    <3> QED
      BY Zenon, <2>5, <2>6, <2>9, <2>10, <2>12, <3>2, <3>3 DEF b
  <2> QED
    BY Zenon, <2>11, <2>12
<1> QED
  BY Zenon, <1>2, <1>3

(* The node of the last of e bytes is the node of the next one, or the one  *)
(* before it when the last byte fills its node.                             *)
LEMMA LastNode ==
  ASSUME NEW e \in Nat, e > 0
  PROVE  LET c == ((e - 1) \div m_baseSize) + 1 IN
         /\ c \in Nat /\ c # 0
         /\ (c = (e \div m_baseSize) + 1 /\ e % m_baseSize # 0) \/ c * m_baseSize = e
<1> DEFINE q == (e - 1) \div m_baseSize
           r == (e - 1) % m_baseSize
<1>1. e - 1 \in Nat
  OBVIOUS
<1>2. q \in Nat /\ r \in 0..(m_baseSize - 1) /\ e - 1 = q * m_baseSize + r
  BY Zenon, <1>1, Split
<1> HIDE DEF q, r
<1>3. q * m_baseSize \in Int
  BY <1>2, BaseSizeAssumption
<1>4. CASE r + 1 < m_baseSize
  <2>1. r + 1 \in 0..(m_baseSize - 1) /\ e = q * m_baseSize + (r + 1)
    BY <1>2, <1>3, <1>4, BaseSizeAssumption
  <2>2. e \div m_baseSize = q /\ e % m_baseSize = r + 1
    BY <1>2, <2>1, Unsplit
  <2> QED
    BY <1>2, <2>2 DEF q
<1>5. CASE r + 1 >= m_baseSize
  <2>1. e = q * m_baseSize + m_baseSize
    BY <1>2, <1>3, <1>5, BaseSizeAssumption
  <2>2. (q + 1) * m_baseSize = q * m_baseSize + 1 * m_baseSize
    BY Zenon, <1>2, Distribute
  <2>3. (q + 1) * m_baseSize = e
    BY <1>3, <2>1, <2>2, BaseSizeAssumption
  <2> QED
    BY <1>2, <2>3 DEF q
<1> QED
  BY <1>2, <1>4, <1>5, BaseSizeAssumption

(* The n bytes r are those of s, but for buf behind the first p.            *)
Overlaid(r, n, s, p, buf) ==
  /\ r \in Seq(Byte) /\ Len(r) = n
  /\ \A i \in 1..n : r[i] = IF i \in (p + 1)..(p + Len(buf)) THEN buf[i - p] ELSE s[i]

(* memcpy keeps the memory's length and changes the copied bytes only.      *)
LEMMA CopyFacts ==
  ASSUME NEW m \in Seq(Byte), NEW h \in Nat, NEW buf \in Seq(Byte)
  PROVE  Overlaid(Copy(m, h, buf), Len(m), m, h, buf)
<1> DEFINE val(i) == IF i \in (h + 1)..(h + Len(buf)) THEN buf[i - h] ELSE m[i]
<1>1. ASSUME NEW i \in 1..Len(m) PROVE val(i) \in Byte
  <2>1. CASE i \in (h + 1)..(h + Len(buf))
    <3>1. i - h \in 1..Len(buf)
      BY <2>1
    <3> QED
      BY <2>1, <3>1
  <2> QED
    BY <2>1
<1> HIDE DEF val
<1>2. [i \in 1..Len(m) |-> val(i)] \in Seq(Byte) /\ Len([i \in 1..Len(m) |-> val(i)]) = Len(m)
  BY <1>1
<1>3. Copy(m, h, buf) = [i \in 1..Len(m) |-> val(i)]
  BY Zenon DEF Copy, val
<1> QED
  BY Zenon, <1>2, <1>3 DEF val, Overlaid

(* What a plain sequence does with a write.                                 *)
LEMMA PutFacts ==
  ASSUME NEW s \in Seq(Byte), NEW p \in 0..Len(s), NEW buf \in Seq(Byte)
  PROVE  Overlaid(Put(s, p, buf), Larger(Len(s), p + Len(buf)), s, p, buf)
<1> DEFINE n == Larger(Len(s), p + Len(buf))
           val(i) == IF i \in (p + 1)..(p + Len(buf)) THEN buf[i - p] ELSE s[i]
<1>1. n \in Nat
  BY DEF Larger
<1>2. ASSUME NEW i \in 1..n PROVE val(i) \in Byte
  <2>1. CASE i \in (p + 1)..(p + Len(buf))
    <3>1. i - p \in 1..Len(buf)
      BY <2>1
    <3> QED
      BY <2>1, <3>1
  <2>2. CASE i \notin (p + 1)..(p + Len(buf))
    <3>1. i \in 1..Len(s)
      BY <2>2 DEF Larger
    <3> QED
      BY <2>2, <3>1
  <2> QED
    BY Zenon, <2>1, <2>2
<1> HIDE DEF val
<1>3. [i \in 1..n |-> val(i)] \in Seq(Byte) /\ Len([i \in 1..n |-> val(i)]) = n
  BY <1>1, <1>2
<1>4. Put(s, p, buf) = [i \in 1..n |-> val(i)]
  BY Zenon DEF Put, val
<1> QED
  BY Zenon, <1>3, <1>4 DEF val, Overlaid

(* The array holds the bytes of the sequence s.                             *)
Holds(a, s) == s \in Seq(Byte) /\ Len(s) = a.m_size /\ \A i \in 1..a.m_size : a.m[i] = s[i]

(* Bytes that are copied to m_position are what the sequence gets, if the   *)
(* array has room for them.                                                 *)
LEMMA CopyHolds ==
  ASSUME NEW a, Array(a), NEW s, Holds(a, s), NEW buf \in Seq(Byte),
         NEW m \in Seq(Byte), a.m_position + Len(buf) <= Len(m), Len(a.m) <= Len(m),
         \A i \in 1..Len(a.m) : m[i] = a.m[i],
         NEW b, b.m = Copy(m, a.m_position, buf),
         b.m_size = Larger(a.m_position + Len(buf), a.m_size)
  PROVE  Holds(b, Put(s, a.m_position, buf))
<1> DEFINE p == a.m_position
           n == Len(buf)
<1>1. /\ p \in Nat /\ n \in Nat /\ a.m_size \in Nat /\ Len(a.m) \in Nat /\ p <= a.m_size /\ a.m_size <= Len(a.m)
      /\ s \in Seq(Byte) /\ Len(s) = a.m_size
  BY DEF Array, Holds
<1>2. p \in 0..Len(s)
  BY <1>1
<1>3. b.m_size \in Nat /\ b.m_size <= Len(m) /\ b.m_size = Larger(Len(s), p + n)
  BY SMTT(60), <1>1 DEF Larger
<1>4. Overlaid(b.m, Len(m), m, p, buf)
  BY Zenon, <1>1, CopyFacts
<1>5. Overlaid(Put(s, p, buf), Larger(Len(s), p + n), s, p, buf)
  BY Zenon, <1>1, <1>2, PutFacts
<1>6. ASSUME NEW i \in 1..b.m_size PROVE b.m[i] = Put(s, p, buf)[i]
  <2>1. i \in 1..Len(m) /\ i \in 1..Larger(Len(s), p + n)
    BY <1>1, <1>3
  <2>2. b.m[i] = IF i \in (p + 1)..(p + n) THEN buf[i - p] ELSE m[i]
    BY Zenon, <1>4, <2>1 DEF Overlaid
  <2>3. Put(s, p, buf)[i] = IF i \in (p + 1)..(p + n) THEN buf[i - p] ELSE s[i]
    BY Zenon, <1>5, <2>1 DEF Overlaid
  <2>4. CASE i \notin (p + 1)..(p + n)
    <3>1. i \in 1..a.m_size /\ i \in 1..Len(a.m)
      BY SMTT(60), <1>1, <2>4 DEF Larger
    <3> QED
      BY Zenon, <2>2, <2>3, <2>4, <3>1 DEF Holds
  <2> QED
    BY Zenon, <2>2, <2>3, <2>4
<1> QED
  BY Zenon, <1>3, <1>5, <1>6 DEF Holds, Overlaid

(* m_cur is where the operations leave it.                                  *)
Placed(a) == AtNode(a) \/ OneBehind(a)

(* The node of position v of an array, or NULL behind the last.             *)
LEMMA NodeIsNat ==
  ASSUME NEW a, Array(a), NEW v \in Nat
  PROVE  NodeAt(a, v) \in Nat
  BY Split DEF NodeAt

(* write() puts buf where a plain sequence has it and leaves m_cur at the   *)
(* node of the last byte, unless m_cur was a node behind with room left.    *)
(* Whatever m_cur was, the array stays an array (bytearray.cc:385-413).     *)
LEMMA WriteFacts ==
  ASSUME NEW a, Array(a), a.m_cur # 0, NEW buf \in Seq(Byte), Len(buf) > 0
  PROVE  /\ Array(write(a, buf)) /\ write(a, buf).m_cur # 0
         /\ write(a, buf).m_position = a.m_position + Len(buf)
         /\ write(a, buf).m_size = Larger(a.m_position + Len(buf), a.m_size)
         /\ Len(write(a, buf).m) = Len(addCapacity(a, Len(buf)).m)
         /\ AtNode(a) \/ getCapacity(a) = 0 =>
              /\ Placed(write(a, buf))
              /\ \A s : Holds(a, s) => Holds(write(a, buf), Put(s, a.m_position, buf))
<1> DEFINE n == Len(buf)
           b == addCapacity(a, n)
           h == Here(b)
           end == a.m_position + n
           w == write(a, buf)
<1>1. n \in Nat /\ n > 0 /\ buf # <<>>
  OBVIOUS
<1>2. /\ Array(b) /\ b.m_cur # 0 /\ b.m_position = a.m_position /\ b.m_size = a.m_size
      /\ end <= Len(b.m) /\ Len(a.m) <= Len(b.m) /\ \A i \in 1..Len(a.m) : b.m[i] = a.m[i]
      /\ AtNode(a) \/ getCapacity(a) = 0 => AtNode(b)
  BY Zenon, <1>1, AddCapacity
<1>3. /\ w.m = Copy(b.m, h, buf) /\ w.m_cur = ((h + n - 1) \div m_baseSize) + 1
      /\ w.m_position = end /\ w.m_size = Larger(end, a.m_size)
      /\ w = [m |-> w.m, m_cur |-> w.m_cur, m_position |-> w.m_position, m_size |-> w.m_size]
  BY Zenon, <1>1 DEF write
<1> HIDE DEF b, w
<1>4. h \in Nat
  BY Zenon, <1>2, HereIsPlace
<1> HIDE DEF h
<1>5. /\ b.m \in Seq(Byte) /\ Len(b.m) \in Nat /\ Len(b.m) % m_baseSize = 0 /\ a.m_position \in Nat /\ a.m_size \in Nat
      /\ a.m_position <= a.m_size /\ a.m_size <= Len(a.m) /\ Len(a.m) \in Nat
  BY <1>2 DEF Array
<1>6. w.m \in Seq(Byte) /\ Len(w.m) = Len(b.m)
  <2>1. Overlaid(w.m, Len(b.m), b.m, h, buf)
    BY Zenon, <1>3, <1>4, <1>5, CopyFacts
  <2> QED
    BY Zenon, <2>1 DEF Overlaid
<1>7. /\ w.m_cur \in Nat /\ w.m_cur # 0
      /\ (w.m_cur = ((h + n) \div m_baseSize) + 1 /\ (h + n) % m_baseSize # 0) \/ w.m_cur * m_baseSize = h + n
  <2>1. h + n \in Nat /\ h + n > 0 /\ (h + n) - 1 = h + n - 1
    BY <1>1, <1>4
  <2> QED
    BY ZenonT(60), <1>3, <2>1, LastNode
<1>8. Array(w)
  <2>1. w.m_position \in Nat /\ w.m_size \in Nat /\ w.m_position <= w.m_size /\ w.m_size <= Len(w.m)
    BY <1>1, <1>2, <1>3, <1>5, <1>6 DEF Larger
  <2> QED
    BY Zenon, <1>3, <1>5, <1>6, <1>7, <2>1 DEF Array
<1>9. ASSUME AtNode(a) \/ getCapacity(a) = 0
      PROVE  Placed(w) /\ \A s : Holds(a, s) => Holds(w, Put(s, a.m_position, buf))
  <2>1. h = a.m_position
    BY Zenon, <1>2, <1>9, HereIsPosition DEF h
  <2>2. Placed(w)
    <3>1. CASE w.m_cur * m_baseSize = end
      BY <1>1, <1>3, <1>5, <3>1 DEF Placed, OneBehind
    <3>2. CASE w.m_cur = (end \div m_baseSize) + 1 /\ end % m_baseSize # 0
      BY Zenon, <1>3, <1>5, <1>6, <3>2 DEF Placed, AtNode, NodeAt
    <3> QED
      BY Zenon, <1>7, <2>1, <3>1, <3>2
  <2>3. ASSUME NEW s, Holds(a, s) PROVE Holds(w, Put(s, a.m_position, buf))
    BY Zenon, <1>2, <1>3, <1>5, <2>1, <2>3, CopyHolds
  <2> QED
    BY Zenon, <2>2, <2>3
<1> QED
  BY Zenon, <1>3, <1>6, <1>7, <1>8, <1>9 DEF w, b

(* setPosition moves to the node of v; behind the last byte it makes what   *)
(* memory holds there part of the array (bytearray.cc:474-492).             *)
LEMMA SetPositionFacts ==
  ASSUME NEW a, Array(a), NEW v \in 0..Len(a.m)
  PROVE  LET b == setPosition(a, v) IN
         /\ Array(b) /\ AtNode(b) /\ b.m = a.m /\ b.m_position = v /\ b.m_size = Larger(v, a.m_size)
<1> DEFINE b == setPosition(a, v)
<1>1. /\ a.m \in Seq(Byte) /\ Len(a.m) \in Nat /\ a.m_size \in Nat /\ a.m_size <= Len(a.m)
      /\ Len(a.m) % m_baseSize = 0 /\ v \in Nat /\ v <= Len(a.m)
      /\ a = [m |-> a.m, m_cur |-> a.m_cur, m_position |-> a.m_position, m_size |-> a.m_size]
  BY DEF Array
<1>2. b = [m |-> a.m, m_cur |-> NodeAt(a, v), m_position |-> v, m_size |-> Larger(v, a.m_size)]
  <2>1. b = [a EXCEPT !.m_position = v, !.m_size = Larger(v, @), !.m_cur = NodeAt(a, v)]
    BY <1>1 DEF setPosition
  <2>2. a \in [m : Seq(Byte), m_cur : Nat, m_position : Nat, m_size : Nat]
    BY Zenon DEF Array
  <2> QED
    BY Zenon, <2>1, <2>2
<1>3. NodeAt(a, v) \in Nat
  BY Zenon, <1>1, NodeIsNat
<1>4. Larger(v, a.m_size) \in Nat /\ v <= Larger(v, a.m_size) /\ Larger(v, a.m_size) <= Len(a.m)
  BY <1>1 DEF Larger
<1> HIDE DEF b
<1>5. b.m = a.m /\ b.m_cur = NodeAt(a, v) /\ b.m_position = v /\ b.m_size = Larger(v, a.m_size)
  BY Zenon, <1>2
<1>6. Array(b)
  BY Zenon, <1>1, <1>2, <1>3, <1>4 DEF Array
<1>7. AtNode(b)
  BY Zenon, <1>5 DEF AtNode, NodeAt
<1> QED
  BY Zenon, <1>5, <1>6, <1>7 DEF b

(* read() of n bytes, which are there: with m_cur at its node it moves by   *)
(* n, and m_cur with it (bytearray.cc:415-442).                             *)
LEMMA ReadFacts ==
  ASSUME NEW a, Array(a), a.m_cur # 0, NEW n \in Nat, n <= getReadSize(a)
  PROVE  /\ Array(read(a, n)) /\ read(a, n).m = a.m /\ read(a, n).m_size = a.m_size
         /\ n = 0 => read(a, n) = a
         /\ AtNode(a) => AtNode(read(a, n))
<1> DEFINE b == read(a, n)
<1>1. /\ a.m \in Seq(Byte) /\ Len(a.m) \in Nat /\ a.m_size \in Nat /\ a.m_size <= Len(a.m)
      /\ a.m_position \in Nat /\ Len(a.m) % m_baseSize = 0 /\ a.m_position + n <= a.m_size
      /\ a = [m |-> a.m, m_cur |-> a.m_cur, m_position |-> a.m_position, m_size |-> a.m_size]
  BY DEF Array, getReadSize
<1>2. CASE n = 0
  BY Zenon, <1>2 DEF read
<1>3. CASE n # 0
  <2>1. b = [m |-> a.m, m_cur |-> NodeAt(a, Here(a) + n), m_position |-> a.m_position + n, m_size |-> a.m_size]
    <3>1. b = [a EXCEPT !.m_cur = NodeAt(a, Here(a) + n), !.m_position = @ + n]
      <4>1. ~(n > getReadSize(a))
        BY <1>1 DEF getReadSize
      <4> QED
        BY Zenon, <1>3, <4>1 DEF read
    <3>2. a \in [m : Seq(Byte), m_cur : Nat, m_position : Nat, m_size : Nat]
      BY Zenon DEF Array
    <3> QED
      BY Zenon, <3>1, <3>2
  <2>2. Here(a) \in Nat
    BY Zenon, HereIsPlace
  <2>3. NodeAt(a, Here(a) + n) \in Nat
    BY <2>2, NodeIsNat
  <2> HIDE DEF b
  <2>4. /\ b.m = a.m /\ b.m_cur = NodeAt(a, Here(a) + n) /\ b.m_position = a.m_position + n
        /\ b.m_size = a.m_size
    BY Zenon, <2>1
  <2>5. Array(b)
    BY <1>1, <2>1, <2>3 DEF Array
  <2>6. AtNode(a) => AtNode(b)
    BY Zenon, <2>4, HereIsPosition DEF AtNode, NodeAt
  <2> QED
    BY Zenon, <1>3, <2>4, <2>5, <2>6 DEF b
<1> QED
  BY Zenon, <1>2, <1>3

(* getWriteBuffers and the socket put buf where a plain sequence has it,    *)
(* and setPosition moves behind it, as for write() (bytearray.cc:680-708).  *)
LEMMA StreamReadFacts ==
  ASSUME NEW a, Array(a), a.m_cur # 0, NEW n \in Nat, n > 0, NEW buf \in Seq(Byte), Len(buf) <= n
  PROVE  /\ Array(streamRead(a, n, buf))
         /\ Placed(a) => Placed(streamRead(a, n, buf))
         /\ AtNode(a) \/ getCapacity(a) = 0 \/ Len(buf) = 0 =>
              \A s : Holds(a, s) => Holds(streamRead(a, n, buf), Put(s, a.m_position, buf))
<1> DEFINE b == addCapacity(a, n)
           h == Here(b)
           c == getWriteBuffers(a, n, buf)
           d == streamRead(a, n, buf)
<1>1. /\ Array(b) /\ b.m_cur # 0 /\ b.m_position = a.m_position /\ b.m_size = a.m_size
      /\ a.m_position + n <= Len(b.m) /\ Len(a.m) <= Len(b.m) /\ \A i \in 1..Len(a.m) : b.m[i] = a.m[i]
      /\ AtNode(a) \/ getCapacity(a) = 0 => AtNode(b)
      /\ OneBehind(a) => AtNode(b) \/ OneBehind(b)
  BY Zenon, AddCapacity
<1>2. h \in Nat
  BY Zenon, <1>1, HereIsPlace
<1>3. b \in [m : Seq(Byte), m_cur : Nat, m_position : Nat, m_size : Nat] /\ b.m \in Seq(Byte)
  BY Zenon, <1>1 DEF Array
<1>4. c = [b EXCEPT !.m = Copy(@, h, buf)]
  BY Zenon DEF getWriteBuffers
<1> HIDE DEF b, h, c, d
<1>5. c.m = Copy(b.m, h, buf) /\ c.m_cur = b.m_cur /\ c.m_position = b.m_position /\ c.m_size = b.m_size
  BY Zenon, <1>3, <1>4
<1>6. Overlaid(c.m, Len(b.m), b.m, h, buf)
  BY Zenon, <1>2, <1>3, <1>5, CopyFacts
<1>7. c.m \in Seq(Byte) /\ Len(c.m) = Len(b.m)
  BY Zenon, <1>6 DEF Overlaid
<1>8. Array(c)
  <2>1. c \in [m : Seq(Byte), m_cur : Nat, m_position : Nat, m_size : Nat]
    BY Zenon, <1>3, <1>4, <1>5, <1>7
  <2> QED
    BY Zenon, <1>1, <1>5, <1>7, <2>1 DEF Array
<1>9. (AtNode(b) => AtNode(c)) /\ (OneBehind(b) => OneBehind(c))
  BY Zenon, <1>5, <1>7 DEF AtNode, OneBehind, NodeAt
<1>10. /\ a.m_position \in Nat /\ a.m_size \in Nat /\ a.m_position <= a.m_size /\ a.m_size <= Len(a.m)
       /\ Len(a.m) \in Nat /\ Len(b.m) \in Nat /\ Len(buf) \in Nat
  BY SMTT(60), <1>3 DEF Array
<1>11. CASE buf = <<>>
  <2>1. d = c /\ Len(buf) = 0
    BY Zenon, <1>11 DEF d, c, streamRead
  <2>2. ASSUME NEW s, Holds(a, s) PROVE Holds(d, Put(s, a.m_position, buf))
    <3>1. Copy(b.m, h, buf) = Copy(b.m, a.m_position, buf)
      <4>1. ASSUME NEW i \in 1..Len(b.m)
            PROVE  i \notin (h + 1)..(h + Len(buf)) /\ i \notin (a.m_position + 1)..(a.m_position + Len(buf))
        BY <1>2, <1>10, <2>1
      <4> QED
        BY Zenon, <4>1 DEF Copy
    <3>2. d.m_size = Larger(a.m_position + Len(buf), a.m_size)
      BY SMTT(60), <1>1, <1>5, <1>10, <2>1 DEF Larger
    <3>3. a.m_position + Len(buf) <= Len(b.m)
      BY <1>1, <1>10
    <3> QED
      BY ZenonT(60), <1>1, <1>3, <1>5, <2>1, <2>2, <3>1, <3>2, <3>3, CopyHolds
  <2> QED
    BY Zenon, <1>1, <1>8, <1>9, <2>1, <2>2 DEF Placed, d
<1>12. CASE buf # <<>>
  <2>1. d = setPosition(c, c.m_position + Len(buf)) /\ Len(buf) > 0
    BY <1>12 DEF d, c, streamRead
  <2>2. a.m_position + Len(buf) \in 0..Len(c.m)
    BY <1>1, <1>7, <1>10
  <2>3. /\ Array(d) /\ AtNode(d) /\ d.m = c.m /\ d.m_size = Larger(a.m_position + Len(buf), a.m_size)
    <3>1. d = setPosition(c, a.m_position + Len(buf))
      BY Zenon, <1>1, <1>5, <2>1
    <3>2. Array(d) /\ AtNode(d) /\ d.m = c.m /\ d.m_size = Larger(a.m_position + Len(buf), c.m_size)
      BY Zenon, <1>8, <2>2, <3>1, SetPositionFacts
    <3> QED
      BY Zenon, <1>1, <1>5, <3>2
  <2>4. ASSUME AtNode(a) \/ getCapacity(a) = 0, NEW s, Holds(a, s) PROVE Holds(d, Put(s, a.m_position, buf))
    <3>1. h = a.m_position
      BY Zenon, <1>1, <2>4, HereIsPosition DEF h
    <3>2. a.m_position + Len(buf) <= Len(b.m)
      BY <1>1, <1>10
    <3> QED
      BY Zenon, <1>1, <1>3, <1>5, <2>3, <2>4, <3>1, <3>2, CopyHolds
  <2> QED
    BY <2>1, <2>3, <2>4 DEF Placed, d
<1> QED
  BY Zenon, <1>11, <1>12

-----------------------------------------------------------------------------
(* A user of an array, who calls its operations in any order.               *)

(* The part from i to j of a sequence.                                      *)
LEMMA Part ==
  ASSUME NEW s \in Seq(Byte), NEW i \in Nat, NEW j \in Nat, i > 0, i <= j + 1, j <= Len(s)
  PROVE  /\ SubSeq(s, i, j) \in Seq(Byte) /\ Len(SubSeq(s, i, j)) = j + 1 - i
         /\ \A k \in 1..(j + 1 - i) : SubSeq(s, i, j)[k] = s[k + i - 1]
  OBVIOUS

(* Two sequences agree up to j.                                             *)
Agree(s, t, j) == j <= Len(s) /\ j <= Len(t) /\ \A k \in 1..j : s[k] = t[k]

(* Then they have the same parts up to there.                               *)
LEMMA SameParts ==
  ASSUME NEW s \in Seq(Byte), NEW t \in Seq(Byte), NEW i \in Nat, NEW j \in Nat, i > 0, i <= j + 1, Agree(s, t, j)
  PROVE  SubSeq(s, i, j) = SubSeq(t, i, j)
  BY DEF Agree

(* BytesIInv is inductive: m_cur is at its node or one behind, and the      *)
(* array holds the bytes of flat, unless it went astray.                    *)
BytesIInv ==
  /\ Array(ba) /\ ops \in Nat
  /\ astray \/ (Placed(ba) /\ Holds(ba, flat) /\ got[1] = got[2])

(* A new array is one node, empty (bytearray.cc:33-42).                     *)
LEMMA EmptyArray == Array(ByteArray) /\ AtNode(ByteArray) /\ Holds(ByteArray, <<>>)
<1>1. 0 \div m_baseSize = 0 /\ 0 % m_baseSize = 0 /\ m_baseSize % m_baseSize = 0
  BY BaseSizeAssumption
<1> DEFINE node == [i \in 1..m_baseSize |-> Junk]
<1>2. node \in Seq(Byte) /\ Len(node) = m_baseSize
  BY BaseSizeAssumption DEF Byte
<1> HIDE DEF node
<1>3. ByteArray = [m |-> node, m_cur |-> 1, m_position |-> 0, m_size |-> 0]
  BY Zenon DEF ByteArray, node
<1> QED
  BY <1>1, <1>2, <1>3, BaseSizeAssumption DEF Array, AtNode, NodeAt, Holds

(* The user starts with a new array.                                        *)
LEMMA BytesInitIInv == BytesInit => BytesIInv
  BY EmptyArray DEF BytesInit, BytesIInv, Placed, NoRead

(* The bytes an operation writes.                                           *)
LEMMA NewBytes ==
  ASSUME ops \in Nat, NEW n \in Nat
  PROVE  New(n) \in Seq(Byte) /\ Len(New(n)) = n
  BY DEF New, Byte

(* Where the array is not astray after a use, m_cur was at its node, or the *)
(* array was full.                                                          *)
LEMMA NotAstray ==
  ASSUME BytesIInv, ~(astray \/ (Behind /\ getCapacity(ba) > 0))
  PROVE  (AtNode(ba) \/ getCapacity(ba) = 0) /\ Holds(ba, flat) /\ got[1] = got[2]
<1>1. getCapacity(ba) >= 0 /\ getCapacity(ba) \in Int
  BY DEF BytesIInv, Array, getCapacity
<1> QED
  BY <1>1 DEF BytesIInv, Placed, OneBehind, Behind

(* NULL is dereferenced: the program ends here (bytearray.cc:566).          *)
LEMMA DerefIInv ==
  ASSUME BytesIInv, Use, Deref
  PROVE  BytesIInv'
  BY DEF BytesIInv, Use, Deref

(* The user writes n bytes: with room for them, or past the end of the      *)
(* capacity (bytearray.cc:385-413).                                         *)
LEMMA WriteIInv ==
  ASSUME BytesIInv, NEW n \in Nat, n > 0, Write(n)
  PROVE  BytesIInv'
<1>1. ops \in Nat /\ ops' \in Nat /\ Array(ba)
  BY DEF Write, Use, BytesIInv
<1>2. CASE Deref
  BY Zenon, <1>2, DerefIInv DEF Write
<1>3. CASE ~Deref
  <2>1. /\ ba.m_cur # 0 /\ ba' = write(ba, New(n)) /\ flat' = Put(flat, ba.m_position, New(n)) /\ got' = got
        /\ astray' = (astray \/ (Behind /\ getCapacity(ba) > 0))
    BY Zenon, <1>3 DEF Write, Null
  <2>2. New(n) \in Seq(Byte) /\ Len(New(n)) > 0
    BY Zenon, <1>1, NewBytes
  <2>3. Array(ba')
    BY Zenon, <1>1, <2>1, <2>2, WriteFacts
  <2>4. CASE ~(astray \/ (Behind /\ getCapacity(ba) > 0))
    <3>1. (AtNode(ba) \/ getCapacity(ba) = 0) /\ Holds(ba, flat) /\ got[1] = got[2]
      BY Zenon, <2>4, NotAstray
    <3>2. Placed(ba') /\ Holds(ba', flat')
      BY Zenon, <1>1, <2>1, <2>2, <3>1, WriteFacts
    <3> QED
      BY Zenon, <1>1, <2>1, <2>3, <3>1, <3>2 DEF BytesIInv, Placed, AtNode, OneBehind, Holds, Array, NodeAt
  <2> QED
    BY Zenon, <1>1, <2>1, <2>3, <2>4 DEF BytesIInv, Array
<1> QED
  BY Zenon, <1>2, <1>3

(* A stream reads into the array: it asks for room for n bytes, k arrive    *)
(* (bytearray.cc:680-708).                                                  *)
LEMMA StreamReadIInv ==
  ASSUME BytesIInv, NEW n \in Nat, n > 0, NEW k \in 0..n, StreamRead(n, k)
  PROVE  BytesIInv'
<1>1. ops \in Nat /\ ops' \in Nat /\ Array(ba)
  BY DEF StreamRead, Use, BytesIInv
<1>2. CASE Deref
  BY Zenon, <1>2, DerefIInv DEF StreamRead
<1>3. CASE ~Deref
  <2>1. /\ ba.m_cur # 0 /\ ba' = streamRead(ba, n, New(k)) /\ flat' = Put(flat, ba.m_position, New(k)) /\ got' = got
        /\ astray' = (astray \/ (Behind /\ k > 0 /\ getCapacity(ba) > 0))
    BY Zenon, <1>3 DEF StreamRead, Null
  <2>2. New(k) \in Seq(Byte) /\ Len(New(k)) = k /\ k <= n
    BY <1>1, NewBytes
  <2>3. Array(ba')
    BY Zenon, <1>1, <2>1, <2>2, StreamReadFacts
  <2>4. CASE ~astray'
    <3>1. ~astray /\ Placed(ba) /\ Holds(ba, flat) /\ got[1] = got[2]
      BY Zenon, <2>1, <2>4 DEF BytesIInv
    <3>2. AtNode(ba) \/ getCapacity(ba) = 0 \/ k = 0
      <4>1. CASE k > 0
        BY Zenon, <2>1, <2>4, <4>1, NotAstray
      <4> QED
        BY <4>1
    <3>3. Placed(ba') /\ Holds(ba', flat')
      BY Zenon, <1>1, <2>1, <2>2, <3>1, <3>2, StreamReadFacts
    <3> QED
      BY Zenon, <1>1, <2>1, <2>3, <3>1, <3>3 DEF BytesIInv, Placed, AtNode, OneBehind, Holds, Array, NodeAt
  <2> QED
    BY Zenon, <1>1, <2>1, <2>3, <2>4 DEF BytesIInv, Array
<1> QED
  BY Zenon, <1>2, <1>3

(* What is read from the array is what a plain sequence gives, with m_cur   *)
(* at its node or nothing to read.                                          *)
LEMMA ReadsExpected ==
  ASSUME Array(ba), Holds(ba, flat), NEW n \in Nat, n <= getReadSize(ba), ba.m_cur # 0,
         AtNode(ba) \/ n = 0
  PROVE  Bytes(ba, n) = Expected(n)
<1> DEFINE p == ba.m_position
<1>1. /\ ba.m \in Seq(Byte) /\ p \in Nat /\ ba.m_size \in Nat /\ p + n <= ba.m_size /\ ba.m_size <= Len(ba.m)
      /\ flat \in Seq(Byte) /\ Len(flat) = ba.m_size /\ \A i \in 1..ba.m_size : ba.m[i] = flat[i]
  BY DEF Array, Holds, getReadSize
<1>2. CASE AtNode(ba)
  <2>1. Here(ba) = p
    BY Zenon, <1>2, HereIsPosition
  <2>2. p + 1 \in Nat /\ p + n \in Nat /\ p + 1 > 0 /\ p + 1 <= (p + n) + 1 /\ Agree(ba.m, flat, p + n)
    <3>1. p + 1 \in Nat /\ p + n \in Nat /\ p + 1 > 0 /\ p + 1 <= (p + n) + 1
      BY <1>1
    <3>2. p + n <= Len(ba.m) /\ p + n <= Len(flat) /\ 1..(p + n) \subseteq 1..ba.m_size
      BY <1>1
    <3> QED
      BY Zenon, <1>1, <3>1, <3>2 DEF Agree
  <2>3. SubSeq(ba.m, p + 1, p + n) = SubSeq(flat, p + 1, p + n)
    <3> HIDE DEF p
    <3> QED
      BY SMTT(30), <1>1, <2>2, SameParts
  <2> QED
    BY Zenon, <2>1, <2>3 DEF Bytes, Expected
<1>3. CASE n = 0
  <2>1. Here(ba) \in Nat
    BY Zenon, HereIsPlace
  <2>2. ASSUME NEW s \in Seq(Byte), NEW h \in Nat PROVE SubSeq(s, h + 1, h + 0) = <<>>
    OBVIOUS
  <2> QED
    BY Zenon, <1>1, <1>3, <2>1, <2>2 DEF Bytes, Expected
<1> QED
  BY Zenon, <1>2, <1>3

(* The user reads n bytes, if there are so many (bytearray.cc:415-442).     *)
LEMMA ReadIInv ==
  ASSUME BytesIInv, NEW n \in Nat, Read(n)
  PROVE  BytesIInv'
<1>1. ops \in Nat /\ ops' \in Nat /\ Array(ba) /\ n <= getReadSize(ba)
  BY DEF Read, Use, BytesIInv
<1>2. CASE Deref
  BY Zenon, <1>2, DerefIInv DEF Read
<1>3. CASE ~Deref
  <2>1. /\ ba.m_cur # 0 /\ ba' = read(ba, n) /\ flat' = flat /\ got' = <<Bytes(ba, n), Expected(n)>>
        /\ astray' = (astray \/ (Behind /\ n > 0))
    BY Zenon, <1>3 DEF Read, Null
  <2>2. /\ Array(ba') /\ ba'.m = ba.m /\ ba'.m_size = ba.m_size
        /\ n = 0 => ba' = ba
        /\ AtNode(ba) => AtNode(ba')
    BY Zenon, <1>1, <2>1, ReadFacts
  <2>3. CASE ~astray'
    <3>1. Placed(ba) /\ Holds(ba, flat)
      BY Zenon, <2>1, <2>3 DEF BytesIInv
    <3>2. AtNode(ba) \/ n = 0
      <4>1. n > 0 \/ n = 0
        OBVIOUS
      <4> QED
        BY ZenonT(60), <2>1, <2>3, <3>1, <4>1 DEF Placed, OneBehind, Behind
    <3>3. Bytes(ba, n) = Expected(n)
      BY Zenon, <1>1, <2>1, <3>1, <3>2, ReadsExpected
    <3>4. got'[1] = got'[2]
      BY Zenon, <2>1, <3>3
    <3>5. Placed(ba') /\ Holds(ba', flat')
      BY Zenon, <2>1, <2>2, <3>1, <3>2 DEF Placed, Holds
    <3> QED
      BY Zenon, <1>1, <2>2, <3>4, <3>5 DEF BytesIInv, Placed, AtNode, OneBehind, Holds, Array, NodeAt
  <2> QED
    BY Zenon, <1>1, <2>2, <2>3 DEF BytesIInv, Array
<1> QED
  BY Zenon, <1>2, <1>3

(* The stream takes k of the bytes that are left to read, and setPosition   *)
(* moves past them (bytearray.cc:474-492).                                  *)
LEMMA StreamWriteIInv ==
  ASSUME BytesIInv, NEW k \in Nat, k > 0, StreamWrite(k)
  PROVE  BytesIInv'
<1>1. /\ ops \in Nat /\ ops' \in Nat /\ Array(ba) /\ k <= getReadSize(ba) /\ ba.m_cur # 0
  BY DEF StreamWrite, Use, BytesIInv, Null, getReadSize, Array
<1>2. /\ ba' = setPosition(ba, ba.m_position + k) /\ flat' = flat /\ got' = <<Bytes(ba, k), Expected(k)>>
      /\ astray' = (astray \/ Behind)
  BY DEF StreamWrite, streamWrite
<1>3. ba.m_position + k \in 0..Len(ba.m) /\ Larger(ba.m_position + k, ba.m_size) = ba.m_size
  BY <1>1 DEF Array, getReadSize, Larger
<1>4. Array(ba') /\ AtNode(ba') /\ ba'.m = ba.m /\ ba'.m_size = ba.m_size
  BY Zenon, <1>1, <1>2, <1>3, SetPositionFacts
<1>5. CASE ~astray'
  <2>1. Placed(ba) /\ Holds(ba, flat) /\ ~Behind
    BY Zenon, <1>2, <1>5 DEF BytesIInv
  <2>2. AtNode(ba)
    BY Zenon, <2>1 DEF Placed, OneBehind, Behind
  <2>3. Bytes(ba, k) = Expected(k)
    BY Zenon, <1>1, <2>1, <2>2, ReadsExpected
  <2>4. got'[1] = got'[2]
    BY Zenon, <1>2, <2>3
  <2>5. Holds(ba', flat')
    BY Zenon, <1>2, <1>4, <2>1 DEF Holds
  <2> QED
    BY Zenon, <1>1, <1>4, <2>4, <2>5 DEF BytesIInv, Placed, AtNode, OneBehind, Holds, Array, NodeAt
<1> QED
  BY ZenonT(60), <1>1, <1>4, <1>5 DEF BytesIInv, Array

(* The user moves the position anywhere up to the capacity                  *)
(* (bytearray.cc:474-492).                                                  *)
LEMMA SetPositionIInv ==
  ASSUME BytesIInv, NEW v \in Nat, SetPosition(v)
  PROVE  BytesIInv'
<1>1. ops \in Nat /\ ops' \in Nat /\ Array(ba) /\ v \in 0..Len(ba.m)
  BY SMTT(60) DEF SetPosition, Use, BytesIInv, Array
<1>2. /\ ba' = setPosition(ba, v) /\ got' = got /\ astray' = astray
      /\ flat' = IF v > Len(flat) THEN flat \o SubSeq(ba.m, Len(flat) + 1, v) ELSE flat
  BY Zenon DEF SetPosition
<1>3. Array(ba') /\ AtNode(ba') /\ ba'.m = ba.m /\ ba'.m_size = Larger(v, ba.m_size)
  BY Zenon, <1>1, <1>2, SetPositionFacts
<1>4. ASSUME Holds(ba, flat) PROVE Holds(ba', flat')
  <2>1. /\ ba.m \in Seq(Byte) /\ ba.m_size \in Nat /\ flat \in Seq(Byte) /\ Len(flat) = ba.m_size
        /\ \A i \in 1..ba.m_size : ba.m[i] = flat[i]
    BY Zenon, <1>1, <1>4 DEF Array, Holds
  <2>2. CASE v > Len(flat)
    <3> DEFINE t == SubSeq(ba.m, Len(flat) + 1, v)
    <3>1. /\ t \in Seq(Byte) /\ Len(t) = v - Len(flat)
          /\ \A k \in 1..(v - Len(flat)) : t[k] = ba.m[Len(flat) + k]
      <4>1. Len(flat) + 1 \in Nat /\ v \in Nat /\ Len(flat) + 1 > 0 /\ Len(flat) + 1 <= v + 1 /\ v <= Len(ba.m)
        BY <1>1, <2>1, <2>2
      <4>2. /\ t \in Seq(Byte) /\ Len(t) = v + 1 - (Len(flat) + 1)
            /\ \A k \in 1..(v + 1 - (Len(flat) + 1)) : t[k] = ba.m[k + (Len(flat) + 1) - 1]
        BY Zenon, <2>1, <4>1, Part
      <4>3. v + 1 - (Len(flat) + 1) = v - Len(flat) /\ \A k \in Nat : k + (Len(flat) + 1) - 1 = Len(flat) + k
        BY <2>1
      <4>4. 1..(v - Len(flat)) \subseteq Nat
        BY <2>1, <2>2
      <4> QED
        BY Zenon, <4>2, <4>3, <4>4
    <3> HIDE DEF t
    <3>2. /\ flat \o t \in Seq(Byte) /\ Len(flat \o t) = Len(flat) + Len(t)
          /\ \A i \in 1..Len(flat) : (flat \o t)[i] = flat[i]
          /\ \A i \in 1..Len(t) : (flat \o t)[Len(flat) + i] = t[i]
      BY Zenon, <2>1, <3>1, Joined
    <3>3. flat' = flat \o t /\ ba'.m_size = v
      BY Zenon, <1>2, <1>3, <2>1, <2>2 DEF t, Larger
    <3>4. ASSUME NEW i \in 1..v PROVE ba.m[i] = (flat \o t)[i]
      <4>1. CASE i <= Len(flat)
        <5>1. i \in 1..Len(flat)
          BY <2>1, <4>1
        <5> QED
          BY Zenon, <2>1, <3>2, <5>1
      <4>2. CASE i > Len(flat)
        <5>1. i - Len(flat) \in 1..Len(t) /\ i = Len(flat) + (i - Len(flat))
          BY <2>1, <3>1, <4>2
        <5> QED
          BY ZenonT(60), <3>1, <3>2, <5>1
      <4>3. Len(flat) \in Nat /\ i \in Nat
        BY <2>1
      <4>4. i <= Len(flat) \/ i > Len(flat)
        BY <4>3
      <4> QED
        BY Zenon, <4>1, <4>2, <4>4
    <3>5. Len(flat \o t) = v
      BY <2>1, <2>2, <3>1, <3>2
    <3> QED
      BY Zenon, <1>3, <3>2, <3>3, <3>4, <3>5 DEF Holds
  <2>3. CASE ~(v > Len(flat))
    <3>1. ba'.m_size = ba.m_size /\ flat' = flat
      BY Zenon, <1>1, <1>2, <1>3, <2>1, <2>3 DEF Larger
    <3> QED
      BY ZenonT(60), <1>3, <1>4, <3>1 DEF Holds
  <2> QED
    BY Zenon, <2>2, <2>3
<1> QED
  BY ZenonT(60), <1>1, <1>2, <1>3, <1>4 DEF BytesIInv, Placed, AtNode, OneBehind, Holds, Array, NodeAt

(* Whatever the user calls next keeps the invariant.                        *)
LEMMA BytesNextIInv ==
  ASSUME BytesIInv, [BytesNext]_bytesVars
  PROVE  BytesIInv'
<1>1. ASSUME NEW n \in 1..MaxBytes, Write(n) \/ StreamWrite(n) \/ \E k \in 0..n : StreamRead(n, k)
      PROVE  BytesIInv'
  <2>1. n \in Nat /\ n > 0
    OBVIOUS
  <2> QED
    BY Zenon, <1>1, <2>1, WriteIInv, StreamWriteIInv, StreamReadIInv
<1>2. ASSUME NEW n \in 0..MaxBytes, Read(n) \/ SetPosition(n) PROVE BytesIInv'
  <2>1. n \in Nat
    OBVIOUS
  <2> QED
    BY Zenon, <1>2, <2>1, ReadIInv, SetPositionIInv
<1>3. CASE Clear
  <2>1. ba' = ByteArray /\ flat' = <<>> /\ ops' \in Nat /\ got'[1] = got'[2]
    BY <1>3 DEF Clear, clear, Use, BytesIInv, NoRead
  <2>2. Array(ba') /\ Placed(ba') /\ Holds(ba', flat')
    BY Zenon, <2>1, EmptyArray DEF Placed
  <2> QED
    BY Zenon, <2>1, <2>2 DEF BytesIInv, Placed, AtNode, OneBehind, Holds, Array, NodeAt
<1>4. CASE UNCHANGED bytesVars
  BY Zenon, <1>4 DEF bytesVars, BytesIInv, Placed, AtNode, OneBehind, Holds, Array, NodeAt
<1> QED
  BY Zenon, <1>1, <1>2, <1>3, <1>4 DEF BytesNext

(* The inductive invariant holds always.                                    *)
LEMMA BytesInvariance == BytesSpec => []BytesIInv
  BY BytesInitIInv, BytesNextIInv, PTL DEF BytesSpec

(* Whatever the user calls, in whatever order, and whatever the size of the *)
(* nodes: the position stays inside the array, m_cur is at its node, NULL   *)
(* at the very end, or one node behind after a write that filled it, and    *)
(* NULL is there to be dereferenced only at the end of the capacity, unless *)
(* the array was used while m_cur was behind (bytearray.cc:385-492).        *)
THEOREM CurStaysRight == BytesSpec => [](CurRight /\ NullAtEnd)
<1>1. BytesIInv => CurRight /\ NullAtEnd
  <2> SUFFICES ASSUME BytesIInv PROVE CurRight /\ NullAtEnd
    OBVIOUS
  <2>1. /\ ba.m_position <= ba.m_size /\ ba.m_size <= Len(ba.m) /\ Len(ba.m) % m_baseSize = 0
        /\ ba.m_position \in Nat
    BY Zenon DEF BytesIInv, Array
  <2>2. AtNode(ba) \/ OneBehind(ba) \/ astray
    BY Zenon DEF BytesIInv, Placed
  <2>3. CurRight
    BY Zenon, <2>1, <2>2 DEF CurRight, AtNode, OneBehind, Behind
  <2>4. ASSUME ba.m_cur = 0, OneBehind(ba) PROVE FALSE
    BY <2>1, <2>4, BaseSizeAssumption DEF OneBehind
  <2>5. ASSUME ba.m_cur = 0, AtNode(ba) PROVE ba.m_position = Len(ba.m)
    <3>1. ba.m_position \div m_baseSize \in Nat
      BY Zenon, <2>1, Split
    <3>2. (ba.m_position \div m_baseSize) + 1 # 0
      BY <3>1
    <3> QED
      BY Zenon, <2>5, <3>2 DEF AtNode, NodeAt
  <2> QED
    BY Zenon, <2>2, <2>3, <2>4, <2>5 DEF NullAtEnd, Null
<1> QED
  BY <1>1, BytesInvariance, PTL

(* A ByteArray is a sequence of bytes: what it holds, and what every read,  *)
(* getReadBuffers and stream write gives, is what a plain sequence would,   *)
(* over any number of nodes of any size, as long as the array was not used  *)
(* while m_cur was one node behind with room left (bytearray.cc:396).       *)
THEOREM ArrayIsSequence == BytesSpec => []LikeSequence
<1>1. BytesIInv => LikeSequence
  <2> SUFFICES ASSUME BytesIInv, ~astray
               PROVE  getReadBuffers(ba, ba.m_size, 0) = flat /\ got[1] = got[2]
    BY Zenon DEF LikeSequence
  <2>1. /\ ba.m \in Seq(Byte) /\ ba.m_size \in Nat /\ ba.m_size <= Len(ba.m) /\ flat \in Seq(Byte)
        /\ Len(flat) = ba.m_size /\ \A i \in 1..ba.m_size : ba.m[i] = flat[i]
    BY Zenon DEF BytesIInv, Array, Holds
  <2>2. SubSeq(ba.m, 1, ba.m_size) = SubSeq(flat, 1, ba.m_size)
    BY SMTT(30), <2>1, SameParts DEF Agree
  <2>3. SubSeq(flat, 1, Len(flat)) = flat
    BY <2>1
  <2>4. getReadBuffers(ba, ba.m_size, 0) = SubSeq(ba.m, 1, ba.m_size)
    BY <2>1 DEF getReadBuffers
  <2> QED
    BY Zenon, <2>1, <2>2, <2>3, <2>4 DEF BytesIInv
<1> QED
  BY <1>1, BytesInvariance, PTL

-----------------------------------------------------------------------------
(* The number codes.                                                        *)

(* The highest bit of a number of 32 bits.                                  *)
LEMMA HighestFacts ==
  ASSUME NEW v \in SUBSET (0..31)
  PROVE  Highest(v) \in 0..31 /\ \A c \in v : c <= Highest(v)
<1>1. CASE v = {}
  BY <1>1 DEF Highest
<1>2. CASE v # {}
  <2> DEFINE Smaller == {p \in Nat \X Nat : p[1] < p[2]}
             S == {31 - c : c \in v}
  <2>1. IsWellFoundedOn(Smaller, Nat)
    BY Zenon, NatLessThanWellFounded DEF OpToRel
  <2>2. S \subseteq Nat /\ S # {}
    <3>1. ASSUME NEW c \in 0..31 PROVE 31 - c \in Nat
      OBVIOUS
    <3> QED
      BY Zenon, <1>2, <3>1
  <2>3. ASSUME NEW k \in Nat, NEW n \in Nat, ~(<<k, n>> \in Smaller) PROVE n <= k
    BY <2>3
  <2>4. PICK n \in S : \A k \in S : ~(<<k, n>> \in Smaller)
    <3> HIDE DEF Smaller, S
    <3> QED
      BY Zenon, <2>1, <2>2, WFMin
  <2>5. PICK b \in v : n = 31 - b
    BY Zenon
  <2>6. ASSUME NEW c \in v PROVE c <= b
    <3>1. 31 - c \in S /\ 31 - c \in Nat /\ n \in Nat
      BY Zenon, <2>2
    <3>2. n <= 31 - c
      <4> HIDE DEF Smaller, S
      <4> QED
        BY Zenon, <2>3, <2>4, <3>1
    <3> QED
      BY <2>5, <3>2
  <2>7. Highest(v) \in v /\ \A c \in v : c <= Highest(v)
    BY Zenon, <1>2, <2>6 DEF Highest
  <2> QED
    BY Zenon, <2>7
<1> QED
  BY Zenon, <1>1, <1>2

(* The bytes of a number of 32 bits, five at most (bytearray.cc:147-172).    *)
LEMMA WriteUintFacts ==
  ASSUME NEW v \in SUBSET (0..31)
  PROVE  \E n \in 1..5 :
           /\ Len(writeUint(v)) = n /\ \A c \in v : c < 7 * n
           /\ \A i \in 1..n : /\ writeUint(v)[i].more <=> i < n
                              /\ writeUint(v)[i].bits = {b \in 0..6 : 7 * (i - 1) + b \in v}
<1> DEFINE n == (Highest(v) \div 7) + 1
           code(i) == [more |-> i < n, bits |-> {b \in 0..6 : 7 * (i - 1) + b \in v}]
<1>1. n \in 1..5 /\ \A c \in v : c < 7 * n
  BY HighestFacts
<1>2. writeUint(v) = [i \in 1..n |-> code(i)]
  BY Zenon DEF writeUint
<1>3. \A i \in 1..n : writeUint(v)[i] = code(i)
  BY Zenon, <1>2
<1>4. Len(writeUint(v)) = n
  <2> HIDE DEF n, code
  <2> QED
    BY <1>1, <1>2
<1>5. \A i \in 1..n : /\ writeUint(v)[i].more <=> i < n
                      /\ writeUint(v)[i].bits = {b \in 0..6 : 7 * (i - 1) + b \in v}
  <2>1. \A i : /\ code(i).more = (i < n)
               /\ code(i).bits = {b \in 0..6 : 7 * (i - 1) + b \in v}
    OBVIOUS
  <2> HIDE DEF code
  <2> QED
    BY Zenon, <1>3, <2>1
<1> HIDE DEF n
<1> QED
  BY Zenon, <1>1, <1>4, <1>5

(* A byte, shifted to its place, gives the bits of the number that it was   *)
(* made of.                                                                 *)
LEMMA ShiftFacts ==
  ASSUME NEW v \in SUBSET (0..31), NEW i \in 1..5
  PROVE  Shift({b \in 0..6 : 7 * (i - 1) + b \in v}, 7 * (i - 1)) = {c \in v : c \div 7 = i - 1}
<1> DEFINE k == 7 * (i - 1)
           bits == {b \in 0..6 : k + b \in v}
<1>1. ASSUME NEW c \in Shift(bits, k) PROVE c \in v /\ c \div 7 = i - 1
  <2>1. PICK b \in bits : c = k + b
    BY Zenon DEF Shift
  <2> QED
    BY <2>1
<1>2. ASSUME NEW c \in v, c \div 7 = i - 1 PROVE c \in Shift(bits, k)
  <2>1. c - k \in 0..6 /\ c = k + (c - k) /\ c \in 0..31
    BY <1>2
  <2>2. c - k \in bits
    BY Zenon, <2>1
  <2> QED
    BY Zenon, <2>1, <2>2 DEF Shift
<1> QED
  BY Zenon, <1>1, <1>2

(* Both readers collect the bytes of a number of 32 bits to that number.    *)
LEMMA ReadUintFacts ==
  ASSUME NEW v \in SUBSET (0..31), NEW limit \in {32, 64}
  PROVE  /\ \A i \in ReadBytes(writeUint(v), limit) : 7 * (i - 1) < 32
         /\ UNION {Shift(writeUint(v)[i].bits, 7 * (i - 1)) : i \in ReadBytes(writeUint(v), limit)} = v
<1>1. PICK n \in 1..5 :
           /\ Len(writeUint(v)) = n /\ \A c \in v : c < 7 * n
           /\ \A i \in 1..n : /\ writeUint(v)[i].more <=> i < n
                              /\ writeUint(v)[i].bits = {b \in 0..6 : 7 * (i - 1) + b \in v}
  BY Zenon, WriteUintFacts
<1>2. ReadBytes(writeUint(v), limit) = 1..n
  <2>1. ASSUME NEW i \in 1..n PROVE 7 * (i - 1) < limit /\ \A j \in 1..(i - 1) : j \in 1..n /\ j < n
    OBVIOUS
  <2> QED
    BY ZenonT(60), <1>1, <2>1 DEF ReadBytes
<1>3. ASSUME NEW i \in 1..n PROVE 7 * (i - 1) < 32 /\ i \in 1..5
  OBVIOUS
<1> DEFINE P(i) == Shift(writeUint(v)[i].bits, 7 * (i - 1))
<1>4. ASSUME NEW i \in 1..n PROVE P(i) = {c \in v : c \div 7 = i - 1}
  <2>1. P(i) = Shift({b \in 0..6 : 7 * (i - 1) + b \in v}, 7 * (i - 1))
    BY Zenon, <1>1
  <2> QED
    BY Zenon, <1>3, <2>1, ShiftFacts
<1>5. ASSUME NEW c \in v PROVE \E i \in 1..n : c \in P(i)
  <2> DEFINE w == (c \div 7) + 1
  <2>1. w \in 1..n /\ c \div 7 = w - 1
    BY <1>1
  <2> HIDE DEF P, w
  <2>2. P(w) = {x \in v : x \div 7 = w - 1}
    BY Zenon, <1>4, <2>1
  <2> QED
    BY Zenon, <2>1, <2>2
<1>6. ASSUME NEW i \in ReadBytes(writeUint(v), limit) PROVE 7 * (i - 1) < 32
  <2>1. i \in 1..n
    BY ZenonT(60), <1>2
  <2> QED
    BY Zenon, <1>3, <2>1
<1>7. UNION {P(i) : i \in ReadBytes(writeUint(v), limit)} = v
  <2> HIDE DEF P
  <2>1. UNION {P(i) : i \in 1..n} = v
    <3>1. \A i \in 1..n : \A c \in P(i) : c \in v
      BY Zenon, <1>4
    <3>2. ASSUME NEW c \in UNION {P(i) : i \in 1..n} PROVE c \in v
      BY Zenon, <3>1
    <3>3. ASSUME NEW c \in v PROVE c \in UNION {P(i) : i \in 1..n}
      BY <1>5
    <3> QED
      BY Zenon, <3>2, <3>3
  <2> QED
    BY Zenon, <1>2, <2>1
<1> QED
  BY Zenon, <1>6, <1>7

(* Every 32-bit number survives the varint code, and a 64-bit number does   *)
(* exactly when it has no more than 32 bits, because readUint64 collects it *)
(* in 32 (bytearray.cc:147-172, 286-317); every signed number survives the  *)
(* zigzag code, and DecodeZigzag64 gives back those whose code has its      *)
(* highest bit 0 (bytearray.cc:116-139), for every width.                    *)
THEOREM CodesAreRight == VarintRight /\ ZigzagRight
<1>1. ASSUME NEW v \in SUBSET (0..31)
      PROVE  /\ readUint32(writeUint(v)) = v
             /\ \A wraps \in BOOLEAN : readUint64(writeUint(v), wraps) = v
  <2> DEFINE P(i) == Shift(writeUint(v)[i].bits, 7 * (i - 1))
             Q(i, wraps) == LET k == 7 * (i - 1)
                     IN  IF k < 32 THEN Shift(writeUint(v)[i].bits, k)
                         ELSE IF wraps THEN Shift(writeUint(v)[i].bits, k % 32) ELSE {}
             R == ReadBytes(writeUint(v), 64)
  <2>1. readUint32(writeUint(v)) = v
    BY Zenon, ReadUintFacts DEF readUint32
  <2>2. (\A i \in R : 7 * (i - 1) < 32) /\ UNION {P(i) : i \in R} = v
    BY Zenon, ReadUintFacts
  <2>3. ASSUME NEW wraps \in BOOLEAN PROVE readUint64(writeUint(v), wraps) = v
    <3>1. \A i \in R : Q(i, wraps) = P(i)
      BY Zenon, <2>2
    <3>2. readUint64(writeUint(v), wraps) = UNION {Q(i, wraps) : i \in R}
      BY Zenon DEF readUint64
    <3> HIDE DEF P, Q, R
    <3>3. UNION {Q(i, wraps) : i \in R} = UNION {P(i) : i \in R}
      BY Zenon, <3>1
    <3> QED
      BY Zenon, <2>2, <3>2, <3>3
  <2> QED
    BY Zenon, <2>1, <2>3
<1>2. ASSUME NEW v, NEW wraps \in BOOLEAN PROVE readUint64(writeUint(v), wraps) \subseteq 0..31
  BY Zenon DEF readUint64, Shift
<1>3. VarintRight
  <2> SUFFICES ASSUME NEW number \in Numbers
               PROVE  /\ number \subseteq 0..31 => readUint32(writeUint(number)) = number
                      /\ \A wraps \in BOOLEAN : readUint64(writeUint(number), wraps) = number <=> number \subseteq 0..31
    BY Zenon DEF VarintRight
  <2>1. CASE number \in SUBSET (0..31)
    BY Zenon, <1>1, <2>1
  <2>2. CASE number \notin SUBSET (0..31)
    <3>1. \A wraps \in BOOLEAN : readUint64(writeUint(number), wraps) # number
      BY ZenonT(60), <1>2, <2>2
    <3> QED
      BY Zenon, <2>2, <3>1
  <2> QED
    BY Zenon, <2>1, <2>2
<1>4. ASSUME NEW half \in Halves, NEW v \in (0 - half)..(half - 1)
      PROVE  /\ EncodeZigzag(v) \in 0..(2 * half - 1) /\ DecodeZigzag32(EncodeZigzag(v)) = v
             /\ DecodeZigzag64(EncodeZigzag(v), half) = v <=> EncodeZigzag(v) < half
  <2>1. half \in Nat
    BY Zenon, CodesAssumption
  <2> QED
    BY <2>1 DEF EncodeZigzag, DecodeZigzag32, DecodeZigzag64
<1>5. ZigzagRight
  BY Zenon, <1>4 DEF ZigzagRight
<1> QED
  BY Zenon, <1>3, <1>5

-----------------------------------------------------------------------------
(* Files.                                                                   *)

(* Induction over the natural numbers, for a set of them.                   *)
LEMMA Induction ==
  ASSUME NEW T, 0 \in T, \A n \in Nat : n \in T => n + 1 \in T
  PROVE  \A n \in Nat : n \in T
<1> DEFINE Smaller == {p \in Nat \X Nat : p[1] < p[2]}
           Out == Nat \ T
<1> SUFFICES ASSUME Out # {} PROVE FALSE
  BY Zenon
<1>1. IsWellFoundedOn(Smaller, Nat)
  BY Zenon, NatLessThanWellFounded DEF OpToRel
<1>2. Out \subseteq Nat
  BY Zenon
<1>3. PICK n \in Out : \A k \in Out : ~(<<k, n>> \in Smaller)
  <2> HIDE DEF Smaller, Out
  <2> QED
    BY Zenon, <1>1, <1>2, WFMin
<1>4. n \in Nat /\ n # 0
  BY Zenon, <1>3
<1>5. n - 1 \in Nat /\ (n - 1) + 1 = n /\ n - 1 < n
  BY <1>4
<1>6. n - 1 \in Out
  BY Zenon, <1>4, <1>5
<1>7. <<n - 1, n>> \in Smaller
  BY <1>4, <1>5
<1> QED
  BY Zenon, <1>3, <1>6, <1>7

(* Such a function is there up to every n, only one of them, and so is one  *)
(* for all of Nat.                                                          *)
Iterates(f, n, S, a, step) ==
  f \in [0..n -> S] /\ f[0] = a /\ \A i \in 0..n : i + 1 \in 0..n => f[i + 1] = step[f[i]]

Iterated(f, S, a, step) ==
  f \in [Nat -> S] /\ f[0] = a /\ \A n \in Nat : f[n + 1] = step[f[n]]

(* A step from S to S can be taken any number of times.                     *)
LEMMA Iteration ==
  ASSUME NEW S, NEW a \in S, NEW step \in [S -> S]
  PROVE  \E f : Iterated(f, S, a, step)
<1> DEFINE Some == {n \in Nat : \E f : Iterates(f, n, S, a, step)}
<1>1. \A n \in Nat : \E f : Iterates(f, n, S, a, step)
  <2>1. 0 \in Some
    <3> DEFINE f == [i \in 0..0 |-> a]
    <3>1. Iterates(f, 0, S, a, step)
      BY DEF Iterates
    <3> QED
      BY Zenon, <3>1
  <2>2. ASSUME NEW n \in Nat, n \in Some PROVE n + 1 \in Some
    <3>1. PICK g : Iterates(g, n, S, a, step)
      BY Zenon, <2>2
    <3> DEFINE f == [i \in 0..(n + 1) |-> IF i = n + 1 THEN step[g[n]] ELSE g[i]]
    <3>2. Iterates(f, n + 1, S, a, step)
      BY <3>1 DEF Iterates
    <3>3. n + 1 \in Nat
      OBVIOUS
    <3> QED
      BY Zenon, <3>2, <3>3
  <2> HIDE DEF Some
  <2>3. \A n \in Nat : n \in Some
    BY Zenon, <2>1, <2>2, Induction
  <2> QED
    BY Zenon, <2>3 DEF Some
<1>2. ASSUME NEW n \in Nat, NEW f, NEW g, Iterates(f, n, S, a, step), Iterates(g, n + 1, S, a, step)
      PROVE  f[n] = g[n]
  <2> DEFINE Equal == {i \in Nat : i <= n => f[i] = g[i]}
  <2>1. 0 \in Equal
    BY <1>2 DEF Iterates
  <2>2. ASSUME NEW i \in Nat, i \in Equal PROVE i + 1 \in Equal
    BY <1>2, <2>2 DEF Iterates
  <2>3. \A i \in Nat : i \in Equal
    <3> HIDE DEF Equal
    <3> QED
      BY Zenon, <2>1, <2>2, Induction
  <2> QED
    BY <2>3
<1> DEFINE upto(n) == CHOOSE f : Iterates(f, n, S, a, step)
           all == [n \in Nat |-> upto(n)[n]]
<1>3. ASSUME NEW n \in Nat PROVE Iterates(upto(n), n, S, a, step)
  BY Zenon, <1>1
<1>4. ASSUME NEW n \in Nat PROVE all[n] = upto(n)[n] /\ upto(n)[n] \in S
  <2>1. n \in 0..n
    OBVIOUS
  <2> HIDE DEF upto
  <2> QED
    BY Zenon, <1>3, <2>1 DEF Iterates
<1>5. all \in [Nat -> S]
  <2> HIDE DEF upto
  <2> QED
    BY Zenon, <1>4
<1>6. all[0] = a
  <2> HIDE DEF upto
  <2> QED
    BY Zenon, <1>3, <1>4, 0 \in Nat DEF Iterates
<1>7. ASSUME NEW n \in Nat PROVE all[n + 1] = step[all[n]]
  <2>1. n + 1 \in Nat /\ n \in 0..(n + 1) /\ n + 1 \in 0..(n + 1)
    OBVIOUS
  <2>2. Iterates(upto(n), n, S, a, step) /\ Iterates(upto(n + 1), n + 1, S, a, step)
    BY Zenon, <1>3, <2>1
  <2>3. upto(n + 1)[n + 1] = step[upto(n + 1)[n]]
    BY Zenon, <2>1, <2>2 DEF Iterates
  <2>4. upto(n)[n] = upto(n + 1)[n]
    <3> HIDE DEF upto
    <3> QED
      BY Zenon, <1>2, <2>2
  <2> QED
    BY Zenon, <1>4, <2>1, <2>3, <2>4
<1> HIDE DEF all
<1> QED
  BY Zenon, <1>5, <1>6, <1>7 DEF Iterated

(* A round is one of the loop's states again.                               *)
LEMMA WriteRoundType ==
  ASSUME NEW m \in Seq(Byte)
  PROVE  WriteRound(m) \in [Rounds -> Rounds]
<1> SUFFICES ASSUME NEW r \in Rounds PROVE WriteRound(m)[r] \in Rounds
  BY Zenon DEF WriteRound
<1> DEFINE diff == r.pos % m_baseSize
           len == (IF r.left > m_baseSize THEN m_baseSize ELSE r.left) - diff
           h == ((r.cur - 1) * m_baseSize) + diff
           stops == r.cur = 0 \/ r.left = 0 \/ len < 0 \/ h + len > Len(m)
           next == [cur |-> r.cur + 1, pos |-> r.pos + len, left |-> r.left - len, out |-> r.out \o SubSeq(m, h + 1, h + len)]
<1>1. WriteRound(m)[r] = IF stops THEN r ELSE next
  BY Zenon DEF WriteRound
<1>2. ASSUME ~stops PROVE next \in Rounds
  <2>1. r.cur \in Nat /\ r.pos \in Nat /\ r.left \in Nat /\ r.out \in Seq(Byte)
    BY Zenon DEF Rounds
  <2>2. diff \in Nat /\ len \in Nat /\ len <= r.left
    BY SMTT(60), <1>2, <2>1, BaseSizeAssumption
  <2>3. r.cur - 1 \in Nat
    BY <1>2, <2>1
  <2>4. h \in Nat
    BY <2>2, <2>3, BaseSizeAssumption
  <2>5. SubSeq(m, h + 1, h + len) \in Seq(Byte)
    <3> HIDE DEF h, len
    <3> QED
      BY <1>2, <2>2, <2>4
  <2>6. r.cur + 1 \in Nat /\ r.pos + len \in Nat /\ r.left - len \in Nat
    <3> HIDE DEF len
    <3> QED
      BY SMTT(60), <2>1, <2>2
  <2>7. r.out \o SubSeq(m, h + 1, h + len) \in Seq(Byte)
    <3> HIDE DEF h, len
    <3> QED
      BY <2>1, <2>5
  <2> QED
    BY Zenon, <2>6, <2>7 DEF Rounds
<1> QED
  BY Zenon, <1>1, <1>2

(* The rounds of the loop of writeToFile.                                   *)
Start(a) == [cur |-> a.m_cur, pos |-> a.m_position, left |-> getReadSize(a), out |-> <<>>]
LoopOf(a, round) == Iterated(round, Rounds, Start(a), WriteRound(a.m))

(* writeToFile is its loop, as many rounds as the memory has bytes          *)
(* (bytearray.cc:494-507).                                                  *)
LEMMA WriteLoop ==
  ASSUME NEW a, Array(a)
  PROVE  \E round : LoopOf(a, round) /\ writeToFile(a) = round[Len(a.m)].out
<1> DEFINE step == WriteRound(a.m)
           Loop(r) == r = [i \in Nat |-> IF i = 0 THEN Start(a) ELSE step[r[i - 1]]]
           round == CHOOSE r : Loop(r)
<1>1. a.m \in Seq(Byte) /\ Start(a) \in Rounds
  <2>1. /\ a.m \in Seq(Byte) /\ a.m_cur \in Nat /\ a.m_position \in Nat /\ a.m_size \in Nat
        /\ a.m_position <= a.m_size
    BY Zenon DEF Array
  <2>2. getReadSize(a) \in Nat
    BY <2>1 DEF getReadSize
  <2>3. <<>> \in Seq(Byte)
    OBVIOUS
  <2> QED
    BY Zenon, <2>1, <2>2, <2>3 DEF Start, Rounds
<1>2. step \in [Rounds -> Rounds]
  BY Zenon, <1>1, WriteRoundType
<1>3. PICK f : Iterated(f, Rounds, Start(a), step)
  <2> HIDE DEF step
  <2> QED
    BY Zenon, <1>1, <1>2, Iteration
<1>4. Loop(f)
  <2> HIDE DEF step
  <2> USE DEF Iterated
  <2>1. ASSUME NEW i \in Nat PROVE f[i] = IF i = 0 THEN Start(a) ELSE step[f[i - 1]]
    <3>1. CASE i = 0
      BY Zenon, <1>3, <3>1
    <3>2. CASE i # 0
      <4>1. i - 1 \in Nat /\ (i - 1) + 1 = i
        BY <3>2
      <4> QED
        BY Zenon, <1>3, <3>2, <4>1
    <3> QED
      BY Zenon, <3>1, <3>2
  <2>2. ASSUME NEW g, \A i \in Nat : f[i] = g[i], g = [i \in Nat |-> g[i]] PROVE f = g
    BY SMTT(30), <1>3, <2>2
  <2> DEFINE g == [i \in Nat |-> IF i = 0 THEN Start(a) ELSE step[f[i - 1]]]
  <2>3. g = [i \in Nat |-> g[i]] /\ \A i \in Nat : f[i] = g[i]
    BY Zenon, <2>1
  <2> QED
    BY Zenon, <2>2, <2>3
<1>5. Loop(round)
  BY Zenon, <1>4
<1>6. writeToFile(a) = round[Len(a.m)].out
  BY DEF writeToFile, Start
<1> HIDE DEF round, step
<1>7. round[0] = Start(a) /\ \A i \in Nat : round[i + 1] = step[round[i]]
  <2> DEFINE next(i) == IF i = 0 THEN Start(a) ELSE step[round[i - 1]]
  <2>1. ASSUME NEW i \in Nat PROVE i + 1 \in Nat /\ i + 1 # 0 /\ (i + 1) - 1 = i
    OBVIOUS
  <2>2. ASSUME NEW i \in Nat PROVE round[i] = next(i)
    <3>1. round = [k \in Nat |-> next(k)]
      BY Zenon, <1>5
    <3> HIDE DEF next
    <3> QED
      BY Zenon, <3>1
  <2>3. next(0) = Start(a)
    BY Zenon
  <2>4. ASSUME NEW i \in Nat PROVE next(i + 1) = step[round[i]]
    BY Zenon, <2>1
  <2> HIDE DEF next
  <2> QED
    BY Zenon, <2>1, <2>2, <2>3, <2>4, 0 \in Nat
<1>8. \A i \in Nat : round[i] \in Rounds
  <2> DEFINE Typed == {i \in Nat : round[i] \in Rounds}
  <2>1. 0 \in Typed
    BY Zenon, <1>1, <1>7
  <2>2. ASSUME NEW i \in Nat, i \in Typed PROVE i + 1 \in Typed
    <3>1. i + 1 \in Nat
      OBVIOUS
    <3> QED
      BY Zenon, <1>2, <1>7, <2>2, <3>1
  <2>3. \A i \in Nat : i \in Typed
    <3> HIDE DEF Typed
    <3> QED
      BY Zenon, <2>1, <2>2, Induction
  <2> QED
    BY Zenon, <2>3
<1>9. round \in [Nat -> Rounds]
  <2> DEFINE next(i) == IF i = 0 THEN Start(a) ELSE step[round[i - 1]]
  <2>1. round = [i \in Nat |-> next(i)]
    BY Zenon, <1>5
  <2> HIDE DEF next
  <2> QED
    BY SMTT(30), <1>8, <2>1
<1> QED
  BY Zenon, <1>6, <1>7, <1>9 DEF LoopOf, Iterated, step

(* Two parts of a sequence that meet are one part.                          *)
Meet(m, i, j, k) ==
  m \in Seq(Byte) /\ i \in Nat /\ j \in Nat /\ k \in Nat /\ i <= j /\ j <= k /\ k <= Len(m)
Join(m, i, j, k) == SubSeq(m, i + 1, j) \o SubSeq(m, j + 1, k) = SubSeq(m, i + 1, k)

(* Two parts of a sequence that meet are one part.                          *)
LEMMA Adjacent ==
  ASSUME NEW m, NEW i, NEW j, NEW k, Meet(m, i, j, k)
  PROVE  Join(m, i, j, k)
<1> DEFINE s == SubSeq(m, i + 1, j)  t == SubSeq(m, j + 1, k)  u == SubSeq(m, i + 1, k)
<1> USE DEF Meet
<1>1. s \in Seq(Byte) /\ Len(s) = j - i /\ \A n \in 1..(j - i) : s[n] = m[n + i]
  OBVIOUS
<1>2. t \in Seq(Byte) /\ Len(t) = k - j /\ \A n \in 1..(k - j) : t[n] = m[n + j]
  OBVIOUS
<1>3. u \in Seq(Byte) /\ Len(u) = k - i /\ \A n \in 1..(k - i) : u[n] = m[n + i]
  OBVIOUS
<1> HIDE DEF s, t, u
<1>4. /\ s \o t \in Seq(Byte) /\ Len(s \o t) = Len(s) + Len(t)
      /\ \A n \in 1..Len(s) : (s \o t)[n] = s[n]
      /\ \A n \in 1..Len(t) : (s \o t)[Len(s) + n] = t[n]
  BY Zenon, <1>1, <1>2, Joined
<1> DEFINE v == s \o t
<1> HIDE DEF v
<1>5. /\ v \in Seq(Byte) /\ Len(v) = k - i
      /\ \A n \in 1..(j - i) : v[n] = s[n]
      /\ \A n \in 1..(k - j) : v[(j - i) + n] = t[n]
  <2>1. /\ v \in Seq(Byte) /\ Len(v) = (j - i) + (k - j)
        /\ \A n \in 1..(j - i) : v[n] = s[n]
        /\ \A n \in 1..(k - j) : v[(j - i) + n] = t[n]
    BY Zenon, <1>1, <1>2, <1>4 DEF v
  <2>2. (j - i) + (k - j) = k - i
    OBVIOUS
  <2> QED
    BY Zenon, <2>1, <2>2
<1>6. ASSUME NEW n \in 1..(k - i) PROVE v[n] = u[n]
  <2>1. CASE n <= j - i
    <3>1. n \in 1..(j - i)
      BY <2>1
    <3> QED
      BY Zenon, <1>1, <1>3, <1>5, <3>1
  <2>2. CASE n > j - i
    <3>1. n - (j - i) \in 1..(k - j) /\ (n - (j - i)) + j = n + i /\ (j - i) + (n - (j - i)) = n
      BY <2>2
    <3> QED
      BY ZenonT(60), <1>2, <1>3, <1>5, <3>1
  <2> QED
    BY <2>1, <2>2
<1>7. v = u
  <2> DEFINE n == k - i
  <2>1. n \in Nat /\ v \in Seq(Byte) /\ Len(v) = n /\ u \in Seq(Byte) /\ Len(u) = n /\ \A l \in 1..n : v[l] = u[l]
    <3>1. k - i \in Nat
      OBVIOUS
    <3> QED
      BY Zenon, <3>1, <1>3, <1>5, <1>6
  <2> HIDE DEF n, Meet
  <2>2. v \in [1..n -> Byte] /\ u \in [1..n -> Byte]
    BY <2>1
  <2> QED
    BY SMTT(60), <2>1, <2>2
<1> QED
  BY Zenon, <1>7 DEF v, s, t, u, Join

(* A round of writeToFile that starts a node, or has a node or more left,   *)
(* writes some bytes, and if it leaves any, it ended at the end of a node.  *)
LenOf(pos, left) == (IF left > m_baseSize THEN m_baseSize ELSE left) - (pos % m_baseSize)
InPlace(cur, pos, left) ==
  /\ cur \in Nat /\ pos \in Nat /\ left \in Nat /\ cur > 0 /\ left > 0
  /\ (cur - 1) * m_baseSize + (pos % m_baseSize) = pos
  /\ pos % m_baseSize = 0 \/ left >= m_baseSize

(* A round in place writes at least one byte, not more than are left, and   *)
(* ends where a node does or with nothing left.                             *)
LEMMA RoundLength ==
  ASSUME NEW cur, NEW pos, NEW left, InPlace(cur, pos, left), NEW len, len = LenOf(pos, left)
  PROVE  /\ len \in Nat /\ len > 0 /\ len <= left
         /\ left - len # 0 => (((cur + 1) - 1) * m_baseSize + ((pos + len) % m_baseSize) = pos + len
                               /\ (pos + len) % m_baseSize = 0)
<1> USE DEF InPlace, LenOf
<1> DEFINE d == pos % m_baseSize  before == (cur - 1) * m_baseSize  end == cur * m_baseSize
<1>1. d \in 0..(m_baseSize - 1) /\ m_baseSize \in Nat /\ m_baseSize > 0
  BY BaseSizeAssumption
<1>2. before \in Nat /\ end = before + m_baseSize /\ end \in Nat
  BY BaseSizeAssumption
<1>3. end % m_baseSize = 0
  <2>1. end = cur * m_baseSize + 0 /\ 0 \in 0..(m_baseSize - 1)
    BY <1>1, <1>2
  <2> HIDE DEF end
  <2> QED
    BY Zenon, <1>2, <2>1, Unsplit
<1>4. (cur + 1) - 1 = cur
  OBVIOUS
<1>5. before + d = pos /\ (d = 0 \/ left >= m_baseSize) /\ len = (IF left > m_baseSize THEN m_baseSize ELSE left) - d
  BY Zenon
<1> HIDE DEF d, before
<1>6. len \in Nat /\ len > 0 /\ len <= left
  BY <1>1, <1>5
<1>7. ASSUME left - len # 0 PROVE pos + len = end
  <2> HIDE DEF end
  <2> QED
    BY <1>1, <1>2, <1>5, <1>7
<1>8. end + 0 = end
  BY <1>2
<1> QED
  BY Zenon, <1>3, <1>4, <1>6, <1>7, <1>8

(* In a round of writeToFile that is at its place in the array, and starts  *)
(* a node or has more than a node left, all bytes of the node are written   *)
(* that are left: until none is, each round starts further on.              *)
WriteOn(a, r, i) ==
  /\ r.pos + r.left = a.m_size /\ a.m_position <= r.pos /\ r.out = SubSeq(a.m, a.m_position + 1, r.pos)
  /\ \/ r.left = 0
     \/ /\ r.cur > 0 /\ r.pos >= a.m_position + i
        /\ (r.cur - 1) * m_baseSize + (r.pos % m_baseSize) = r.pos
        /\ r.pos % m_baseSize = 0 \/ r.left >= m_baseSize

(* A round that starts in place ends in place, or is the last.              *)
LEMMA WriteOnStep ==
  ASSUME NEW a, Array(a), NEW r \in Rounds, NEW i \in Nat, WriteOn(a, r, i)
  PROVE  WriteOn(a, WriteRound(a.m)[r], i + 1)
<1> DEFINE B == m_baseSize
           len == (IF r.left > B THEN B ELSE r.left) - (r.pos % B)
           h == ((r.cur - 1) * B) + (r.pos % B)
           stops == r.cur = 0 \/ r.left = 0 \/ len < 0 \/ h + len > Len(a.m)
           next == [cur |-> r.cur + 1, pos |-> r.pos + len, left |-> r.left - len,
                    out |-> r.out \o SubSeq(a.m, h + 1, h + len)]
<1>1. WriteRound(a.m)[r] = IF stops THEN r ELSE next
  BY Zenon DEF WriteRound
<1>2. /\ r.cur \in Nat /\ r.pos \in Nat /\ r.left \in Nat /\ r.out \in Seq(Byte)
      /\ a.m \in Seq(Byte) /\ a.m_position \in Nat /\ a.m_size \in Nat /\ a.m_size <= Len(a.m)
  BY Zenon DEF Rounds, Array
<1>3. CASE r.left = 0
  BY Zenon, <1>1, <1>3 DEF WriteOn
<1>4. CASE r.left # 0
  <2>1. /\ r.cur > 0 /\ r.pos >= a.m_position + i /\ h = r.pos
        /\ r.pos % B = 0 \/ r.left >= B
    BY Zenon, <1>4 DEF WriteOn
  <2>2. r.left > 0
    BY <1>2, <1>4
  <2>3. /\ len \in Nat /\ len > 0 /\ len <= r.left
        /\ r.left - len # 0 => (((r.cur + 1) - 1) * B + ((r.pos + len) % B) = r.pos + len /\ (r.pos + len) % B = 0)
    <3>1. InPlace(r.cur, r.pos, r.left) /\ len = LenOf(r.pos, r.left)
      BY Zenon, <1>2, <2>1, <2>2 DEF InPlace, LenOf
    <3> HIDE DEF len
    <3> QED
      BY SMT, <3>1, RoundLength
  <2> DEFINE p == r.pos  l == r.left  n == len  k == a.m_position  z == a.m_size
  <2>4. /\ p \in Nat /\ l \in Nat /\ n \in Nat /\ k \in Nat /\ z \in Nat /\ n > 0 /\ n <= l /\ p + l = z /\ k <= p
        /\ p >= k + i /\ z <= Len(a.m)
    BY Zenon, <1>2, <2>1, <2>3 DEF WriteOn
  <2>5. ~stops
    <3>1. h = p /\ r.cur # 0 /\ r.left # 0
      BY <1>2, <1>4, <2>1
    <3>2. ~(n < 0) /\ ~(p + n > Len(a.m))
      <4> HIDE DEF p, l, n, k, z
      <4>1. Len(a.m) \in Nat
        BY <1>2
      <4> QED
        BY <2>4, <4>1
    <3> QED
      BY Zenon, <3>1, <3>2
  <2>6. /\ p + n \in Nat /\ p <= p + n /\ p + n <= Len(a.m) /\ l - n \in Nat /\ (p + n) + (l - n) = z /\ k <= p + n
        /\ p + n >= k + (i + 1) /\ r.cur + 1 > 0
    <3> HIDE DEF p, l, n, k, z
    <3>1. Len(a.m) \in Nat
      BY <1>2
    <3> QED
      BY <1>2, <2>4, <3>1
  <2>7. r.out \o SubSeq(a.m, h + 1, h + len) = SubSeq(a.m, k + 1, p + n)
    <3>1. r.out = SubSeq(a.m, k + 1, p) /\ h + len = p + n /\ h = p
      BY Zenon, <2>1 DEF WriteOn
    <3> HIDE DEF p, l, n, k, z, h, len
    <3>2. SubSeq(a.m, k + 1, p) \o SubSeq(a.m, p + 1, p + n) = SubSeq(a.m, k + 1, p + n)
      <4>1. Meet(a.m, k, p, p + n)
        BY Zenon, <1>2, <2>4, <2>6 DEF Meet
      <4>2. Join(a.m, k, p, p + n)
        BY Zenon, <4>1, Adjacent
      <4> QED
        BY Zenon, <4>2 DEF Join
    <3> QED
      BY Zenon, <3>1, <3>2
  <2>8. WriteRound(a.m)[r] = next
    BY Zenon, <1>1, <2>5
  <2>9. next.cur = r.cur + 1 /\ next.pos = p + n /\ next.left = l - n /\ next.out = SubSeq(a.m, k + 1, p + n)
    BY Zenon, <2>7
  <2> HIDE DEF next, stops
  <2>10. l - n # 0 => (((r.cur + 1) - 1) * B + ((p + n) % B) = p + n /\ (p + n) % B = 0)
    BY Zenon, <2>3
  <2> HIDE DEF h, len, p, l, n
  <2> QED
    BY Zenon, <2>6, <2>8, <2>9, <2>10 DEF WriteOn
<1> QED
  BY Zenon, <1>3, <1>4

(* So writeToFile writes all bytes that are left to read, if it starts at   *)
(* the start of a node or has a node or more to write.                      *)
LEMMA FileWhole ==
  ASSUME NEW a, Array(a), AtNode(a), getReadSize(a) > 0,
         a.m_position % m_baseSize = 0 \/ getReadSize(a) >= m_baseSize
  PROVE  writeToFile(a) = SubSeq(a.m, a.m_position + 1, a.m_size)
<1> DEFINE p == a.m_position  z == a.m_size  n == Len(a.m)
<1>1. a.m \in Seq(Byte) /\ p \in Nat /\ z \in Nat /\ n \in Nat /\ z <= n /\ a.m_cur \in Nat /\ p < z
  <2>1. a.m \in Seq(Byte) /\ p \in Nat /\ z \in Nat /\ z <= n /\ a.m_cur \in Nat
    BY Zenon DEF Array
  <2> QED
    BY <2>1 DEF getReadSize
<1>2. PICK round : LoopOf(a, round) /\ writeToFile(a) = round[n].out
  BY Zenon, WriteLoop
<1>3. /\ round \in [Nat -> Rounds] /\ round[0] = Start(a)
      /\ \A i \in Nat : round[i + 1] = WriteRound(a.m)[round[i]]
  BY Zenon, <1>2 DEF LoopOf, Iterated
<1>4. WriteOn(a, Start(a), 0)
  <2>1. a.m_cur = (p \div m_baseSize) + 1
    BY <1>1 DEF AtNode, NodeAt
  <2>2. /\ p \div m_baseSize \in Nat /\ p = (p \div m_baseSize) * m_baseSize + (p % m_baseSize)
    BY Zenon, <1>1, Split
  <2>3. a.m_cur > 0 /\ a.m_cur - 1 = p \div m_baseSize
    <3> DEFINE q == p \div m_baseSize
    <3> HIDE DEF q
    <3> QED
      BY <2>1, <2>2 DEF q
  <2>4. p + (z - p) = z /\ p <= p /\ p >= p + 0
    BY <1>1
  <2>5. <<>> = SubSeq(a.m, p + 1, p)
    BY <1>1
  <2>6. /\ Start(a).cur = a.m_cur /\ Start(a).pos = p /\ Start(a).left = getReadSize(a) /\ Start(a).out = <<>>
        /\ getReadSize(a) = z - p
    BY Zenon DEF Start, getReadSize
  <2> QED
    BY Zenon, <2>2, <2>3, <2>4, <2>5, <2>6 DEF WriteOn
<1> DEFINE T == {i \in Nat : WriteOn(a, round[i], i)}
<1>5. 0 \in T
  BY Zenon, <1>3, <1>4
<1>6. ASSUME NEW i \in Nat, i \in T PROVE i + 1 \in T
  <2>1. i + 1 \in Nat
    OBVIOUS
  <2>2. round[i] \in Rounds
    BY Zenon, <1>3
  <2>3. WriteOn(a, WriteRound(a.m)[round[i]], i + 1)
    BY Zenon, <1>6, <2>2, WriteOnStep
  <2> QED
    BY Zenon, <1>3, <2>1, <2>3
<1>7. n \in T
  <2> HIDE DEF T, n
  <2> QED
    BY Zenon, <1>1, <1>5, <1>6, Induction
<1>8. WriteOn(a, round[n], n) /\ round[n] \in Rounds
  BY Zenon, <1>1, <1>3, <1>7
<1>9. round[n].pos = z
  <2> DEFINE pos == round[n].pos  left == round[n].left
  <2>1. pos \in Nat /\ left \in Nat /\ pos + left = z /\ (left = 0 \/ pos >= p + n)
    BY Zenon, <1>8 DEF WriteOn, Rounds
  <2> HIDE DEF pos, left, p, z, n
  <2>2. pos = z
    BY <1>1, <2>1
  <2> QED
    BY Zenon, <2>2 DEF pos
<1> QED
  BY Zenon, <1>2, <1>8, <1>9 DEF WriteOn

(* A position d past a node start, moved on by what is left less d, is what *)
(* is left past that start.                                                 *)
LEMMA MovedOn ==
  ASSUME NEW p \in Nat, NEW n \in Nat, n < m_baseSize, p % m_baseSize <= n
  PROVE  (p + (n - (p % m_baseSize))) % m_baseSize = n
<1> DEFINE q == p \div m_baseSize  d == p % m_baseSize  e == p + (n - d)
<1>1. q \in Nat /\ d \in 0..(m_baseSize - 1) /\ p = q * m_baseSize + d
  BY Zenon, Split
<1>2. q * m_baseSize \in Int /\ n \in 0..(m_baseSize - 1)
  BY <1>1, BaseSizeAssumption
<1>3. e \in Nat /\ e = q * m_baseSize + n
  <2> DEFINE b == q * m_baseSize
  <2>1. b \in Int /\ p = b + d
    BY Zenon, <1>1, <1>2
  <2>2. d \in Nat /\ d <= n
    BY <1>1, BaseSizeAssumption
  <2>3. e = p + (n - d)
    BY Zenon
  <2> HIDE DEF b, q, d, e
  <2>4. e \in Nat /\ e = b + n
    BY <2>1, <2>2, <2>3
  <2> QED
    BY Zenon, <2>4 DEF b
<1> HIDE DEF q, e
<1>4. e % m_baseSize = n
  BY Zenon, <1>1, <1>2, <1>3, Unsplit
<1> QED
  BY Zenon, <1>4 DEF e

(* In the middle of a node, with less than a node left, writeToFile writes  *)
(* less than what is left, if anything, and then stops: len is negative.    *)
WriteShort(a, r) ==
  LET d == a.m_position % m_baseSize IN
  \/ r.pos = a.m_position /\ r.left = getReadSize(a) /\ Len(r.out) = 0
  \/ /\ d < getReadSize(a) /\ r.pos = a.m_position + (getReadSize(a) - d)
     /\ r.left = d /\ Len(r.out) = getReadSize(a) - d

(* With less than a node to write and m_position inside a node, no round    *)
(* gets to the end of what is left.                                         *)
LEMMA WriteShortStep ==
  ASSUME NEW a, Array(a), NEW r \in Rounds, getReadSize(a) < m_baseSize, WriteShort(a, r)
  PROVE  WriteShort(a, WriteRound(a.m)[r])
<1> DEFINE B == m_baseSize
           d == a.m_position % B
           n == getReadSize(a)
           diff == r.pos % B
           len == (IF r.left > B THEN B ELSE r.left) - diff
           h == ((r.cur - 1) * B) + diff
           stops == r.cur = 0 \/ r.left = 0 \/ len < 0 \/ h + len > Len(a.m)
           next == [cur |-> r.cur + 1, pos |-> r.pos + len, left |-> r.left - len,
                    out |-> r.out \o SubSeq(a.m, h + 1, h + len)]
<1>1. WriteRound(a.m)[r] = IF stops THEN r ELSE next
  BY Zenon DEF WriteRound
<1>2. /\ r.cur \in Nat /\ r.pos \in Nat /\ r.left \in Nat /\ r.out \in Seq(Byte)
      /\ a.m \in Seq(Byte) /\ a.m_position \in Nat
  BY Zenon DEF Rounds, Array
<1>3. d \in 0..(B - 1) /\ n \in Nat /\ B \in Nat
  BY <1>2, BaseSizeAssumption DEF Array, getReadSize
<1>4. CASE stops
  BY Zenon, <1>1, <1>4
<1>5. CASE ~stops
  <2>1. WriteRound(a.m)[r] = next
    BY Zenon, <1>1, <1>5
  <2>2. CASE r.pos = a.m_position /\ r.left = n /\ Len(r.out) = 0
    <3>1. diff = d /\ len = n - d
      <4>1. diff = d
        BY Zenon, <2>2
      <4> HIDE DEF diff, d, n
      <4> QED
        BY <1>3, <2>2, <4>1 DEF n
    <3>2. len >= 0 /\ h + len <= Len(a.m) /\ r.cur # 0
      <4> DEFINE x == r.cur - 1
      <4>0. d \in Int /\ n - d \in Int
        <5> HIDE DEF d, n
        <5> QED
          BY <1>3
      <4>1. h \in Int
        <5>1. x \in Int /\ B \in Int /\ diff \in Int
          <6>1. x \in Int /\ B \in Int
            BY <1>2, <1>3
          <6> QED
            BY Zenon, <6>1, <4>0, <3>1
        <5> HIDE DEF x, diff
        <5>2. x * B + diff \in Int
          BY <5>1
        <5> QED
          BY Zenon, <5>2 DEF x
      <4>2. Len(a.m) \in Nat /\ len \in Int
        <5>1. Len(a.m) \in Nat
          BY <1>2
        <5> QED
          BY Zenon, <5>1, <4>0, <3>1
      <4> HIDE DEF h, len
      <4> QED
        BY <1>5, <4>1, <4>2
    <3>3. h \in Nat /\ len \in Nat
      <4>1. r.cur - 1 \in Nat
        BY <1>2, <3>2
      <4>2. h \in Nat
        BY <1>3, <3>1, <4>1
      <4>3. len \in Int
        BY <1>3, <3>1
      <4> QED
        BY <3>2, <4>2, <4>3
    <3>4. SubSeq(a.m, h + 1, h + len) \in Seq(Byte) /\ Len(SubSeq(a.m, h + 1, h + len)) = len
      <4> HIDE DEF h, len
      <4> QED
        BY <1>2, <3>2, <3>3
    <3>5. Len(r.out \o SubSeq(a.m, h + 1, h + len)) = 0 + len
      <4> DEFINE t == SubSeq(a.m, h + 1, h + len)  s == r.out
      <4>1. s \in Seq(Byte) /\ t \in Seq(Byte) /\ Len(t) = len /\ Len(s) = 0
        BY Zenon, <1>2, <2>2, <3>4
      <4> HIDE DEF s, t
      <4>2. Len(s \o t) = Len(s) + Len(t)
        BY Zenon, <4>1, Joined
      <4> QED
        BY Zenon, <4>1, <4>2 DEF s, t
    <3>6. next.pos = a.m_position + len /\ next.left = n - len /\ Len(next.out) = 0 + len
      BY Zenon, <2>2, <3>5
    <3> HIDE DEF next, stops, h, len, d, n
    <3>7. \/ next.pos = a.m_position /\ next.left = n /\ Len(next.out) = 0
          \/ d < n /\ next.pos = a.m_position + (n - d) /\ next.left = d /\ Len(next.out) = n - d
      BY <1>2, <1>3, <3>1, <3>2, <3>6
    <3> QED
      BY Zenon, <2>1, <3>7 DEF WriteShort, d, n
  <2>3. CASE /\ d < n /\ r.pos = a.m_position + (n - d)
             /\ r.left = d /\ Len(r.out) = n - d
    <3>1. d <= n
      <4> HIDE DEF d, n
      <4> QED
        BY <1>3, <2>3
    <3>2. (a.m_position + (n - d)) % B = n
      BY Zenon, <1>2, <1>3, <3>1, MovedOn
    <3>3. diff = n /\ r.left = d
      BY Zenon, <2>3, <3>2
    <3> HIDE DEF d, n, diff
    <3>4. len < 0
      BY <1>3, <2>3, <3>3
    <3> QED
      BY Zenon, <1>5, <3>4
  <2> QED
    BY Zenon, <2>2, <2>3 DEF WriteShort
<1> QED
  BY Zenon, <1>4, <1>5

(* Such a file has another length than what was to be written: the length   *)
(* of a round forgets the offset of the first.                              *)
LEMMA FilePart ==
  ASSUME NEW a, Array(a), getReadSize(a) > 0, a.m_position % m_baseSize # 0, getReadSize(a) < m_baseSize
  PROVE  Len(writeToFile(a)) # getReadSize(a)
<1> DEFINE n == Len(a.m)  d == a.m_position % m_baseSize  z == getReadSize(a)
<1>1. a.m \in Seq(Byte) /\ a.m_position \in Nat /\ a.m_size \in Nat
  BY Zenon DEF Array
<1>2. n \in Nat /\ d \in Nat /\ z \in Int
  BY <1>1, BaseSizeAssumption DEF getReadSize
<1>3. PICK round : LoopOf(a, round) /\ writeToFile(a) = round[n].out
  BY Zenon, WriteLoop
<1>4. /\ round \in [Nat -> Rounds] /\ round[0] = Start(a)
      /\ \A i \in Nat : round[i + 1] = WriteRound(a.m)[round[i]]
  BY Zenon, <1>3 DEF LoopOf, Iterated
<1>5. WriteShort(a, Start(a))
  <2>1. Len(<<>>) = 0
    OBVIOUS
  <2>2. Start(a).pos = a.m_position /\ Start(a).left = getReadSize(a) /\ Start(a).out = <<>>
    BY Zenon DEF Start
  <2> QED
    BY Zenon, <2>1, <2>2 DEF WriteShort
<1> DEFINE T == {i \in Nat : WriteShort(a, round[i])}
<1>6. 0 \in T
  BY Zenon, <1>4, <1>5
<1>7. ASSUME NEW i \in Nat, i \in T PROVE i + 1 \in T
  <2>1. i + 1 \in Nat
    OBVIOUS
  <2>2. round[i] \in Rounds
    BY Zenon, <1>4
  <2>3. WriteShort(a, WriteRound(a.m)[round[i]])
    BY Zenon, <1>7, <2>2, WriteShortStep
  <2> QED
    BY Zenon, <1>4, <2>1, <2>3
<1>8. n \in T
  <2> HIDE DEF T, n
  <2> QED
    BY Zenon, <1>2, <1>6, <1>7, Induction
<1>9. Len(writeToFile(a)) = 0 \/ Len(writeToFile(a)) = z - d
  BY Zenon, <1>3, <1>8 DEF WriteShort
<1>10. z > 0 /\ d # 0
  BY Zenon
<1> HIDE DEF z, d
<1>11. Len(writeToFile(a)) # z
  BY <1>2, <1>9, <1>10
<1> QED
  BY Zenon, <1>11 DEF z

(* For nodes of any size and any number of them: writeToFile writes what is *)
(* left to read exactly when that begins with a node or fills one           *)
(* (bytearray.cc:494-507).                                                  *)
THEOREM FilesAreRight == BytesSpec => []FileRight
<1>1. BytesIInv => FileRight
  <2> SUFFICES ASSUME BytesIInv, ~astray, ~Behind, getReadSize(ba) > 0
               PROVE  writeToFile(ba) = Expected(getReadSize(ba)) <=>
                        (ba.m_position % m_baseSize = 0 \/ getReadSize(ba) >= m_baseSize)
    BY Zenon DEF FileRight
  <2> DEFINE p == ba.m_position  z == ba.m_size  left == getReadSize(ba)
  <2>1. Array(ba) /\ AtNode(ba) /\ Holds(ba, flat)
    BY Zenon DEF BytesIInv, Placed, OneBehind, Behind
  <2>2. /\ ba.m \in Seq(Byte) /\ p \in Nat /\ z \in Nat /\ z <= Len(ba.m) /\ left = z - p /\ flat \in Seq(Byte)
        /\ Len(flat) = z /\ \A i \in 1..z : ba.m[i] = flat[i]
    BY Zenon, <2>1 DEF Array, Holds, getReadSize
  <2>3. p < z /\ left \in Nat /\ p + left = z
    BY <2>2
  <2>4. SubSeq(ba.m, p + 1, z) = SubSeq(flat, p + 1, z)
    <3>1. z <= z /\ p + 1 \in Nat /\ p + 1 > 0 /\ p + 1 <= z + 1
      BY <2>2, <2>3
    <3>2. Agree(ba.m, flat, z)
      BY Zenon, <2>2, <3>1 DEF Agree
    <3> QED
      BY Zenon, <2>2, <3>1, <3>2, SameParts
  <2>5. Expected(left) = SubSeq(flat, p + 1, z)
    BY Zenon, <2>3 DEF Expected
  <2>6. ASSUME p % m_baseSize = 0 \/ left >= m_baseSize PROVE writeToFile(ba) = Expected(left)
    BY Zenon, <2>1, <2>4, <2>5, <2>6, FileWhole
  <2>7. ASSUME ~(p % m_baseSize = 0 \/ left >= m_baseSize) PROVE writeToFile(ba) # Expected(left)
    <3>1. p % m_baseSize # 0 /\ left < m_baseSize
      <4> HIDE DEF p, left
      <4> QED
        BY <2>3, <2>7, BaseSizeAssumption
    <3>2. Len(writeToFile(ba)) # left
      BY Zenon, <2>1, <3>1, FilePart
    <3>3. Len(SubSeq(flat, p + 1, z)) = left
      BY <2>2, <2>3
    <3> QED
      BY Zenon, <2>5, <3>2, <3>3
  <2> QED
    BY Zenon, <2>6, <2>7
<1> QED
  BY <1>1, BytesInvariance, PTL

-----------------------------------------------------------------------------
(* The logger.                                                              *)

AnyAppender == Appenders \cup {Watched}

(* An object is gone while a thread is still to use it only after a race:   *)
(* the standard output of a producer that has tested it, the appender the   *)
(* thread of the logger is at, the logger itself.                           *)
LogIInv ==
  /\ m_appenders \in Seq(AnyAppender) /\ doing \in [Producers -> {"idle", "stdout", "lock"}]
  /\ crashed => raced
  /\ ~alive => raced \/ pc = "end"
  /\ ~m_stdoutAppender => raced \/ \A p \in Producers : doing[p] # "stdout"
  /\ pc = "append" => raced \/ appender \in Listed

(* A new logger (log.cc:224-235).                                           *)
LEMMA LogInitIInv == LogInit => LogIInv
  BY DEF LogInit, LogIInv, AnyAppender

(* The steps of asyncLogFunc (log.cc:315-338).                              *)
LEMMA LogThreadIInv ==
  ASSUME LogIInv, LogThread
  PROVE  LogIInv'
<1>1. CASE loop \/ lockAndSwap \/ waitForSeconds \/ clearBuffer
  BY Zenon, <1>1 DEF loop, lockAndSwap, waitForSeconds, clearBuffer, InThread, Freed, Goto, setVars, LogIInv, Listed
<1>2. CASE setPosition0
  <2>1. m_appenders # <<>> => Head(m_appenders) \in Listed
    BY DEF LogIInv, Listed
  <2> QED
    BY Zenon, <1>2, <2>1 DEF setPosition0, InThread, Freed, Goto, setVars, LogIInv, Listed
<1>3. CASE append
  <2> DEFINE later == {i \in 2..Len(m_appenders) : m_appenders[i - 1] = appender}
  <2>1. later # {} => m_appenders[CHOOSE i \in later : TRUE] \in Listed
    <3>1. later \subseteq 1..Len(m_appenders)
      BY DEF LogIInv
    <3> QED
      BY Zenon, <3>1 DEF Listed
  <2> QED
    BY Zenon, <1>3, <2>1 DEF append, InThread, Goto, setVars, LogIInv, Listed
<1> QED
  BY Zenon, <1>1, <1>2, <1>3 DEF LogThread

(* The steps of log() (log.cc:291-304).                                     *)
LEMMA ProducerIInv ==
  ASSUME LogIInv, NEW p \in Producers, Producer(p)
  PROVE  LogIInv'
<1>1. CASE log(p)
  BY Zenon, <1>1 DEF log, Up, setVars, LogIInv, Listed
<1>2. CASE logStdout(p)
  BY Zenon, <1>2 DEF logStdout, setVars, LogIInv, Listed
<1>3. ASSUME NEW n \in Lengths, writeString(p, n) PROVE LogIInv'
  BY Zenon, <1>3 DEF writeString, setVars, LogIInv, Listed
<1> QED
  BY Zenon, <1>1, <1>2, <1>3 DEF Producer

(* What is left of a list after an erasure (log.cc:278).                    *)
LEMMA EraseFacts ==
  ASSUME NEW s \in Seq(AnyAppender), NEW i \in 1..Len(s)
  PROVE  /\ erase(s, i) \in Seq(AnyAppender)
         /\ \A j \in 1..Len(s) : s[j] # s[i] => \E k \in 1..Len(erase(s, i)) : erase(s, i)[k] = s[j]
<1> DEFINE val(j) == IF j < i THEN s[j] ELSE s[j + 1]
           n == Len(s) - 1
<1>1. n \in Nat /\ \A j \in 1..n : val(j) \in AnyAppender
  OBVIOUS
<1>2. erase(s, i) = [j \in 1..n |-> val(j)]
  BY Zenon DEF erase
<1>3. erase(s, i) \in Seq(AnyAppender) /\ Len(erase(s, i)) = n
  <2> HIDE DEF val, n
  <2> QED
    BY <1>1, <1>2
<1>4. ASSUME NEW j \in 1..Len(s), s[j] # s[i] PROVE \E k \in 1..n : val(k) = s[j]
  <2>1. CASE j < i
    <3>1. j \in 1..n
      BY <2>1
    <3> QED
      BY Zenon, <2>1, <3>1
  <2>2. CASE ~(j < i)
    <3>1. j - 1 \in 1..n /\ ~(j - 1 < i) /\ (j - 1) + 1 = j
      BY <1>4, <2>2
    <3> QED
      BY Zenon, <3>1
  <2> QED
    BY Zenon, <2>1, <2>2
<1>5. \A k \in 1..n : erase(s, i)[k] = val(k)
  BY Zenon, <1>2
<1> HIDE DEF val, n
<1> QED
  BY ZenonT(60), <1>3, <1>4, <1>5

(* The changes of the configuration (log.cc:757-825).                       *)
LEMMA ChangesIInv ==
  ASSUME LogIInv, Changes
  PROVE  LogIInv'
<1>1. CASE setStdoutAppender \/ \E v \in {"low", "off"} : setLevel(v)
  <2>1. UNCHANGED <<m_appenders, doing, crashed, raced, alive, pc, appender>>
    BY Zenon, <1>1 DEF setStdoutAppender, setLevel, Change
  <2>2. m_stdoutAppender' = TRUE \/ m_stdoutAppender' = m_stdoutAppender
    BY Zenon, <1>1 DEF setStdoutAppender, setLevel
  <2>3. ~m_stdoutAppender' => ~m_stdoutAppender
    BY Zenon, <2>2
  <2> QED
    BY Zenon, <2>1, <2>3 DEF LogIInv, Listed
<1>2. CASE clearAppenders
  <2>1. m_appenders' \in Seq(AnyAppender)
    BY <1>2 DEF clearAppenders
  <2> QED
    BY Zenon, <1>2, <2>1 DEF clearAppenders, Change, LogIInv, Listed
<1>3. ASSUME NEW x \in Appenders, addAppender(x) PROVE LogIInv'
  <2>1. m_appenders' \in Seq(AnyAppender) /\ Len(m_appenders') = Len(m_appenders) + 1
        /\ \A i \in 1..Len(m_appenders) : m_appenders'[i] = m_appenders[i]
    BY <1>3 DEF addAppender, LogIInv, AnyAppender
  <2>2. 1..Len(m_appenders) \subseteq 1..Len(m_appenders')
    BY <2>1 DEF LogIInv
  <2>3. Listed \subseteq Listed'
    BY Zenon, <2>1, <2>2 DEF Listed
  <2> QED
    BY ZenonT(60), <1>3, <2>1, <2>3 DEF addAppender, Change, LogIInv
<1>4. ASSUME NEW x \in Appenders, deleteAppender(x) PROVE LogIInv'
  <2>1. PICK i \in 1..Len(m_appenders) : m_appenders[i] = x /\ m_appenders' = erase(m_appenders, i)
    BY Zenon, <1>4 DEF deleteAppender
  <2>2. m_appenders' \in Seq(AnyAppender)
    BY Zenon, <2>1, EraseFacts DEF LogIInv
  <2>3. ASSUME NEW y \in Listed, y # x PROVE y \in Listed'
    <3>1. PICK j \in 1..Len(m_appenders) : y = m_appenders[j]
      BY Zenon DEF Listed
    <3>2. \E k \in 1..Len(m_appenders') : m_appenders'[k] = m_appenders[j]
      BY Zenon, <2>1, <2>3, <3>1, EraseFacts DEF LogIInv
    <3> QED
      BY Zenon, <3>1, <3>2 DEF Listed
  <2> QED
    BY Zenon, <1>4, <2>2, <2>3 DEF deleteAppender, Change, LogIInv
<1> QED
  BY Zenon, <1>1, <1>2, <1>3, <1>4 DEF Changes

(* LogIInv is inductive.                                                    *)
LEMMA LogNextIInv == LogIInv /\ [LogNext]_logVars => LogIInv'
<1> SUFFICES ASSUME LogIInv, [LogNext]_logVars PROVE LogIInv'
  OBVIOUS
<1>1. CASE stop
  BY Zenon, <1>1 DEF stop, setVars, LogIInv, Listed
<1>2. CASE destroy
  BY Zenon, <1>2 DEF destroy, setVars, LogIInv, Listed
<1>3. CASE UNCHANGED logVars
  BY Zenon, <1>3 DEF logVars, setVars, LogIInv, Listed
<1> QED
  BY ZenonT(60), <1>1, <1>2, <1>3, LogThreadIInv, ProducerIInv, ChangesIInv DEF LogNext

(* Whatever the producers log, whatever the configuration changes, and      *)
(* whenever the logger is stopped or destroyed: a freed object is used only *)
(* after an appender was removed while it was in use without the mutex      *)
(* (log.cc:297, 330), or the logger was destroyed before its thread had     *)
(* ended.                                                                   *)
THEOREM OnlyRacesCrash == LogSpec => []CrashOnlyByRace
<1>1. LogIInv => CrashOnlyByRace
  BY Zenon DEF LogIInv, CrashOnlyByRace
<1> QED
  BY <1>1, LogInitIInv, LogNextIInv, PTL DEF LogSpec
-----------------------------------------------------------------------------
(* The buffers of the logger are a flat log.                                *)

(* A buffer of the logger is new, or written to its end with less than one  *)
(* node to spare: if m_cur is one node behind, there is no room at all, and *)
(* the next write looks for its node anew (bytearray.cc:566-585).           *)
Filled(b) ==
  /\ Array(b) /\ Placed(b) /\ b.m_cur # 0 /\ b.m_position = b.m_size /\ b.m_size > 0
  /\ Len(b.m) < b.m_size + m_baseSize
Buffer(b) == b = ByteArray \/ Filled(b)

(* Rounded up to nodes, no node is left over.                               *)
LEMMA RoundUpLess ==
  ASSUME NEW n \in Nat
  PROVE  NodesFor(n) * m_baseSize < n + m_baseSize
<1> DEFINE k == n + m_baseSize - 1
<1>1. k \in Nat
  BY BaseSizeAssumption
<1>2. /\ k \div m_baseSize \in Nat /\ k % m_baseSize \in 0..(m_baseSize - 1)
      /\ k = (k \div m_baseSize) * m_baseSize + (k % m_baseSize)
  BY Zenon, <1>1, Split
<1>3. (k \div m_baseSize) * m_baseSize \in Int
  BY <1>2, BaseSizeAssumption
<1> QED
  BY <1>2, <1>3, BaseSizeAssumption DEF NodesFor

(* addCapacity leaves less than a node to spare, if there was not more than *)
(* that before.                                                             *)
LEMMA TightCapacity ==
  ASSUME NEW a, Array(a), NEW n \in Nat, n > 0, Len(a.m) < a.m_position + n + m_baseSize
  PROVE  Len(addCapacity(a, n).m) < a.m_position + n + m_baseSize
<1> DEFINE k == n - getCapacity(a)
           more == NodesFor(k) * m_baseSize
           new == [i \in 1..more |-> Junk]
<1>1. /\ a.m \in Seq(Byte) /\ a.m_position \in Nat /\ Len(a.m) \in Nat /\ m_baseSize \in Nat
      /\ a \in [m : Seq(Byte), m_cur : Nat, m_position : Nat, m_size : Nat]
  BY BaseSizeAssumption DEF Array
<1>2. CASE getCapacity(a) >= n
  <2>1. addCapacity(a, n) = a
    BY Zenon, <1>2 DEF addCapacity
  <2> QED
    BY Zenon, <2>1
<1>3. CASE ~(getCapacity(a) >= n)
  <2>1. k \in Nat
    BY <1>1, <1>3 DEF getCapacity
  <2>2. more \in Nat /\ more < k + m_baseSize
    <3>1. NodesFor(k) \in Nat
      BY Zenon, <2>1, RoundUp
    <3>2. more \in Nat
      BY <3>1, BaseSizeAssumption
    <3> QED
      BY Zenon, <2>1, <3>2, RoundUpLess
  <2>3. new \in Seq(Byte) /\ Len(new) = more
    <3> HIDE DEF more
    <3> QED
      BY <2>2 DEF Byte
  <2> DEFINE c == IF getCapacity(a) = 0 THEN (Len(a.m) \div m_baseSize) + 1 ELSE a.m_cur
  <2>4. addCapacity(a, n) = [a EXCEPT !.m = a.m \o new, !.m_cur = c]
    BY Zenon, <1>3 DEF addCapacity
  <2> HIDE DEF new, c
  <2>5. addCapacity(a, n).m = a.m \o new
    BY SMTT(30), <1>1, <2>4
  <2>6. Len(a.m \o new) = Len(a.m) + Len(new)
    BY Zenon, <1>1, <2>3, Joined
  <2>7. Len(a.m) + more < a.m_position + n + m_baseSize
    <3> HIDE DEF more
    <3> QED
      BY <1>1, <2>2 DEF getCapacity
  <2> QED
    BY Zenon, <2>3, <2>5, <2>6, <2>7
<1> QED
  BY Zenon, <1>2, <1>3

(* What is written to the end of a sequence is appended to it.              *)
LEMMA PutAtEnd ==
  ASSUME NEW s \in Seq(Byte), NEW buf \in Seq(Byte)
  PROVE  Put(s, Len(s), buf) = s \o buf
<1> DEFINE t == Put(s, Len(s), buf)  u == s \o buf  n == Len(s)  k == Len(buf)
<1>1. n \in Nat /\ k \in Nat /\ Len(s) \in 0..Len(s) /\ Larger(n, n + k) = n + k
  BY DEF Larger
<1>2. Overlaid(t, Larger(n, n + k), s, n, buf)
  BY Zenon, <1>1, PutFacts
<1>3. u \in Seq(Byte) /\ Len(u) = n + k /\ (\A i \in 1..n : u[i] = s[i]) /\ (\A i \in 1..k : u[n + i] = buf[i])
  BY Zenon, Joined
<1> HIDE DEF t, u
<1>4. t \in Seq(Byte) /\ Len(t) = n + k
  BY Zenon, <1>1, <1>2 DEF Overlaid
<1>5. ASSUME NEW i \in 1..(n + k) PROVE t[i] = u[i]
  <2>1. CASE i <= n
    BY <1>1, <1>2, <1>3, <2>1 DEF Overlaid
  <2>2. CASE i > n
    <3>1. i - n \in 1..k /\ n + (i - n) = i /\ i \in (n + 1)..(n + k)
      BY <1>1, <2>2
    <3> QED
      BY SMTT(60), <1>1, <1>2, <1>3, <3>1 DEF Overlaid
  <2> QED
    BY <1>1, <2>1, <2>2
<1>6. t = u
  BY <1>3, <1>4, <1>5
<1> QED
  BY Zenon, <1>6 DEF t, u

(* A sequence that an array holds is its content.                           *)
LEMMA HeldIsContent ==
  ASSUME NEW a, Array(a), NEW s, Holds(a, s)
  PROVE  Content(a) = s
<1>1. /\ a.m \in Seq(Byte) /\ a.m_size \in Nat /\ a.m_size <= Len(a.m) /\ s \in Seq(Byte)
      /\ Len(s) = a.m_size /\ \A i \in 1..a.m_size : a.m[i] = s[i]
  BY Zenon DEF Array, Holds
<1>2. /\ a.m_size <= a.m_size /\ 1 \in Nat /\ 1 > 0 /\ 1 <= a.m_size + 1 /\ 0 + 1 = 1 /\ 0 + a.m_size = a.m_size
  BY <1>1
<1>3. Agree(a.m, s, a.m_size)
  BY Zenon, <1>1, <1>2 DEF Agree
<1>4. SubSeq(a.m, 1, a.m_size) = SubSeq(s, 1, a.m_size)
  BY Zenon, <1>1, <1>2, <1>3, SameParts
<1>5. SubSeq(s, 1, Len(s)) = s
  BY <1>1
<1> QED
  BY Zenon, <1>1, <1>2, <1>4, <1>5 DEF Content, getReadBuffers

(* An array holds its content.                                              *)
LEMMA ContentHeld ==
  ASSUME NEW a, Array(a)
  PROVE  Holds(a, Content(a)) /\ Content(a) \in Seq(Byte) /\ Len(Content(a)) = a.m_size
<1>1. a.m \in Seq(Byte) /\ a.m_size \in Nat /\ a.m_size <= Len(a.m)
  BY Zenon DEF Array
<1>2. Content(a) = SubSeq(a.m, 1, a.m_size)
  BY <1>1 DEF Content, getReadBuffers
<1>3. /\ SubSeq(a.m, 1, a.m_size) \in Seq(Byte) /\ Len(SubSeq(a.m, 1, a.m_size)) = a.m_size
      /\ \A i \in 1..a.m_size : SubSeq(a.m, 1, a.m_size)[i] = a.m[i]
  BY <1>1
<1> QED
  BY Zenon, <1>2, <1>3 DEF Holds

(* A new buffer is empty.                                                   *)
LEMMA EmptyContent == Array(ByteArray) /\ Content(ByteArray) = <<>> /\ ByteArray.m_size = 0 /\ ByteArray.m_position = 0
  BY Zenon, EmptyArray, HeldIsContent DEF ByteArray

(* A filled buffer is where the next write finds its place.                 *)
LEMMA FilledIsReady ==
  ASSUME NEW b, Filled(b)
  PROVE  AtNode(b) \/ getCapacity(b) = 0
<1> DEFINE c == b.m_cur  p == b.m_position  n == Len(b.m)
<1>1. /\ c \in Nat /\ p \in Nat /\ n \in Nat /\ p <= n /\ n < p + m_baseSize /\ n % m_baseSize = 0
  BY DEF Filled, Array
<1>2. ASSUME c * m_baseSize = p PROVE n = p
  <2>1. n - p \in 0..(m_baseSize - 1) /\ p + (n - p) = n
    BY <1>1, BaseSizeAssumption
  <2>2. n % m_baseSize = n - p
    <3> DEFINE r == n - p
    <3>1. n = c * m_baseSize + r /\ r \in 0..(m_baseSize - 1)
      BY Zenon, <1>2, <2>1
    <3> HIDE DEF n, c, r
    <3>2. n % m_baseSize = r
      BY Zenon, <1>1, <3>1, Unsplit
    <3> QED
      BY Zenon, <3>2 DEF r
  <2> QED
    BY <1>1, <2>1, <2>2
<1>3. n = p => getCapacity(b) = 0
  BY <1>1 DEF getCapacity
<1> QED
  BY Zenon, <1>2, <1>3 DEF Filled, Placed, OneBehind

(* log() appends the entry to what the buffer holds (log.cc:303).           *)
LEMMA BufferWrite ==
  ASSUME NEW b, Buffer(b), NEW buf \in Seq(Byte)
  PROVE  Buffer(write(b, buf)) /\ Content(write(b, buf)) = Content(b) \o buf
<1>1. Array(b) /\ b.m_position = b.m_size /\ b.m_cur # 0 /\ (AtNode(b) \/ getCapacity(b) = 0)
  <2>1. ByteArray.m_cur = 1 /\ 1 # 0
    BY DEF ByteArray
  <2> QED
    BY Zenon, <2>1, EmptyArray, EmptyContent, FilledIsReady DEF Buffer, Filled
<1>2. Content(b) \in Seq(Byte) /\ Holds(b, Content(b)) /\ Len(Content(b)) = b.m_size
  BY Zenon, <1>1, ContentHeld
<1>3. CASE buf = <<>>
  <2>1. Content(b) \o <<>> = Content(b)
    BY <1>2
  <2> QED
    BY Zenon, <1>3, <2>1 DEF write
<1>4. CASE buf # <<>>
  <2> DEFINE w == write(b, buf)  n == Len(buf)
  <2>1. n \in Nat /\ n > 0
    BY <1>4
  <2>2. /\ Array(w) /\ w.m_cur # 0 /\ w.m_position = b.m_position + n /\ w.m_size = Larger(b.m_position + n, b.m_size)
        /\ Len(w.m) = Len(addCapacity(b, n).m) /\ Placed(w) /\ Holds(w, Put(Content(b), b.m_position, buf))
    BY Zenon, <1>1, <1>2, <2>1, WriteFacts
  <2>3. Content(w) = Content(b) \o buf
    BY ZenonT(60), <1>1, <1>2, <2>2, HeldIsContent, PutAtEnd
  <2>4. b.m_size \in Nat /\ Len(b.m) \in Nat /\ Len(b.m) < b.m_size + n + m_baseSize
    <3>1. b.m_size \in Nat /\ Len(b.m) \in Nat
      BY <1>1 DEF Array
    <3>2. CASE b = ByteArray
      <4>1. Len(b.m) = m_baseSize /\ b.m_size = 0
        BY <3>2, BaseSizeAssumption DEF ByteArray
      <4> QED
        BY <2>1, <4>1, BaseSizeAssumption
    <3>3. CASE Filled(b)
      BY <2>1, <3>1, <3>3, BaseSizeAssumption DEF Filled
    <3> QED
      BY Zenon, <3>1, <3>2, <3>3 DEF Buffer
  <2>5. w.m_size = w.m_position /\ w.m_size > 0
    BY <1>1, <2>1, <2>2, <2>4 DEF Larger
  <2>6. Len(w.m) < w.m_size + m_baseSize
    <3>1. Len(addCapacity(b, n).m) < b.m_position + n + m_baseSize
      BY Zenon, <1>1, <2>1, <2>4, TightCapacity
    <3> QED
      BY Zenon, <2>2, <2>5, <3>1
  <2> QED
    BY Zenon, <2>2, <2>3, <2>5, <2>6 DEF Buffer, Filled
<1> QED
  BY Zenon, <1>3, <1>4

(* From its beginning, a filled buffer is written as a whole (log.cc:330).  *)
Rewound(b) == Array(b) /\ AtNode(b) /\ b.m_position = 0 /\ b.m_size > 0

(* setPosition(0) brings a buffer to its first node and changes nothing of  *)
(* what it holds.                                                           *)
LEMMA BufferRewound ==
  ASSUME NEW b, Buffer(b)
  PROVE  /\ b.m_size = 0 => setPosition(b, 0) = ByteArray
         /\ b.m_size # 0 => Rewound(setPosition(b, 0))
         /\ Content(setPosition(b, 0)) = Content(b) /\ getReadSize(setPosition(b, 0)) = b.m_size
<1> DEFINE c == setPosition(b, 0)
<1>1. Array(b) /\ b.m_size \in Nat /\ Len(b.m) \in Nat /\ b.m \in Seq(Byte)
  <2>1. Array(b)
    BY Zenon, EmptyArray DEF Buffer, Filled
  <2> QED
    BY <2>1 DEF Array
<1>2. 0 \in 0..Len(b.m) /\ Larger(0, b.m_size) = b.m_size
  BY <1>1 DEF Larger
<1>3. Array(c) /\ AtNode(c) /\ c.m = b.m /\ c.m_position = 0 /\ c.m_size = b.m_size
  BY Zenon, <1>1, <1>2, SetPositionFacts
<1>4. Content(c) = Content(b) /\ getReadSize(c) = b.m_size
  BY <1>1, <1>3 DEF Content, getReadBuffers, getReadSize
<1>5. ASSUME b.m_size = 0 PROVE c = ByteArray
  <2>1. b = ByteArray
    BY <1>5 DEF Buffer, Filled
  <2>2. Array(ByteArray) /\ AtNode(ByteArray) /\ c.m_cur = ByteArray.m_cur
    BY Zenon, <1>3, <2>1, EmptyArray, EmptyContent DEF AtNode, NodeAt
  <2>3. c.m = ByteArray.m /\ c.m_position = ByteArray.m_position /\ c.m_size = ByteArray.m_size
    BY Zenon, <1>3, <1>5, <2>1, EmptyContent
  <2> DEFINE d == ByteArray
  <2>4. Array(d) /\ c.m_cur = d.m_cur /\ c.m = d.m /\ c.m_position = d.m_position /\ c.m_size = d.m_size
    BY Zenon, <2>2, <2>3
  <2> HIDE DEF c, d
  <2> QED
    BY <1>3, <2>4 DEF Array, d
<1>6. ASSUME b.m_size # 0 PROVE Rewound(c)
  BY <1>1, <1>3, <1>6 DEF Rewound
<1> QED
  BY Zenon, <1>4, <1>5, <1>6

(* Such a buffer is written to its file as a whole.                         *)
LEMMA RewoundWritten ==
  ASSUME NEW b, Rewound(b)
  PROVE  writeToFile(b) = Content(b) /\ Content(b) \in Seq(Byte) /\ Len(Content(b)) > 0
<1>1. Array(b) /\ AtNode(b) /\ b.m_position = 0 /\ b.m_size > 0 /\ b.m_size \in Nat
  BY Zenon DEF Rewound, Array
<1>2. getReadSize(b) > 0 /\ 0 % m_baseSize = 0 /\ 0 + b.m_size = b.m_size
  BY <1>1, BaseSizeAssumption DEF getReadSize
<1>3. writeToFile(b) = SubSeq(b.m, b.m_position + 1, b.m_size)
  BY Zenon, <1>1, <1>2, FileWhole
<1> QED
  BY Zenon, <1>1, <1>2, <1>3, ContentHeld DEF Content, getReadBuffers


-----------------------------------------------------------------------------
(* The refinement of FlatLog.                                               *)

(* FlatIInv is inductive: where the thread of the logger is says what is in *)
(* bufferToWrite, and Watched is the first of the list or not in it.        *)
FlatIInv ==
  /\ m_appenders \in Seq(AnyAppender) /\ entries \in Nat /\ files \in [Appenders -> Seq(Byte)]
  /\ Buffer(currentBuffer)
  /\ pc \in {"loop", "lock", "wait", "end"} => bufferToWrite = ByteArray
  /\ pc = "write" => Buffer(bufferToWrite)
  /\ pc \in {"append", "clear"} => Rewound(bufferToWrite)
  /\ \A i \in 1..Len(m_appenders) : m_appenders[i] = Watched => i = 1

(* A new logger.                                                            *)
LEMMA LogInitFlat == LogInit => FlatIInv
<1> SUFFICES ASSUME LogInit PROVE FlatIInv
  OBVIOUS
<1>1. m_appenders \in Seq(AnyAppender) /\ \A i \in 1..Len(m_appenders) : i = 1
  BY DEF LogInit, AnyAppender
<1>2. files \in [Appenders -> Seq(Byte)]
  BY DEF LogInit
<1>3. entries \in Nat
  BY DEF LogInit
<1>4. currentBuffer = ByteArray /\ bufferToWrite = ByteArray /\ pc = "loop"
  BY Zenon DEF LogInit
<1> QED
  BY Zenon, <1>1, <1>2, <1>3, <1>4 DEF FlatIInv, Buffer

(* The bytes of an entry.                                                   *)
LEMMA EntryBytes ==
  ASSUME entries \in Nat, NEW n \in Lengths
  PROVE  Entry(n) \in Seq(Byte)
<1>1. n \in Nat
  BY Zenon, LoggerAssumption
<1> QED
  BY <1>1 DEF Entry, Byte

(* The steps of the thread of the logger (log.cc:315-338).                  *)
LEMMA LogThreadFlat ==
  ASSUME FlatIInv, LogThread
  PROVE  FlatIInv'
<1> USE DEF InThread, Goto, setVars, bufferVars
<1>1. CASE loop
  BY Zenon, <1>1 DEF loop, FlatIInv
<1>2. CASE lockAndSwap
  <2>1. CASE getSize(currentBuffer) = 0
    BY Zenon, <1>2, <2>1 DEF lockAndSwap, FlatIInv
  <2>2. CASE getSize(currentBuffer) # 0
    BY Zenon, <1>2, <2>2 DEF lockAndSwap, swap, FlatIInv, Buffer
  <2> QED
    BY Zenon, <2>1, <2>2
<1>3. CASE waitForSeconds
  BY Zenon, <1>3 DEF waitForSeconds, swap, FlatIInv, Buffer
<1>4. CASE setPosition0
  <2>1. /\ Buffer(bufferToWrite) /\ bufferToWrite' = setPosition(bufferToWrite, 0)
        /\ UNCHANGED <<m_appenders, entries, files, currentBuffer>>
    BY Zenon, <1>4 DEF setPosition0, FlatIInv
  <2>2. CASE getReadSize(bufferToWrite') = 0
    <3>1. pc' = "loop" /\ bufferToWrite' = ByteArray
      BY Zenon, <1>4, <2>1, <2>2, BufferRewound DEF setPosition0
    <3> QED
      BY Zenon, <2>1, <3>1 DEF FlatIInv
  <2>3. CASE getReadSize(bufferToWrite') # 0
    <3>1. pc' \in {"append", "clear"} /\ Rewound(bufferToWrite')
      BY Zenon, <1>4, <2>1, <2>3, BufferRewound DEF setPosition0
    <3> QED
      BY Zenon, <2>1, <3>1 DEF FlatIInv
  <2> QED
    BY Zenon, <2>2, <2>3
<1>5. CASE append
  <2>1. /\ Rewound(bufferToWrite) /\ pc' \in {"append", "clear"}
        /\ UNCHANGED <<m_appenders, entries, currentBuffer, bufferToWrite>>
    BY Zenon, <1>5 DEF append, FlatIInv
  <2>2. writeToFile(bufferToWrite) \in Seq(Byte)
    BY Zenon, <2>1, RewoundWritten
  <2>3. files' \in [Appenders -> Seq(Byte)]
    <3>1. files' = files \/ files' = [files EXCEPT ![appender] = @ \o writeToFile(bufferToWrite)]
      BY Zenon, <1>5 DEF append
    <3> DEFINE f == files  w == writeToFile(bufferToWrite)
    <3>2. ASSUME NEW x \in Appenders PROVE f[x] \o w \in Seq(Byte)
      <4>1. f[x] \in Seq(Byte)
        BY Zenon DEF FlatIInv
      <4> QED
        BY Zenon, <2>2, <4>1, Joined
    <3>3. f \in [Appenders -> Seq(Byte)]
      BY Zenon DEF FlatIInv
    <3>4. files' = f \/ files' = [f EXCEPT ![appender] = f[appender] \o w]
      BY Zenon, <3>1
    <3> DEFINE v == f[appender] \o w
    <3>5. appender \in Appenders => v \in Seq(Byte)
      BY Zenon, <3>2
    <3> DEFINE bytes == Seq(Byte)
    <3> HIDE DEF f, w, v, bytes
    <3>6. f \in [Appenders -> bytes] /\ (appender \in Appenders => v \in bytes) /\ (files' = f \/ files' = [f EXCEPT ![appender] = v])
      BY Zenon, <3>3, <3>4, <3>5 DEF v, bytes
    <3>7. files' \in [Appenders -> bytes]
      BY <3>6
    <3> QED
      BY Zenon, <3>7 DEF bytes
  <2> QED
    BY Zenon, <2>1, <2>3 DEF FlatIInv
<1>6. CASE clearBuffer
  BY Zenon, <1>6 DEF clearBuffer, clear, FlatIInv
<1> QED
  BY Zenon, <1>1, <1>2, <1>3, <1>4, <1>5, <1>6 DEF LogThread

(* Watched stays the first or does not come back (log.cc:262-289).          *)
LEMMA ChangesFlat ==
  ASSUME FlatIInv, Changes
  PROVE  FlatIInv' /\ (Watched \in Listed' => Watched \in Listed)
<1>1. UNCHANGED <<currentBuffer, bufferToWrite, pc, entries, files>>
  BY Zenon DEF Changes, setStdoutAppender, clearAppenders, setLevel, addAppender, deleteAppender, Change, bufferVars
<1>2. m_appenders \in Seq(AnyAppender) /\ \A i \in 1..Len(m_appenders) : m_appenders[i] = Watched => i = 1
  BY Zenon DEF FlatIInv
<1>3. /\ m_appenders' \in Seq(AnyAppender) /\ \A i \in 1..Len(m_appenders') : m_appenders'[i] = Watched => i = 1
      /\ Watched \in Listed' => Watched \in Listed
  <2>1. CASE setStdoutAppender \/ \E v \in {"low", "off"} : setLevel(v)
    BY Zenon, <1>2, <2>1 DEF setStdoutAppender, setLevel, Listed
  <2>2. CASE clearAppenders
    BY <2>2 DEF clearAppenders, Listed
  <2>3. ASSUME NEW x \in Appenders, addAppender(x)
        PROVE  /\ m_appenders' \in Seq(AnyAppender) /\ \A i \in 1..Len(m_appenders') : m_appenders'[i] = Watched => i = 1
               /\ Watched \in Listed' => Watched \in Listed
    <3>1. x # Watched /\ m_appenders' = Append(m_appenders, x)
      BY Zenon, <2>3 DEF addAppender
    <3>2. /\ m_appenders' \in Seq(AnyAppender) /\ Len(m_appenders') = Len(m_appenders) + 1
          /\ \A i \in 1..Len(m_appenders) : m_appenders'[i] = m_appenders[i]
          /\ m_appenders'[Len(m_appenders) + 1] = x
      BY <1>2, <3>1 DEF AnyAppender
    <3>3. ASSUME NEW i \in 1..Len(m_appenders'), m_appenders'[i] = Watched
          PROVE  i \in 1..Len(m_appenders) /\ m_appenders[i] = Watched
      BY <1>2, <3>1, <3>2, <3>3
    <3> QED
      BY Zenon, <1>2, <3>2, <3>3 DEF Listed
  <2>4. ASSUME NEW x \in Appenders, deleteAppender(x)
        PROVE  /\ m_appenders' \in Seq(AnyAppender) /\ \A i \in 1..Len(m_appenders') : m_appenders'[i] = Watched => i = 1
               /\ Watched \in Listed' => Watched \in Listed
    <3>1. PICK k \in 1..Len(m_appenders) : /\ m_appenders[k] = x /\ \A j \in 1..(k - 1) : m_appenders[j] # x
                                           /\ m_appenders' = erase(m_appenders, k)
      BY Zenon, <2>4 DEF deleteAppender
    <3> DEFINE s == m_appenders  t == m_appenders'
    <3>2. t = [j \in 1..(Len(s) - 1) |-> IF j < k THEN s[j] ELSE s[j + 1]]
      BY Zenon, <3>1 DEF erase
    <3>3. t \in Seq(AnyAppender)
      BY Zenon, <1>2, <3>1, EraseFacts
    <3>4. Len(t) = Len(s) - 1 /\ \A i \in 1..Len(t) : t[i] = s[i] \/ (i >= k /\ t[i] = s[i + 1])
      <4> DEFINE val(j) == IF j < k THEN s[j] ELSE s[j + 1]
                 n == Len(s) - 1
      <4>1. n \in Nat
        BY <1>2
      <4>2. t = [j \in 1..n |-> val(j)]
        BY Zenon, <3>2
      <4>3. Len(t) = n /\ \A i \in 1..n : t[i] = val(i)
        <5> HIDE DEF val, n, t
        <5> QED
          BY <4>1, <4>2
      <4>4. \A i \in 1..n : i < k \/ i >= k
        BY <1>2
      <4> HIDE DEF t, s
      <4> QED
        BY Zenon, <4>3, <4>4
    <3>5. ASSUME NEW i \in 1..Len(t), t[i] = Watched PROVE i = 1 /\ \E j \in 1..Len(s) : s[j] = Watched
      <4>1. s \in Seq(AnyAppender) /\ Len(t) = Len(s) - 1 /\ i \in 1..Len(s) /\ i + 1 \in 1..Len(s) /\ i + 1 # 1
        BY <1>2, <3>3, <3>4
      <4>2. s[i + 1] # Watched
        BY Zenon, <1>2, <4>1
      <4>3. s[i] = Watched
        BY Zenon, <3>4, <3>5, <4>2
      <4> QED
        BY Zenon, <1>2, <4>1, <4>3
    <3> QED
      BY Zenon, <3>3, <3>5 DEF Listed
  <2> QED
    BY Zenon, <2>1, <2>2, <2>3, <2>4 DEF Changes
<1> QED
  BY Zenon, <1>1, <1>3 DEF FlatIInv

(* All steps.                                                               *)
LEMMA LogNextFlat == FlatIInv /\ [LogNext]_logVars => FlatIInv'
<1> SUFFICES ASSUME FlatIInv, [LogNext]_logVars PROVE FlatIInv'
  OBVIOUS
<1>1. ASSUME NEW p \in Producers, Producer(p) PROVE FlatIInv'
  <2>1. CASE log(p) \/ logStdout(p)
    BY Zenon, <2>1 DEF log, logStdout, bufferVars, setVars, FlatIInv
  <2>2. ASSUME NEW n \in Lengths, writeString(p, n) PROVE FlatIInv'
    <3>1. Buffer(currentBuffer')
      BY Zenon, <2>2, EntryBytes, BufferWrite DEF writeString, FlatIInv
    <3>2. entries' \in Nat
      BY <2>2 DEF writeString, FlatIInv
    <3> QED
      BY Zenon, <2>2, <3>1, <3>2 DEF writeString, setVars, FlatIInv
  <2> QED
    BY Zenon, <1>1, <2>1, <2>2 DEF Producer
<1>2. CASE stop \/ destroy \/ UNCHANGED logVars
  BY Zenon, <1>2 DEF stop, destroy, logVars, bufferVars, setVars, FlatIInv
<1> QED
  BY Zenon, <1>1, <1>2, LogThreadFlat, ChangesFlat DEF LogNext


(* The bytes of bufferToWrite that Watched has still to get.                *)
Held == IF pc = "write" \/ (pc = "append" /\ appender = Watched) THEN Content(bufferToWrite) ELSE <<>>
FlatStep == [Flat!FlatAppend \/ Flat!FlatWrite \/ Flat!FlatDetach]_<<Queue, files[Watched], Attached>>

(* The queue of an attached file, and its parts.                            *)
LEMMA QueueParts ==
  ASSUME FlatIInv
  PROVE  /\ Attached => Queue = Held \o Content(currentBuffer)
         /\ ~Attached => Queue = <<>>
         /\ Held \in Seq(Byte) /\ Content(currentBuffer) \in Seq(Byte)
<1>1. Content(currentBuffer) \in Seq(Byte)
  BY Zenon, ContentHeld, EmptyContent DEF FlatIInv, Buffer, Filled
<1>2. Held \in Seq(Byte)
  <2>1. <<>> \in Seq(Byte)
    OBVIOUS
  <2>2. pc \in {"write", "append"} => Array(bufferToWrite)
    BY Zenon, EmptyArray DEF FlatIInv, Buffer, Filled, Rewound
  <2> QED
    BY Zenon, <2>1, <2>2, ContentHeld DEF Held
<1> QED
  BY Zenon, <1>1, <1>2 DEF Queue, Held

(* A step that keeps the file, the parts of the queue and the attachment.   *)
LEMMA KeepsFlat ==
  ASSUME files[Watched]' = files[Watched], Attached' <=> Attached,
         Attached => Held' = Held /\ Content(currentBuffer)' = Content(currentBuffer),
         FlatIInv, FlatIInv'
  PROVE  FlatStep
<1>1. Queue' = Queue
  BY Zenon, QueueParts DEF Queue, Held
<1>2. Attached' = Attached
  BY Zenon DEF Attached
<1> QED
  BY Zenon, <1>1, <1>2 DEF FlatStep

(* A step that detaches the file.                                           *)
LEMMA DetachesFlat ==
  ASSUME files[Watched]' = files[Watched], ~Attached'
  PROVE  FlatStep
<1>1. Queue' = <<>> /\ Attached' = FALSE
  BY Zenon DEF Queue, Attached
<1>2. CASE Attached
  BY Zenon, <1>1, <1>2 DEF FlatStep, Flat!FlatDetach
<1>3. CASE ~Attached
  BY Zenon, <1>1, <1>3 DEF FlatStep, Queue, Attached
<1> QED
  BY Zenon, <1>2, <1>3

(* The thread of the logger (log.cc:315-338): to append to the file takes   *)
(* what bufferToWrite holds from the front of the queue.                    *)
LEMMA AppendFlat ==
  ASSUME FlatIInv, FlatIInv', append
  PROVE  FlatStep
<1>1. /\ pc = "append" /\ Rewound(bufferToWrite) /\ ~crashed /\ crashed' = (~alive \/ appender \notin Listed)
      /\ files' = IF crashed' THEN files ELSE [files EXCEPT ![appender] = @ \o writeToFile(bufferToWrite)]
      /\ UNCHANGED <<m_appenders, alive, currentBuffer, bufferToWrite>>
  BY Zenon DEF append, InThread, Goto, setVars, bufferVars, FlatIInv
<1>2. pc' = "append" => appender' # Watched
  <2> DEFINE later == {i \in 2..Len(m_appenders) : m_appenders[i - 1] = appender}
             next == CHOOSE i \in later : TRUE
  <2>1. ASSUME pc' = "append" PROVE appender' = m_appenders[next] /\ next \in later
    BY Zenon, <2>1 DEF append, Goto
  <2>2. later \subseteq 1..Len(m_appenders) /\ 1 \notin later
    BY DEF FlatIInv
  <2> HIDE DEF later, next
  <2> QED
    BY Zenon, <2>1, <2>2 DEF FlatIInv
<1>3. pc' \in {"append", "clear"}
  BY Zenon DEF append, Goto
<1>4. Held' = <<>>
  BY Zenon, <1>2, <1>3 DEF Held
<1>5. CASE crashed'
  BY Zenon, <1>1, <1>5, DetachesFlat DEF Attached
<1>6. CASE ~crashed' /\ appender # Watched
  <2>1. files'[Watched] = files[Watched]
    <3>1. Watched \in Appenders /\ files \in [Appenders -> Seq(Byte)] /\ appender # Watched
      BY Zenon, <1>6, LoggerAssumption DEF FlatIInv
    <3>2. \E v : files' = [files EXCEPT ![appender] = v]
      BY Zenon, <1>1, <1>6
    <3> QED
      BY SMT, <3>1, <3>2
  <2>2. Held = <<>> /\ (Attached' <=> Attached)
    BY Zenon, <1>1, <1>6 DEF Held, Attached, Listed
  <2> QED
    BY Zenon, <1>1, <1>4, <2>1, <2>2, KeepsFlat
<1>7. CASE ~crashed' /\ appender = Watched
  <2> DEFINE w == Content(bufferToWrite)  c == Content(currentBuffer)
  <2>1. w \in Seq(Byte) /\ c \in Seq(Byte) /\ Len(w) > 0 /\ writeToFile(bufferToWrite) = w
    BY Zenon, <1>1, RewoundWritten, QueueParts
  <2>2. files'[Watched] = files[Watched] \o w
    <3>1. Watched \in Appenders /\ files \in [Appenders -> Seq(Byte)]
      BY Zenon, LoggerAssumption DEF FlatIInv
    <3> DEFINE v == files[Watched] \o w
    <3>2. files' = [files EXCEPT ![Watched] = v]
      BY Zenon, <1>1, <1>7, <2>1
    <3> HIDE DEF v
    <3>3. files'[Watched] = v
      BY SMT, <3>1, <3>2
    <3> QED
      BY Zenon, <3>3 DEF v
  <2>3. Attached /\ Attached' /\ Held = w /\ c' = c
    BY Zenon, <1>1, <1>7 DEF Held, Attached, Listed
  <2>4. Queue = w \o c /\ Queue' = <<>> \o c
    <3>1. Queue = w \o c
      BY Zenon, <2>3, QueueParts
    <3>2. Queue' = Held' \o c'
      BY Zenon, <2>3 DEF Queue, Held
    <3> QED
      BY Zenon, <1>4, <2>3, <3>1, <3>2
  <2> HIDE DEF w, c
  <2>5. /\ w \o c # <<>> /\ Len(w) \in 1..Len(w \o c) /\ SubSeq(w \o c, 1, Len(w)) = w
        /\ SubSeq(w \o c, Len(w) + 1, Len(w \o c)) = c /\ <<>> \o c = c
    <3>1. /\ w \o c \in Seq(Byte) /\ Len(w \o c) = Len(w) + Len(c) /\ \A i \in 1..Len(w) : (w \o c)[i] = w[i]
          /\ \A i \in 1..Len(c) : (w \o c)[Len(w) + i] = c[i]
      BY Zenon, <2>1, Joined
    <3> DEFINE q == w \o c
    <3> HIDE DEF q
    <3>2. /\ q \in Seq(Byte) /\ Len(q) = Len(w) + Len(c) /\ (\A i \in 1..Len(w) : q[i] = w[i])
          /\ \A i \in 1..Len(c) : q[Len(w) + i] = c[i]
      BY Zenon, <3>1 DEF q
    <3>3. q # <<>> /\ Len(w) \in 1..Len(q)
      BY <2>1, <3>2
    <3>4. SubSeq(q, 1, Len(w)) = w
      BY <2>1, <3>2
    <3>5. SubSeq(q, Len(w) + 1, Len(q)) = c
      BY SMTT(60), <2>1, <3>2
    <3>6. <<>> \o c = c
      BY <2>1
    <3> QED
      BY Zenon, <3>3, <3>4, <3>5, <3>6 DEF q
  <2>6. Attached' = Attached
    BY Zenon, <2>3 DEF Attached
  <2>7. Flat!FlatWrite
    BY Zenon, <2>2, <2>3, <2>4, <2>5, <2>6 DEF Flat!FlatWrite
  <2> QED
    BY Zenon, <2>7 DEF FlatStep
<1> QED
  BY Zenon, <1>5, <1>6, <1>7


(* The other steps of the thread.  A swap puts the new buffer behind what   *)
(* is written, which is the whole queue then.                               *)
LEMMA ThreadFlat ==
  ASSUME FlatIInv, FlatIInv', LogThread
  PROVE  FlatStep
<1> USE DEF InThread, Goto, setVars, bufferVars
<1>1. CASE append
  BY Zenon, <1>1, AppendFlat
<1>2. ASSUME ~append PROVE FlatStep
  <2>1. /\ ~crashed /\ crashed' = ~alive /\ UNCHANGED <<alive, m_appenders, files>>
    BY Zenon, <1>2 DEF LogThread, loop, lockAndSwap, waitForSeconds, setPosition0, clearBuffer, Freed
  <2>2. Attached' <=> Attached
    BY Zenon, <2>1 DEF Attached, Listed
  <2>3. files[Watched]' = files[Watched]
    BY Zenon, <2>1
  <2>4. CASE \/ loop \/ clearBuffer \/ (lockAndSwap /\ getSize(currentBuffer) = 0)
    <3>1. Held' = Held /\ currentBuffer' = currentBuffer
      BY Zenon, <2>4 DEF loop, clearBuffer, lockAndSwap, Held
    <3> QED
      BY Zenon, <2>2, <2>3, <3>1, KeepsFlat
  <2>5. CASE waitForSeconds \/ (lockAndSwap /\ getSize(currentBuffer) # 0)
    <3>1. /\ pc \in {"lock", "wait"} /\ currentBuffer' = bufferToWrite /\ bufferToWrite' = currentBuffer /\ pc' = "write"
      BY Zenon, <2>5 DEF waitForSeconds, lockAndSwap, swap
    <3>2. Held = <<>> /\ Held' = Content(currentBuffer) /\ Content(currentBuffer)' = <<>>
      BY Zenon, <3>1, EmptyContent DEF Held, FlatIInv
    <3>3. Content(currentBuffer) \in Seq(Byte)
      BY Zenon, QueueParts
    <3>4. <<>> \o Content(currentBuffer) = Content(currentBuffer) \o <<>>
      <4> DEFINE c == Content(currentBuffer)
      <4> HIDE DEF c
      <4>1. <<>> \o c = c \o <<>>
        BY <3>3 DEF c
      <4> QED
        BY Zenon, <4>1 DEF c
    <3>5. Queue' = Queue
      BY Zenon, <2>2, <3>2, <3>4 DEF Queue, Held
    <3>6. Attached' = Attached
      BY Zenon, <2>2 DEF Attached
    <3> QED
      BY Zenon, <2>3, <3>5, <3>6 DEF FlatStep
  <2>6. CASE setPosition0
    <3>1. /\ pc = "write" /\ Buffer(bufferToWrite) /\ bufferToWrite' = setPosition(bufferToWrite, 0)
          /\ currentBuffer' = currentBuffer
      BY Zenon, <2>6 DEF setPosition0, FlatIInv
    <3>2. Content(bufferToWrite') = Content(bufferToWrite)
      BY Zenon, <3>1, BufferRewound
    <3>3. Held = Content(bufferToWrite)
      BY Zenon, <3>1 DEF Held
    <3>4. Attached => Held' = Held
      <4>1. CASE getReadSize(bufferToWrite') = 0
        <5>1. pc' = "loop" /\ bufferToWrite' = ByteArray
          BY Zenon, <2>6, <3>1, <4>1, BufferRewound DEF setPosition0
        <5> QED
          BY Zenon, <3>2, <3>3, <5>1, EmptyContent DEF Held
      <4>2. CASE getReadSize(bufferToWrite') # 0 /\ Attached
        <5>1. m_appenders # <<>> /\ Head(m_appenders) = Watched
          <6>1. PICK i \in 1..Len(m_appenders) : m_appenders[i] = Watched
            BY Zenon, <4>2 DEF Attached, Listed
          <6> QED
            BY <6>1 DEF FlatIInv
        <5>2. pc' = "append" /\ appender' = Watched
          BY Zenon, <2>6, <4>2, <5>1 DEF setPosition0
        <5> QED
          BY Zenon, <3>2, <3>3, <5>2 DEF Held
      <4> QED
        BY Zenon, <4>1, <4>2
    <3> QED
      BY Zenon, <2>2, <2>3, <3>1, <3>4, KeepsFlat
  <2> QED
    BY Zenon, <1>2, <2>4, <2>5, <2>6 DEF LogThread
<1> QED
  BY Zenon, <1>1, <1>2

(* log() appends an entry to the queue of an attached file (log.cc:303).    *)
LEMMA WriteStringFlat ==
  ASSUME FlatIInv, FlatIInv', NEW p \in Producers, NEW n \in Lengths, writeString(p, n)
  PROVE  FlatStep
<1>1. /\ currentBuffer' = write(currentBuffer, Entry(n)) /\ entries < MaxEntries
      /\ UNCHANGED <<bufferToWrite, m_appenders, pc, appender, files, alive, crashed>>
  BY Zenon DEF writeString, setVars
<1>2. Entry(n) \in Seq(Byte)
  BY Zenon, EntryBytes DEF FlatIInv
<1>3. Content(currentBuffer') = Content(currentBuffer) \o Entry(n)
  BY Zenon, <1>1, <1>2, BufferWrite DEF FlatIInv
<1>4. (Attached' <=> Attached) /\ Attached' = Attached /\ Held' = Held /\ files[Watched]' = files[Watched]
  BY Zenon, <1>1 DEF Attached, Held, Listed
<1>5. CASE ~Attached
  BY Zenon, <1>4, <1>5, KeepsFlat
<1>6. CASE Attached
  <2> DEFINE h == Held  c == Content(currentBuffer)  e == Entry(n)
  <2>1. Queue = h \o c /\ h \in Seq(Byte) /\ c \in Seq(Byte) /\ e \in Seq(Byte)
    BY Zenon, <1>2, <1>6, QueueParts
  <2>2. Queue' = h \o (c \o e)
    <3>1. Queue' = Held' \o Content(currentBuffer')
      BY Zenon, <1>4, <1>6 DEF Queue, Held
    <3> QED
      BY Zenon, <1>3, <1>4, <3>1
  <2>3. h \o (c \o e) = (h \o c) \o e
    <3> HIDE DEF h, c, e
    <3> QED
      BY SMTT(60), <2>1
  <2>4. e \in {[i \in 1..m |-> k] : m \in Lengths, k \in 1..MaxEntries}
    <3>1. entries + 1 \in 1..MaxEntries
      BY <1>1, LoggerAssumption DEF FlatIInv
    <3> QED
      BY SMT, <3>1 DEF Entry
  <2>5. Queue' = Queue \o e
    BY Zenon, <2>1, <2>2, <2>3
  <2>6. Flat!FlatAppend
    <3> HIDE DEF e
    <3> QED
      BY SMT, <1>4, <1>6, <2>4, <2>5 DEF Flat!FlatAppend
  <2> QED
    BY SMT, <2>6 DEF FlatStep
<1> QED
  BY Zenon, <1>5, <1>6

(* The two buffers of the logger, their swap under the mutex and the walk   *)
(* through the appenders without it implement the log of a file: for nodes  *)
(* of any size, any threads, entries, appenders and changes, no byte of an  *)
(* entry is lost, doubled or out of order between log() and the file while  *)
(* that is attached (log.cc:291-338).                                       *)
THEOREM LogRefinesFlat == LogInit /\ [][LogNext]_logVars => LogImplementsFlat
<1>1. LogInit => Flat!FlatInit
  <2> SUFFICES ASSUME LogInit PROVE Flat!FlatInit
    OBVIOUS
  <2>1. m_appenders = <<Watched>> /\ alive = TRUE /\ crashed = FALSE /\ pc = "loop" /\ currentBuffer = ByteArray
    BY Zenon DEF LogInit
  <2>2. Watched \in Listed
    BY <2>1 DEF Listed
  <2>3. Attached = TRUE
    BY Zenon, <2>1, <2>2 DEF Attached
  <2>4. <<>> \o <<>> = <<>>
    OBVIOUS
  <2>5. Queue = <<>>
    BY Zenon, <2>1, <2>3, <2>4, EmptyContent DEF Queue
  <2>6. files[Watched] = <<>>
    BY Zenon, LoggerAssumption DEF LogInit
  <2> QED
    BY Zenon, <2>3, <2>5, <2>6 DEF Flat!FlatInit
<1>2. FlatIInv /\ FlatIInv' /\ [LogNext]_logVars => FlatStep
  <2> SUFFICES ASSUME FlatIInv, FlatIInv', [LogNext]_logVars PROVE FlatStep
    OBVIOUS
  <2>1. ASSUME NEW p \in Producers, log(p) \/ logStdout(p) PROVE FlatStep
    <3>1. UNCHANGED <<bufferToWrite, currentBuffer, m_appenders, pc, appender, files, alive>> /\ ~crashed
      BY Zenon, <2>1 DEF log, logStdout, bufferVars, setVars, Up
    <3>2. CASE crashed'
      BY Zenon, <3>1, <3>2, DetachesFlat DEF Attached
    <3>3. CASE ~crashed'
      BY Zenon, <3>1, <3>3, KeepsFlat DEF Attached, Held, Listed
    <3> QED
      BY Zenon, <3>2, <3>3
  <2>2. ASSUME NEW p \in Producers, NEW n \in Lengths, writeString(p, n) PROVE FlatStep
    BY Zenon, <2>2, WriteStringFlat
  <2>3. CASE Changes
    <3>1. UNCHANGED <<bufferToWrite, currentBuffer, pc, appender, files, alive, crashed>>
      BY Zenon, <2>3 DEF Changes, setStdoutAppender, clearAppenders, setLevel, addAppender, deleteAppender, Change, bufferVars
    <3>2. Watched \in Listed' => Watched \in Listed
      BY Zenon, <2>3, ChangesFlat
    <3>3. CASE Attached'
      BY Zenon, <3>1, <3>2, <3>3, KeepsFlat DEF Attached, Held
    <3>4. CASE ~Attached'
      BY Zenon, <3>1, <3>4, DetachesFlat
    <3> QED
      BY Zenon, <3>3, <3>4
  <2>4. CASE destroy
    BY Zenon, <2>4, DetachesFlat DEF destroy, Attached
  <2>5. CASE stop \/ UNCHANGED logVars
    <3>1. UNCHANGED <<bufferToWrite, currentBuffer, m_appenders, pc, appender, files, alive, crashed>>
      BY Zenon, <2>5 DEF stop, logVars, bufferVars, setVars
    <3> QED
      BY Zenon, <3>1, KeepsFlat DEF Attached, Held, Listed
  <2> QED
    BY Zenon, <2>1, <2>2, <2>3, <2>4, <2>5, ThreadFlat DEF LogNext, Producer
<1> QED
  BY <1>1, <1>2, LogInitFlat, LogNextFlat, PTL DEF LogImplementsFlat, Flat!FlatSpec, FlatStep

=============================================================================
