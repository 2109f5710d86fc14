------------------------------ MODULE Buffers ------------------------------
(***************************************************************************)
(* A user of a ByteArray who calls its operations in any order, beside a   *)
(* plain sequence of bytes that says what they should do.                  *)
(***************************************************************************)
EXTENDS ByteArray

CONSTANTS
  MaxBytes,          \* bound: the bytes an array grows to
  MaxOps,            \* bound: operations of the user
  Numbers,           \* numbers for the codes: sets of bits
  Halves             \* half the range of a signed width

ASSUME CodesAssumption == (\A number \in Numbers : number \subseteq Nat) /\ Halves \subseteq Nat

VARIABLES
  ba,        \* the array
  flat,      \* history: the bytes it should hold
  ops,       \* operations so far; the bytes they write carry the number
  got,       \* the last read: what it gave, what it should have given
  astray,    \* history: the array was used with m_cur at the wrong node
  nulled     \* m_cur was NULL where the code dereferences it

bytesVars == <<ba, flat, ops, got, astray, nulled>>
NoRead == <<<<>>, <<>>>>
BytesInit ==
  /\ ba = ByteArray /\ flat = <<>> /\ ops = 0 /\ got = NoRead /\ astray = FALSE /\ nulled = FALSE

(* m_cur is the node before the one of m_position: a write has ended with  *)
(* its node.  When the array is full addCapacity repairs that.             *)
Behind == ba.m_position > 0 /\ ba.m_cur * m_baseSize = ba.m_position
Null == ba.m_cur = 0

New(n) == [i \in 1..n |-> ops + 1]
Use == ~nulled /\ ops < MaxOps /\ ops' = ops + 1
Deref == Null /\ nulled' = TRUE /\ UNCHANGED <<ba, flat, got, astray>>
Put(s, p, buf) ==
  [i \in 1..Larger(Len(s), p + Len(buf)) |-> IF i \in (p + 1)..(p + Len(buf)) THEN buf[i - p] ELSE s[i]]
Expected(n) == SubSeq(flat, ba.m_position + 1, ba.m_position + n)

(* write, and with it the writers of numbers and strings.                  *)
Write(n) ==
  /\ Use /\ ba.m_position + n <= MaxBytes
  /\ \/ Deref
     \/ /\ ~Null /\ ba' = write(ba, New(n)) /\ flat' = Put(flat, ba.m_position, New(n))
        /\ astray' = (astray \/ (Behind /\ getCapacity(ba) > 0)) /\ UNCHANGED <<got, nulled>>

(* read, also of 0 bytes, which looks at m_cur as well.                    *)
Read(n) ==
  /\ Use /\ n <= getReadSize(ba)
  /\ \/ Deref
     \/ /\ ~Null /\ ba' = read(ba, n) /\ got' = <<Bytes(ba, n), Expected(n)>>
        /\ astray' = (astray \/ (Behind /\ n > 0)) /\ UNCHANGED <<flat, nulled>>

(* A position past the end makes what memory holds there part of the array.*)
SetPosition(v) ==
  /\ Use /\ v <= Len(ba.m) /\ ba' = setPosition(ba, v)
  /\ flat' = IF v > Len(flat) THEN flat \o SubSeq(ba.m, Len(flat) + 1, v) ELSE flat
  /\ UNCHANGED <<got, astray, nulled>>

Clear == Use /\ ba' = clear(ba) /\ flat' = <<>> /\ got' = NoRead /\ astray' = FALSE /\ UNCHANGED nulled

StreamRead(n, k) ==
  /\ Use /\ ba.m_position + n <= MaxBytes
  /\ \/ Deref
     \/ /\ ~Null /\ ba' = streamRead(ba, n, New(k)) /\ flat' = Put(flat, ba.m_position, New(k))
        /\ astray' = (astray \/ (Behind /\ k > 0 /\ getCapacity(ba) > 0)) /\ UNCHANGED <<got, nulled>>

(* getReadBuffers looks at m_cur only when there is something to read.     *)
StreamWrite(k) ==
  /\ Use /\ k \in 1..getReadSize(ba) /\ ~Null
  /\ ba' = streamWrite(ba, k) /\ got' = <<Bytes(ba, k), Expected(k)>>
  /\ astray' = (astray \/ Behind) /\ UNCHANGED <<flat, nulled>>

BytesNext ==
  \/ \E n \in 1..MaxBytes : Write(n) \/ StreamWrite(n) \/ \E k \in 0..n : StreamRead(n, k)
  \/ \E n \in 0..MaxBytes : Read(n) \/ SetPosition(n)
  \/ Clear
BytesSpec == BytesInit /\ [][BytesNext]_bytesVars
-----------------------------------------------------------------------------
(* The position is inside the array, and m_cur is its node, NULL at the    *)
(* very end, or the node before after a write that filled that one.        *)
CurRight ==
  /\ ba.m_position <= ba.m_size /\ ba.m_size <= Len(ba.m) /\ Len(ba.m) % m_baseSize = 0
  /\ ba.m_cur = NodeAt(ba, ba.m_position) \/ Behind \/ astray

(* The nodes hold what a plain sequence would, and reads give it, unless   *)
(* the array was used while m_cur was one node behind with room left: the  *)
(* bytes then go to, or come from, the node before, because write leaves   *)
(* m_cur at a node it has filled (bytearray.cc:396).                       *)
LikeSequence == ~astray => getReadBuffers(ba, ba.m_size, 0) = flat /\ got[1] = got[2]

(* NULL is dereferenced only at the very end of the capacity, after a read *)
(* or setPosition went there: the next write, which should grow the array, *)
(* fails (bytearray.cc:566).                                               *)
NullAtEnd == Null => ba.m_position = Len(ba.m) \/ astray

(* writeToFile writes what is left to read when that begins with a node or *)
(* fills one; otherwise the bytes before it in its node are missing at the *)
(* end, or more (bytearray.cc:500).                                        *)
FileRight ==
  ~astray /\ ~Behind /\ getReadSize(ba) > 0 =>
    (writeToFile(ba) = Expected(getReadSize(ba)) <=>
       ba.m_position % m_baseSize = 0 \/ getReadSize(ba) >= m_baseSize)

(* Numbers of 32 bits survive the varint code; one of 64 bits does exactly *)
(* when it needs no more than 32, as readUint64 collects it in 32.         *)
VarintRight ==
  \A number \in Numbers :
    /\ number \subseteq 0..31 => readUint32(writeUint(number)) = number
    /\ \A wraps \in BOOLEAN : readUint64(writeUint(number), wraps) = number <=> number \subseteq 0..31

(* Signed numbers survive the zigzag code; DecodeZigzag64 gives those back *)
(* whose code has its highest bit 0.                                       *)
ZigzagRight ==
  \A half \in Halves : \A v \in (0 - half)..(half - 1) :
    /\ EncodeZigzag(v) \in 0..(2 * half - 1) /\ DecodeZigzag32(EncodeZigzag(v)) = v
    /\ DecodeZigzag64(EncodeZigzag(v), half) = v <=> EncodeZigzag(v) < half

(* The array and the number codes: see its six parts.                      *)
ByteArraySound == CurRight /\ LikeSequence /\ NullAtEnd /\ FileRight /\ VarintRight /\ ZigzagRight
=============================================================================
