----------------------------- MODULE ByteArray -----------------------------
(***************************************************************************)
(* ByteArray (bytearray.h, bytearray.cc) and the two calls of SocketStream *)
(* that move its bytes to and from a socket (socket_stream.cc:33-74).      *)
(*                                                                         *)
(* The memory of the linked nodes is one sequence, node k being its bytes  *)
(* (k-1) * m_baseSize + 1 .. k * m_baseSize.  The loops over the nodes     *)
(* start at m_cur with the offset m_position % m_baseSize, so they are in  *)
(* the right place only if m_cur is the node of m_position.  The widths of *)
(* a byte and of an integer are parameters.                                *)
(***************************************************************************)
EXTENDS Integers, Sequences, FiniteSetsExt, SequencesExt

CONSTANTS
    m_baseSize,     \* bytes of a node
    MaxCapacity,    \* bound: the array is not made larger
    Bits,           \* data bits in a byte of a varint, 7
    Width,          \* bits of the integer types, 32
    LittleHost,     \* SYLAR_BYTE_ORDER is SYLAR_LITTLE_ENDIAN
    Strings,        \* the byte strings that callers write
    Values,         \* the integers that callers write
    Garbage,        \* the content of memory that is not initialised
    Null,           \* no node
    NoRecord,       \* nothing to be read back
    Thrown          \* std::out_of_range

Byte == 0 .. 2 ^ (Bits + 1) - 1
Word == 0 .. 2 ^ (2 * (Bits + 1)) - 1
UInt == 0 .. 2 ^ Width - 1
SInt == -(2 ^ (Width - 1)) .. 2 ^ (Width - 1) - 1

ASSUME ByteArrayConstants ==
    /\ m_baseSize \in Nat \ {0} /\ MaxCapacity \in Nat
    /\ Bits \in Nat \ {0} /\ Width \in Nat \ {0}
    /\ LittleHost \in BOOLEAN
    /\ Strings \subseteq Seq(Byte) /\ \A s \in Strings : Len(s) \in UInt
    /\ Values \subseteq SInt
    /\ Null \notin Nat /\ Null # Garbage

VARIABLES
    memory,         \* the bytes of all nodes: m_capacity of them
    m_position,
    m_size,
    m_cur,          \* the number of a node, or Null
    m_little,       \* m_endian = SYLAR_LITTLE_ENDIAN
    moved,          \* history: what the last call took or delivered
    record,         \* history: the last value written by a typed call
    crashed         \* Null has been dereferenced

vars == <<memory, m_position, m_size, m_cur, m_little, moved, record, crashed>>

m_capacity == Len(memory)

Node(base) == [i \in 1 .. base |-> Garbage]

Init ==
    /\ memory = Node(m_baseSize)
    /\ m_position = 0 /\ m_size = 0
    /\ m_cur = 1
    /\ m_little = FALSE
    /\ moved = <<>>
    /\ record = NoRecord
    /\ crashed = FALSE
-----------------------------------------------------------------------------
(* The encodings.                                                          *)

\* Faulty variant: negative numbers collide with the positive ones.
EncodeZigzagCollides(v) == (IF v < 0 THEN -v ELSE v) * 2 % 2 ^ Width

\* EncodeZigzag32(): -v and v * 2 wrap around.
EncodeZigzag(v) == (IF v < 0 THEN -v * 2 - 1 ELSE v * 2) % 2 ^ Width

\* DecodeZigzag32(): (v >> 1) ^ -(v & 1), as a signed integer.
DecodeZigzag(u) == IF u % 2 = 0 THEN u \div 2 ELSE -(u \div 2) - 1

\* writeUint32(): groups of Bits bits, the lowest first, a flag on all but the last.
Varint(u) ==
    LET groups == Min({k \in 1 .. Width : u < 2 ^ (Bits * k)})
        Group(k) == (u \div 2 ^ (Bits * (k - 1))) % 2 ^ Bits
    IN  [k \in 1 .. groups |-> Group(k) + IF k < groups THEN 2 ^ Bits ELSE 0]

\* The number of bytes that readUint32() asks for when bytes lie ahead: up to the
\* first without the flag, but no more than make up Width bits.
VarintLength(bytes) ==
    LET most == (Width + Bits - 1) \div Bits
        Ends(k) == k = most \/ k > Len(bytes) \/ bytes[k] < 2 ^ Bits
    IN  CHOOSE k \in 1 .. most : Ends(k) /\ \A j \in 1 .. k - 1 : ~ Ends(j)

\* What it makes of them.
VarintValue(bytes) ==
    LET sum[k \in 0 .. Len(bytes)] ==
            IF k = 0 THEN 0 ELSE sum[k - 1] + (bytes[k] % 2 ^ Bits) * 2 ^ (Bits * (k - 1))
    IN  sum[Len(bytes)] % 2 ^ Width

\* writeFint16(): byteswap() unless the byte order is that of the host.
Fixed(u, little) ==
    LET low == u % 2 ^ (Bits + 1)  high == u \div 2 ^ (Bits + 1)
        inHostOrder == IF LittleHost THEN <<low, high>> ELSE <<high, low>>
    IN  IF little = LittleHost THEN inHostOrder ELSE Reverse(inHostOrder)

FixedValue(bytes, little) ==
    LET inHostOrder == IF little = LittleHost THEN bytes ELSE Reverse(bytes)
    IN  IF LittleHost THEN inHostOrder[1] + inHostOrder[2] * 2 ^ (Bits + 1)
                      ELSE inHostOrder[2] + inHostOrder[1] * 2 ^ (Bits + 1)
-----------------------------------------------------------------------------
(* Nodes.                                                                  *)

ReadSize == m_size - m_position

Spare == m_capacity - m_position

\* The node of an offset, where the loops of read(), write() and setPosition() stop.
NodeAt(offset, capacity) == IF offset >= capacity THEN Null ELSE offset \div m_baseSize + 1

\* Where those loops start.
Start(cur) == (cur - 1) * m_baseSize + (m_position % m_baseSize)

\* addCapacity(n): as many nodes as are missing; m_cur is set if it was Null.
Grown(n) ==
    IF n <= Spare THEN memory
    ELSE memory \o Node(m_baseSize * ((n - Spare + m_baseSize - 1) \div m_baseSize))

\* Faulty variant: the first new node even if the old ones are not full.
CurGrownAlways(n) == IF n > Spare THEN m_capacity \div m_baseSize + 1 ELSE m_cur

CurGrown(n) == IF n > Spare /\ Spare = 0 THEN m_capacity \div m_baseSize + 1 ELSE m_cur

Overwrite(mem, start, bytes) ==
    [i \in 1 .. Len(mem) |-> IF i - start \in 1 .. Len(bytes) THEN bytes[i - start] ELSE mem[i]]

\* A value written before is known as long as none of its bytes is overwritten.
RecordBeside(n) ==
    IF record = NoRecord \/ (m_position < record.at + record.length /\ record.at < m_position + n)
      THEN NoRecord
      ELSE record

\* m_position becomes where the call was to stop.
Crash(n) ==
    /\ crashed' = TRUE
    /\ moved' = Thrown
    /\ m_position' = m_position + n
    /\ UNCHANGED <<memory, m_size, m_cur, m_little, record>>
-----------------------------------------------------------------------------
(* Writing.                                                                *)

\* write() of bytes; in a typed call that calls it more than once, of all of them:
\* the nodes that are added and the place that is reached are the same.
WriteBytes(bytes) ==
    LET n == Len(bytes)  mem == Grown(n)  cur == CurGrown(n)
    IN  /\ ~ crashed
        /\ Len(mem) <= MaxCapacity
        /\ IF n > 0 /\ (cur = Null \/ Start(cur) + n > Len(mem))
             THEN Crash(n)
             ELSE /\ memory' = IF n = 0 THEN memory ELSE Overwrite(mem, Start(cur), bytes)
                  /\ m_cur' = IF n = 0 THEN m_cur ELSE NodeAt(Start(cur) + n, Len(mem))
                  /\ m_position' = m_position + n
                  /\ m_size' = Max({m_size, m_position + n})
                  /\ moved' = bytes
                  /\ UNCHANGED <<m_little, crashed>>

\* writeStringWithoutLength(), and readFromFile() block by block.
Write(bytes) == WriteBytes(bytes) /\ (~ crashed' => record' = RecordBeside(Len(bytes)))

\* A typed call: what it wrote is to be read back.
WriteTyped(kind, value, bytes) ==
    /\ WriteBytes(bytes)
    /\ ~ crashed' => record' = [kind |-> kind, value |-> value, little |-> m_little,
                                at |-> m_position, length |-> Len(bytes)]

\* writeInt32(), writeInt64()
WriteInt(v) == WriteTyped("int", v, Varint(EncodeZigzag(v)))

\* writeUint32(), writeUint64()
WriteUint(u) == WriteTyped("uint", u, Varint(u))

\* writeFint16(), and in the same way the wider ones, floats included.
WriteFixed(u) == WriteTyped("fixed", u, Fixed(u, m_little))

\* writeStringVint()
WriteString(s) == WriteTyped("string", s, Varint(Len(s)) \o s)

\* SocketStream::read(ba, len): getWriteBuffers(len), and recv() fills the first of
\* them, or fails (no bytes).
Recv(len, bytes) ==
    LET mem == Grown(len)  cur == CurGrown(len)
    IN  /\ ~ crashed
        /\ len > 0 /\ Len(bytes) <= len
        /\ Len(mem) <= MaxCapacity
        /\ IF cur = Null \/ Start(cur) + len > Len(mem)
             THEN Crash(len)
             ELSE /\ memory' = Overwrite(mem, Start(cur), bytes)
                  /\ m_position' = m_position + Len(bytes)
                  /\ m_size' = Max({m_size, m_position'})
                  /\ m_cur' = IF bytes = <<>> THEN cur ELSE NodeAt(m_position', Len(mem))
                  /\ moved' = bytes
                  /\ record' = RecordBeside(Len(bytes))
                  /\ UNCHANGED <<m_little, crashed>>
-----------------------------------------------------------------------------
(* Reading.                                                                *)

\* The bytes that a loop over the nodes finds from m_cur on.
Ahead == IF m_cur = Null THEN <<>> ELSE SubSeq(memory, Start(m_cur) + 1, Start(m_cur) + ReadSize)

\* Calls of read() that consume n bytes, the last call asking for last of them.
\* read() looks at m_cur even if it is asked for nothing (line 473).
Consume(n, last) ==
    IF \/ m_cur = Null
       \/ Start(m_cur) + n > m_capacity
       \/ last = 0 /\ NodeAt(Start(m_cur) + n, m_capacity) = Null
      THEN Crash(n)
      ELSE /\ moved' = SubSeq(Ahead, 1, n)
           /\ m_position' = m_position + n
           /\ m_cur' = IF n = 0 THEN m_cur ELSE NodeAt(Start(m_cur) + n, m_capacity)
           /\ UNCHANGED <<memory, m_size, m_little, record, crashed>>

\* The last of them throws.
ConsumeAndThrow(n) ==
    /\ m_position' = m_position + n
    /\ m_cur' = IF n = 0 THEN m_cur ELSE NodeAt(Start(m_cur) + n, m_capacity)
    /\ moved' = Thrown
    /\ UNCHANGED <<memory, m_size, m_little, record, crashed>>

\* read(buf, n), readFint8() to readDouble()
Read(n) ==
    /\ ~ crashed
    /\ IF n > ReadSize THEN ConsumeAndThrow(0) ELSE Consume(n, n)

\* Memory that was never written is not interpreted.
Initialised == \A i \in 1 .. Len(Ahead) : Ahead[i] # Garbage

\* readUint32(), readInt32(), byte by byte.
ReadVarint ==
    /\ ~ crashed
    /\ Initialised
    /\ LET n == VarintLength(Ahead)
       IN  IF n > ReadSize THEN ConsumeAndThrow(ReadSize) ELSE Consume(n, 1)

\* readStringVint(): its length, then its bytes.
ReadString ==
    /\ ~ crashed
    /\ Initialised
    /\ LET prefix == VarintLength(Ahead)
           len == VarintValue(SubSeq(Ahead, 1, prefix))
       IN  IF prefix > ReadSize THEN ConsumeAndThrow(ReadSize)
           ELSE IF prefix + len > ReadSize THEN ConsumeAndThrow(prefix)
           ELSE Consume(prefix + len, len)

\* toString()
AsString ==
    /\ ~ crashed
    /\ moved' = Ahead
    /\ UNCHANGED <<memory, m_position, m_size, m_cur, m_little, record, crashed>>

\* Faulty variant: the offset in the first node is not subtracted.
FileLengthWhole(pos, left) == Min({left, m_baseSize})

\* writeToFile(), line 580: what is written from one node.
FileLength(pos, left) == Min({left, m_baseSize}) - (pos % m_baseSize)

\* A turn of its loop.  Null is written for a length below zero, and for a node that
\* is not there, and is the last.
FileTurn(at) ==
    LET len == FileLength(at.pos, at.left)
        start == (at.cur - 1) * m_baseSize + (at.pos % m_baseSize)
    IN  IF at.left <= 0 THEN at
        ELSE IF at.cur = Null \/ len < 0
          THEN [at EXCEPT !.left = 0, !.out = Append(@, Null)]
          ELSE [cur |-> NodeAt(at.cur * m_baseSize, m_capacity), pos |-> at.pos + len,
                left |-> at.left - len, out |-> at.out \o SubSeq(memory, start + 1, start + len)]

\* The loop; a node is left at each turn or bytes are written, so it has ended then.
FileBytes ==
    LET after[k \in 0 .. m_capacity + 1] ==
            IF k = 0 THEN [cur |-> m_cur, pos |-> m_position, left |-> ReadSize, out |-> <<>>]
                     ELSE FileTurn(after[k - 1])
    IN  after[m_capacity + 1].out

\* SocketStream::write(ba, len): getReadBuffers(len), and send() takes n bytes.
Send(len, n) ==
    /\ ~ crashed
    /\ n > 0 /\ n <= len /\ n <= ReadSize
    /\ IF m_cur = Null
         THEN Crash(n)
         ELSE /\ moved' = SubSeq(Ahead, 1, n)
              /\ m_position' = m_position + n
              /\ m_cur' = NodeAt(m_position', m_capacity)
              /\ UNCHANGED <<memory, m_size, m_little, record, crashed>>
-----------------------------------------------------------------------------
\* Faulty variant: m_cur stays on a node that is used up.
SetPositionBehind(v) ==
    /\ ~ crashed
    /\ v <= m_capacity
    /\ m_position' = v
    /\ m_size' = Max({m_size, v})
    /\ m_cur' = IF v = 0 THEN 1 ELSE (v - 1) \div m_baseSize + 1
    /\ moved' = <<>>
    /\ UNCHANGED <<memory, m_little, record, crashed>>

SetPosition(v) ==
    /\ ~ crashed
    /\ IF v > m_capacity
         THEN moved' = Thrown /\ UNCHANGED <<m_position, m_size, m_cur>>
         ELSE /\ m_position' = v
              /\ m_size' = Max({m_size, v})
              /\ m_cur' = NodeAt(v, m_capacity)
              /\ moved' = <<>>
    /\ UNCHANGED <<memory, m_little, record, crashed>>

\* clear(): the first node stays, with what is in it.
Clear ==
    /\ ~ crashed
    /\ memory' = SubSeq(memory, 1, m_baseSize)
    /\ m_position' = 0 /\ m_size' = 0
    /\ m_cur' = 1
    /\ moved' = <<>>
    /\ record' = NoRecord
    /\ UNCHANGED <<m_little, crashed>>

SetIsLittleEndian(val) ==
    /\ ~ crashed
    /\ m_little' = val
    /\ UNCHANGED <<memory, m_position, m_size, m_cur, moved, record, crashed>>
-----------------------------------------------------------------------------
Next ==
    \/ \E s \in Strings : Write(s) \/ WriteString(s)
    \/ \E v \in Values : WriteInt(v)
    \/ \E u \in Values \cap UInt : WriteUint(u)
    \/ \E u \in Values \cap Word : WriteFixed(u)
    \/ \E len \in 1 .. MaxCapacity, s \in Strings : Recv(len, s)
    \/ \E n \in 0 .. MaxCapacity + 1 : Read(n) \/ SetPosition(n)
    \/ ReadVarint
    \/ ReadString
    \/ AsString
    \/ \E len, n \in 1 .. MaxCapacity : Send(len, n)
    \/ Clear
    \/ \E val \in BOOLEAN : SetIsLittleEndian(val)

Spec == Init /\ [][Next]_vars
-----------------------------------------------------------------------------
(* Properties.                                                             *)

\* The type invariant; m_capacity is made of whole nodes and holds the data.
TypeOK ==
    /\ memory \in Seq(Byte \cup {Garbage}) /\ m_capacity % m_baseSize = 0
    /\ m_size \in 0 .. m_capacity /\ m_position \in 0 .. m_size
    /\ m_cur \in 1 .. m_capacity \div m_baseSize \cup {Null}
    /\ m_little \in BOOLEAN /\ crashed \in BOOLEAN

\* m_cur is the node of m_position, and Null only when every node is used up,
\* whichever of write(), read(), setPosition(), addCapacity() and clear() moved
\* it last: each of them moves the two in its own way.  The null pointer is followed
\* in one case only: read() of no bytes, as of an empty string, when all the capacity
\* has been read (bytearray.cc:473).
CursorExact ==
    IF crashed THEN m_position = m_capacity ELSE m_cur = NodeAt(m_position, m_capacity)

\* What a typed call wrote is read back as that value from the same place, however
\* it lies across the nodes, whatever was written beside it since, and after the
\* array has grown.
ReadsBack ==
    record # NoRecord =>
        LET bytes == SubSeq(memory, record.at + 1, m_size)
            prefix == SubSeq(bytes, 1, VarintLength(bytes))
            Decoded ==
                CASE record.kind = "int"    -> DecodeZigzag(VarintValue(prefix))
                  [] record.kind = "uint"   -> VarintValue(prefix)
                  [] record.kind = "fixed"  -> FixedValue(SubSeq(bytes, 1, 2), record.little)
                  [] record.kind = "string" ->
                        SubSeq(bytes, Len(prefix) + 1, Len(prefix) + VarintValue(prefix))
        IN  Decoded = record.value

\* writeToFile() writes what lies ahead ("把ByteArray的数据写入到文件中", bytearray.h:114)
\* from the start of a node, or when a whole node's worth lies ahead; from inside a
\* node with less than that to read it does not (line 580 takes the offset off the
\* wrong length).
FileExact ==
    ~ crashed =>
        (FileBytes = SubSeq(memory, m_position + 1, m_size)
            <=> m_position % m_baseSize = 0 \/ ReadSize = 0 \/ ReadSize >= m_baseSize)

\* Over its nodes, a ByteArray is the plain run of bytes of ByteBuffer.
Buffer == INSTANCE ByteBuffer WITH
    content <- SubSeq(memory, 1, m_size), position <- m_position

ImplementsBuffer == Buffer!Spec
=============================================================================
