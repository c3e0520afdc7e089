----------------------------- MODULE BinaryStream -----------------------------
(***************************************************************************)
(* BinaryStream, the buffer that every message is written to and read      *)
(* from.  A stream is its bytes, the capacity allocated for them, the      *)
(* position, and m_subBytePosition, the bits of the byte there that were   *)
(* written or read one by one.  An operation that reads returns its value  *)
(* and the stream it leaves.  Writes to a read-only stream, which nothing  *)
(* in the library attempts, are left out.                                  *)
(***************************************************************************)
EXTENDS Integers, Sequences, FiniteSets, FiniteSetsExt

\* What a loop over a sequence leaves: Op is applied to what was there before and
\* the next element.
InTurn(Op(_, _), before, seq) ==
  MapThenFoldSet(LAMBDA x, acc : Op(acc, x), before, LAMBDA k : seq[k], Max, DOMAIN seq)

\* Capacities are powers of two, here up to the 24th.
PowersOfTwo ==
  {1, 2, 4, 8, 16, 32, 64, 128, 256, 512, 1024, 2048, 4096, 8192, 16384, 32768, 65536, 131072,
   262144, 524288, 1048576, 2097152, 4194304, 8388608, 16777216}
ToNextPowerOfTwo(n) == IF n = 0 THEN 0 ELSE Min({m \in PowersOfTwo : m >= n})

\* An empty stream, and one that wraps a buffer.
New(capacity) ==
  [bytes |-> <<>>, capacity |-> ToNextPowerOfTwo(capacity), position |-> 0, bits |-> 0]
Wrap(buffer) == [bytes |-> buffer, capacity |-> Len(buffer), position |-> 0, bits |-> 0]

Length(s) == Len(s.bytes)

\* Mutant of Align: a byte that was begun is not skipped.
AlignInPlace(s) == [s EXCEPT !.bits = 0]

Align(s) ==
  [s EXCEPT !.position = IF s.bits > 0 THEN @ + 1 ELSE @, !.bits = 0]

Reallocate(s, capacity) == [s EXCEPT !.capacity = Max({ToNextPowerOfTwo(capacity), 1})]

\* operator=: a copy, with a buffer of its own.  The assertion in it is that this
\* has the capacity of the other's.
Assign(other) == Reallocate(other, other.capacity)
AssignAsserts(other) == Assign(other).capacity = other.capacity

\* The bytes as a Packet keeps them, copied or taken from the stream.
ToArray(s) == s.bytes
ReleaseBuffer(s) == Align(s).bytes

Ensure(s, free) ==
  IF s.capacity - s.position >= free THEN s ELSE Reallocate(s, s.position + free)

Seek(s, position) == [s EXCEPT !.position = Min({position, Length(s)})]

\* The subtraction in m_position > (m_length - read) is unsigned: a stream shorter
\* than what is to be read is not at its end.
IsEOF(s, read) == read <= Length(s) /\ s.position > Length(s) - read

Skip(s, num) == IF IsEOF(s, num) THEN s ELSE [s EXCEPT !.position = @ + num]

-----------------------------------------------------------------------------
(***************************************************************************)
(* Writing.                                                                *)
(***************************************************************************)

\* The bytes from the position on are replaced, and the stream grows if need be.
WriteBytes(s, data) ==
  LET t == Ensure(Align(s), Len(data)) IN
  [t EXCEPT !.bytes = SubSeq(@, 1, t.position) \o data
                        \o SubSeq(@, t.position + Len(data) + 1, Len(@)),
            !.position = @ + Len(data)]

WriteZeroes(s, n) == WriteBytes(s, [k \in 1 .. n |-> 0])
WriteByte(s, val) == WriteBytes(s, <<val>>)

\* Network byte order.
WriteInt16(s, val) == WriteBytes(s, <<(val \div 256) % 256, val % 256>>)
Int32(val) == <<val \div 16777216, (val \div 65536) % 256, (val \div 256) % 256, val % 256>>

WriteInt32(s, val) == WriteBytes(s, Int32(val))

\* A 64-bit number is given by its upper and lower halves.
WriteInt64(s, val) == WriteInt32(WriteInt32(s, val[1]), val[2])

\* Seven bits at a time, the lowest first; the eighth says that more follow.
Shifted7(k) == <<1, 128, 16384, 2097152, 268435456>>[k + 1]

Write7BitEncodedInt(s, val) ==
  LET more == {k \in 1 .. 4 : val >= Shifted7(k)}
      snippet(k) == ((val \div Shifted7(k)) % 128) + (IF k + 1 \in more THEN 128 ELSE 0)
  IN WriteBytes(s, [k \in 1 .. Max({0} \cup more) + 1 |-> snippet(k - 1)])

\* Bits are set from the top of a byte down, which the first of them clears.
Bit(at) == <<128, 64, 32, 16, 8, 4, 2, 1>>[at + 1]

WriteBool(s, val) ==
  LET t == Ensure(s, 1)
      old == IF t.bits = 0 THEN 0 ELSE t.bytes[t.position + 1]
      byte == IF val THEN old + Bit(t.bits) ELSE old
  IN [t EXCEPT !.bytes = SubSeq(@, 1, t.position) \o <<byte>> \o SubSeq(@, t.position + 2, Len(@)),
               !.position = IF t.bits = 7 THEN @ + 1 ELSE @,
               !.bits = (@ + 1) % 8]

\* The lists of a DatagramHeader: the length less one, limited to a byte, and the
\* ids, which are not limited.
WriteIds(s, ids) ==
  WriteBytes(WriteByte(s, Min({Len(ids), 256}) - 1),
             [k \in 1 .. 4 * Len(ids) |-> Int32(ids[(k + 3) \div 4])[((k - 1) % 4) + 1]])

WriteString(s, str) == WriteBytes(Write7BitEncodedInt(s, Len(str)), str)

\* Only a stream whose capacity is too small is extended up to the position.
SeekForce(s, position) ==
  IF s.capacity <= position
  THEN Seek(WriteZeroes(Seek(s, Length(s)), position - Length(s)), position)
  ELSE Seek(s, position)

-----------------------------------------------------------------------------
(***************************************************************************)
(* Reading.                                                                *)
(***************************************************************************)

\* A byte outside the buffer, and a number that was not read: no byte's value.
Garbage == -1
Byte(s, at) == IF at < Length(s) THEN s.bytes[at + 1] ELSE Garbage

Got(value, rest) == [value |-> value, rest |-> rest]

ReadByte(s) ==
  LET t == Align(s) IN
  IF IsEOF(s, 1) THEN Got(0, s)
  ELSE Got(Byte(t, t.position), [t EXCEPT !.position = @ + 1])

\* At the end of the stream nothing is read, and the buffer stays as it was.
ReadBytes(s, count) ==
  LET t == Align(s) IN
  IF IsEOF(s, count) THEN Got(<<>>, s)
  ELSE Got([k \in 1 .. count |-> Byte(t, t.position + k - 1)], [t EXCEPT !.position = @ + count])

ReadUInt(s, width) ==
  LET r == ReadBytes(s, width) IN
  Got(IF r.value = <<>> THEN Garbage ELSE InTurn(LAMBDA n, b : 256 * n + b, 0, r.value), r.rest)

ReadUInt64(s) ==
  LET upper == ReadUInt(s, 4)
      lower == ReadUInt(upper.rest, 4)
  IN Got(<<upper.value, lower.value>>, lower.rest)

ReadBool(s) ==
  IF IsEOF(s, 1) THEN Got(FALSE, s)
  ELSE Got((Byte(s, s.position) \div Bit(s.bits)) % 2 = 1,
           [s EXCEPT !.position = IF s.bits = 7 THEN @ + 1 ELSE @, !.bits = (@ + 1) % 8])

Read7BitEncodedInt(s) ==
  LET Snippet(got, i) ==
        LET r == ReadByte(got.rest) IN
        IF ~ got.more THEN got
        ELSE [value |-> got.value + (r.value % 128) * Shifted7(i), rest |-> r.rest, more |-> r.value >= 128]
  IN InTurn(Snippet, [value |-> 0, rest |-> s, more |-> TRUE], <<0, 1, 2, 3, 4>>)

ReadString(s) ==
  LET length == Read7BitEncodedInt(s) IN
  IF IsEOF(length.rest, length.value) THEN Got(<<>>, length.rest)
  ELSE ReadBytes(length.rest, length.value)

\* Numbers of 32 bits, one after the other.
ReadUInts(s, n) ==
  LET Here(k) == [s EXCEPT !.position = @ + 4 * k] IN
  Got([k \in 1 .. n |-> ReadUInt(Here(k - 1), 4).value],
      Here(Cardinality({k \in 1 .. n : ~ IsEOF(Here(k - 1), 4)})))

ReadIds(s) == LET n == ReadByte(s) IN ReadUInts(n.rest, n.value + 1)

-----------------------------------------------------------------------------
(***************************************************************************)
(* Fields: a kind and a value.                                             *)
(***************************************************************************)

Put(s, field) ==
  CASE field[1] = "bool"   -> WriteBool(s, field[2])
    [] field[1] = "byte"   -> WriteByte(s, field[2])
    [] field[1] = "int16"  -> WriteInt16(s, field[2])
    [] field[1] = "int32"  -> WriteInt32(s, field[2])
    [] field[1] = "int64"  -> WriteInt64(s, field[2])
    [] field[1] = "7bit"   -> Write7BitEncodedInt(s, field[2])
    [] field[1] = "string" -> WriteString(s, field[2])
    [] field[1] = "bytes"  -> WriteBytes(s, field[2])
    [] field[1] = "ids"    -> WriteIds(s, field[2])

Get(s, kind) ==
  CASE kind = "bool"   -> ReadBool(s)
    [] kind = "byte"   -> ReadByte(s)
    [] kind = "int16"  -> ReadUInt(s, 2)
    [] kind = "int32"  -> ReadUInt(s, 4)
    [] kind = "int64"  -> ReadUInt64(s)
    [] kind = "7bit"   -> Read7BitEncodedInt(s)
    [] kind = "string" -> ReadString(s)
    [] kind = "ids"    -> ReadIds(s)

PutAll(s, fields) == InTurn(Put, s, fields)

\* A record of fields, of the given names, in order.  What kind a field has, "none"
\* if it is left out, and how many bytes have to be there before it is read, may
\* depend on the fields before it; a field that is left out keeps its old value.
GetRecord(s, old, names, Kind(_, _), Needs(_, _)) ==
  LET Store(st, name, got) == [st EXCEPT !.value[name] = got.value, !.rest = got.rest]
      ReadField(st, name) ==
        IF ~ st.ok \/ Kind(st.value, name) = "none" THEN st
        ELSE IF Needs(st.value, name) > 0 /\ IsEOF(st.rest, Needs(st.value, name))
        THEN [st EXCEPT !.ok = FALSE]
        ELSE Store(st, name, Get(st.rest, Kind(st.value, name)))
  IN InTurn(ReadField, [ok |-> TRUE, value |-> old, rest |-> s], names)

\* The values of fields of the given kinds, in order.
GetAll(s, kinds) ==
  GetRecord(s, [k \in DOMAIN kinds |-> 0], [k \in DOMAIN kinds |-> k],
            LAMBDA value, k : kinds[k], LAMBDA value, k : 0)
=============================================================================
