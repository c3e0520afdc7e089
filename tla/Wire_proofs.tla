----------------------------- MODULE Wire_proofs -----------------------------
(***************************************************************************)
(* What is written to a BinaryStream is read back from it: the proofs, for *)
(* fields of any kinds, values and number, and for the signals of an RPC.  *)
(*                                                                         *)
(* A stream that is written stands at its end (AtEnd).  Each write goes on *)
(* from there (Follows): it leaves what was written before in the buffer,  *)
(* which it has grown first if need be, and adds its own.  Whatever is     *)
(* written later, the final buffer holds each of the earlier streams       *)
(* (Holds), so a reader that stands where a stream stood (Reader) finds    *)
(* the field that was written next, and then stands where that write       *)
(* ended.  The fields are then read one by one, by induction over their    *)
(* number.                                                                 *)
(*                                                                         *)
(* The loops of the code are folds in the model, and the first lemmas turn *)
(* those into steps.                                                       *)
(***************************************************************************)
EXTENDS Wire, WellFoundedInduction, TLAPS

UByte == 0 .. 255

\* The byte at the position, if it was begun, is part of the stream.
Begun(s) == IF s.bits > 0 THEN 1 ELSE 0

\* The type of a stream; its capacity is left open.
IsStream(s) ==
  s \in [bytes : Seq(UByte), capacity : {s.capacity}, position : Nat, bits : 0 .. 7]

\* A stream that is being written stands at its end.  Of a byte that was begun,
\* the bits that follow are zero.
AtEnd(s) ==
  /\ IsStream(s)
  /\ Len(s.bytes) = s.position + Begun(s)
  /\ s.bits > 0 => s.bytes[s.position + 1] % Bit(s.bits - 1) = 0

\* The buffer u holds what was written to s, and more that may have followed.
Holds(u, s) ==
  /\ u \in Seq(UByte) /\ Len(s.bytes) <= Len(u)
  /\ \A i \in 1 .. s.position : u[i] = s.bytes[i]
  /\ s.bits > 0 => /\ s.bytes[s.position + 1] <= u[s.position + 1]
                   /\ u[s.position + 1] < s.bytes[s.position + 1] + Bit(s.bits - 1)

\* A stream that wraps u and has read what was written to s.
Reader(u, s) == [bytes |-> u, capacity |-> Len(u), position |-> s.position, bits |-> s.bits]

\* A set of numbers up to k + 1 that has k + 1 in it has it as its maximum.
LEMMA MaxUpTo ==
  ASSUME NEW k \in Nat, NEW s \in SUBSET (1 .. k + 1), k + 1 \in s
  PROVE  Max(s) = k + 1
<1>1. \E x \in s : \A y \in s : x >= y
  OBVIOUS
<1>2. Max(s) \in s /\ \A y \in s : Max(s) >= y
  BY <1>1, Zenon DEF Max
<1>3. Max(s) >= k + 1 /\ Max(s) \in 1 .. k + 1
  BY <1>2, Zenon
<1> QED
  BY <1>3

\* A nonempty set of naturals has a least element.
LEMMA LeastExists ==
  ASSUME NEW S, S \subseteq Nat, S # {}
  PROVE  \E m \in S : \A k \in S : m <= k
<1>1. PICK m \in S : \A k \in S : ~ (<<k, m>> \in OpToRel(<, Nat))
  BY WFMin, NatLessThanWellFounded, Zenon
<1>2. \A k \in S : k \in Nat /\ m \in Nat /\ ~ (k < m)
  BY <1>1, Zenon DEF OpToRel
<1> QED
  BY <1>2

\* Induction over the numbers up to n, for a set T of them.
LEMMA UpTo ==
  ASSUME NEW n \in Nat, NEW T, 0 \in T, \A k \in 0 .. n - 1 : k \in T => k + 1 \in T
  PROVE  \A k \in 0 .. n : k \in T
<1> DEFINE Bad == {k \in 0 .. n : k \notin T}
<1> SUFFICES ASSUME Bad # {} PROVE FALSE
  OBVIOUS
<1>1. PICK m \in Bad : \A k \in Bad : m <= k
  <2>1. Bad \subseteq Nat
    OBVIOUS
  <2> HIDE DEF Bad
  <2> QED
    BY <2>1, LeastExists, Zenon
<1>2. m # 0 /\ m - 1 \in 0 .. n - 1 /\ m - 1 \notin Bad
  BY <1>1
<1>3. m - 1 \in T
  BY <1>2
<1> QED
  BY <1>1, <1>2, <1>3

\* The bits of a byte have positive weights, each twice that of the next:
\* WriteBool fills a byte from its most significant bit.
LEMMA Bits ==
  ASSUME NEW b \in 0 .. 7 PROVE Bit(b) \in Nat \ {0} /\ (b < 7 => Bit(b) = 2 * Bit(b + 1))
<1>1. b = 0 \/ b = 1 \/ b = 2 \/ b = 3 \/ b = 4 \/ b = 5 \/ b = 6 \/ b = 7
  OBVIOUS
<1> QED
  BY <1>1 DEF Bit

\* Align skips the rest of a byte that was begun and leaves the buffer as it is.
LEMMA AlignIs ==
  ASSUME NEW s, IsStream(s)
  PROVE  /\ IsStream(Align(s)) /\ Align(s).bits = 0 /\ Align(s).bytes = s.bytes
         /\ Align(s).position = s.position + Begun(s)
         /\ Align(s).capacity = s.capacity
<1> DEFINE a == [s EXCEPT !.position = IF s.bits > 0 THEN s.position + 1 ELSE s.position, !.bits = 0]
<1>1. Align(s) = a
  BY Zenon DEF Align
<1>2. /\ a.bits = 0 /\ a.bytes = s.bytes /\ a.capacity = s.capacity
      /\ a.position = s.position + Begun(s)
  BY DEF IsStream, Begun
<1>3. IsStream(a)
  <2>1. a \in [bytes : Seq(UByte), capacity : {s.capacity}, position : Nat, bits : 0 .. 7]
    <3> DEFINE p == IF s.bits > 0 THEN s.position + 1 ELSE s.position
    <3>1. s \in [bytes : Seq(UByte), capacity : {s.capacity}, position : Nat, bits : 0 .. 7]
      BY Zenon DEF IsStream
    <3>2. p \in Nat /\ 0 \in 0 .. 7
      BY <3>1
    <3> HIDE DEF p
    <3>3. a = [s EXCEPT !.position = p, !.bits = 0]
      BY Zenon DEF p
    <3> HIDE DEF a
    <3> QED
      BY <3>1, <3>2, <3>3, Zenon
  <2> HIDE DEF a
  <2> QED
    BY <1>2, <2>1, Zenon DEF IsStream
<1> QED
  BY <1>1, <1>2, <1>3, Zenon

\* Ensure changes the capacity of a stream and nothing else.
LEMMA EnsureIs ==
  ASSUME NEW s, IsStream(s), NEW n
  PROVE  /\ IsStream(Ensure(s, n)) /\ Ensure(s, n).bits = s.bits /\ Ensure(s, n).bytes = s.bytes
         /\ Ensure(s, n).position = s.position
<1> DEFINE c == Max({ToNextPowerOfTwo(s.position + n), 1})
           r == [s EXCEPT !.capacity = c]
<1>1. Ensure(s, n) = s \/ Ensure(s, n) = r
  BY Zenon DEF Ensure, Reallocate
<1>2. IsStream(r) /\ r.bits = s.bits /\ r.bytes = s.bytes /\ r.position = s.position
  <2> HIDE DEF c
  <2> QED
    BY DEF IsStream
<1> QED
  BY <1>1, <1>2, Zenon

\* The elements of two sequences of bytes that are joined.
LEMMA JoinedAt ==
  ASSUME NEW a \in Seq(UByte), NEW b \in Seq(UByte)
  PROVE  /\ a \o b \in Seq(UByte) /\ Len(a \o b) = Len(a) + Len(b)
         /\ Len(a) \in Nat /\ Len(b) \in Nat
         /\ \A i \in 1 .. Len(a) : (a \o b)[i] = a[i]
         /\ \A i \in 1 .. Len(b) : (a \o b)[Len(a) + i] = b[i]
OBVIOUS

\* WriteBytes on a stream that stands at its end appends the bytes, after the
\* rest of a byte that was begun.
LEMMA WriteBytesIs ==
  ASSUME NEW s, AtEnd(s), NEW data \in Seq(UByte)
  PROVE  LET w == WriteBytes(s, data) IN
         /\ AtEnd(w) /\ w.bytes = s.bytes \o data
         /\ w.position = Len(s.bytes) + Len(data) /\ w.bits = 0
         /\ w.capacity = Ensure(Align(s), Len(data)).capacity
<1> DEFINE t == Ensure(Align(s), Len(data))
           w == WriteBytes(s, data)
<1>1. IsStream(s) /\ Len(s.bytes) = s.position + Begun(s)
  BY DEF AtEnd
<1>2. /\ IsStream(t) /\ t.bits = 0 /\ t.bytes = s.bytes
      /\ t.position = Len(s.bytes)
  BY <1>1, AlignIs, EnsureIs, Zenon
<1>3. w = [t EXCEPT !.bytes = SubSeq(t.bytes, 1, t.position) \o data
                        \o SubSeq(t.bytes, t.position + Len(data) + 1, Len(t.bytes)),
                     !.position = t.position + Len(data)]
  BY Zenon DEF WriteBytes
<1> HIDE DEF t
<1>4. s.bytes \in Seq(UByte) /\ Len(s.bytes) \in Nat /\ Len(data) \in Nat
  BY <1>1 DEF IsStream
<1>5. SubSeq(t.bytes, 1, t.position) = s.bytes
  BY <1>2, <1>4
<1>6. SubSeq(t.bytes, t.position + Len(data) + 1, Len(t.bytes)) = <<>>
  BY <1>2, <1>4
<1>7. (s.bytes \o data) \o <<>> = s.bytes \o data
  BY <1>4
<1>8. w = [t EXCEPT !.bytes = s.bytes \o data, !.position = Len(s.bytes) + Len(data)]
  BY <1>2, <1>3, <1>5, <1>6, <1>7, Zenon
<1>9. s.bytes \o data \in Seq(UByte) /\ Len(s.bytes \o data) = Len(s.bytes) + Len(data)
  BY <1>4
<1>10. /\ IsStream(w) /\ w.bytes = s.bytes \o data
       /\ w.position = Len(s.bytes) + Len(data) /\ w.bits = 0 /\ w.capacity = t.capacity
  <2> HIDE DEF w
  <2> DEFINE b == s.bytes \o data
             p == Len(s.bytes) + Len(data)
  <2>1. b \in Seq(UByte) /\ p \in Nat
    BY <1>4, <1>9
  <2> HIDE DEF b, p
  <2>2. w = [t EXCEPT !.bytes = b, !.position = p]
    BY <1>8, Zenon DEF b, p
  <2>3. t \in [bytes : Seq(UByte), capacity : {t.capacity}, position : Nat, bits : 0 .. 7]
    BY <1>2, Zenon DEF IsStream
  <2>4. w \in [bytes : Seq(UByte), capacity : {t.capacity}, position : Nat, bits : 0 .. 7]
    BY <2>1, <2>2, <2>3, Zenon
  <2>5. w.bytes = b /\ w.position = p /\ w.bits = 0 /\ w.capacity = t.capacity
    BY <1>2, <2>2, <2>3
  <2> QED
    BY <2>4, <2>5, Zenon DEF IsStream, b, p
<1>11. AtEnd(w)
  <2> HIDE DEF w
  <2> QED
    BY <1>4, <1>9, <1>10 DEF AtEnd, Begun
<1> QED
  BY <1>10, <1>11, Zenon DEF t

\* A byte lies within any weight of itself.
LEMMA WithinWeight ==
  ASSUME NEW b \in UByte, NEW w \in Nat \ {0}
  PROVE  b <= b /\ b < b + w
BY DEF UByte

\* A buffer that holds what WriteBytes has written holds what was there before,
\* and the bytes after it.
LEMMA WriteBytesHeld ==
  ASSUME NEW s, AtEnd(s), NEW data \in Seq(UByte), NEW u, Holds(u, WriteBytes(s, data))
  PROVE  /\ Holds(u, s) /\ Len(s.bytes) + Len(data) <= Len(u)
         /\ \A i \in 1 .. Len(data) : u[Len(s.bytes) + i] = data[i]
<1> DEFINE w == WriteBytes(s, data)
<1>1. /\ w.bytes = s.bytes \o data
      /\ w.position = Len(s.bytes) + Len(data) /\ w.bits = 0
  BY WriteBytesIs, Zenon
<1>2. /\ u \in Seq(UByte) /\ Len(w.bytes) <= Len(u)
      /\ \A i \in 1 .. w.position : u[i] = w.bytes[i]
  BY Zenon DEF Holds
<1> HIDE DEF w
<1>3. s.bytes \in Seq(UByte) /\ s.position \in Nat /\ s.bits \in 0 .. 7
      /\ Len(s.bytes) = s.position + Begun(s)
  BY DEF AtEnd, IsStream
<1>4. Len(s.bytes) + Len(data) <= Len(u)
  BY <1>1, <1>2, <1>3
<1>0. /\ \A i \in 1 .. Len(s.bytes) : w.bytes[i] = s.bytes[i] /\ i \in 1 .. w.position
      /\ \A i \in 1 .. Len(data) : w.bytes[Len(s.bytes) + i] = data[i] /\ Len(s.bytes) + i \in 1 .. w.position
  <2>1. Len(s.bytes) \in Nat /\ Len(data) \in Nat
    BY <1>3
  <2>2. /\ \A i \in 1 .. Len(s.bytes) : i \in 1 .. w.position
        /\ \A i \in 1 .. Len(data) : Len(s.bytes) + i \in 1 .. w.position
    BY <1>1, <2>1
  <2>3. /\ \A i \in 1 .. Len(s.bytes) : w.bytes[i] = s.bytes[i]
        /\ \A i \in 1 .. Len(data) : w.bytes[Len(s.bytes) + i] = data[i]
    <3>1. /\ \A i \in 1 .. Len(s.bytes) : (s.bytes \o data)[i] = s.bytes[i]
          /\ \A i \in 1 .. Len(data) : (s.bytes \o data)[Len(s.bytes) + i] = data[i]
      BY <1>3, JoinedAt, Zenon
    <3> QED
      BY <1>1, <3>1, Zenon
  <2> QED
    BY <2>2, <2>3, Zenon
<1>5. \A i \in 1 .. Len(s.bytes) : u[i] = s.bytes[i]
  BY <1>0, <1>2, Zenon
<1>6. \A i \in 1 .. Len(data) : u[Len(s.bytes) + i] = data[i]
  BY <1>0, <1>2, Zenon
<1>7. Holds(u, s)
  <2>1. Len(s.bytes) <= Len(u) /\ \A i \in 1 .. s.position : u[i] = s.bytes[i]
    BY <1>2, <1>3, <1>4, <1>5 DEF Begun
  <2>2. ASSUME s.bits > 0
        PROVE  /\ s.bytes[s.position + 1] <= u[s.position + 1]
               /\ u[s.position + 1] < s.bytes[s.position + 1] + Bit(s.bits - 1)
    <3>1. s.position + 1 \in 1 .. Len(s.bytes)
      BY <1>3, <2>2 DEF Begun
    <3>2. u[s.position + 1] = s.bytes[s.position + 1] /\ s.bytes[s.position + 1] \in UByte
      BY <1>3, <1>5, <3>1
    <3>3. Bit(s.bits - 1) \in Nat \ {0}
      <4>1. s.bits - 1 \in 0 .. 7
        BY <1>3, <2>2
      <4> QED
        BY <4>1, Bits, Zenon
    <3> QED
      BY <3>2, <3>3, WithinWeight, Zenon
  <2> QED
    BY <1>2, <2>1, <2>2 DEF Holds
<1> QED
  BY <1>4, <1>6, <1>7

\* ReadBytes, at the place where WriteBytes wrote, returns the bytes that were
\* written and goes on where WriteBytes went on.
LEMMA ReadBytesIs ==
  ASSUME NEW s, AtEnd(s), NEW data \in Seq(UByte), NEW u, Holds(u, WriteBytes(s, data))
  PROVE  ReadBytes(Reader(u, s), Len(data)) = Got(data, Reader(u, WriteBytes(s, data)))
<1> DEFINE w == WriteBytes(s, data)
           r == Reader(u, s)
           t == Align(r)
<1>1. w.position = Len(s.bytes) + Len(data) /\ w.bits = 0
  BY WriteBytesIs, Zenon
<1>2. /\ s.bytes \in Seq(UByte) /\ s.position \in Nat /\ s.bits \in 0 .. 7
      /\ Len(s.bytes) = s.position + Begun(s)
  BY DEF AtEnd, IsStream
<1>3. /\ Len(s.bytes) + Len(data) <= Len(u)
      /\ \A i \in 1 .. Len(data) : u[Len(s.bytes) + i] = data[i]
  BY WriteBytesHeld, ZenonT(30)
<1>4. u \in Seq(UByte)
  BY DEF Holds
<1>5. t = [bytes |-> u, capacity |-> Len(u), position |-> Len(s.bytes), bits |-> 0]
  <2>1. t = [r EXCEPT !.position = IF r.bits > 0 THEN r.position + 1 ELSE r.position, !.bits = 0]
    BY Zenon DEF Align
  <2>2. r.bits = s.bits /\ r.position = s.position
    BY DEF Reader
  <2>3. (IF r.bits > 0 THEN r.position + 1 ELSE r.position) = Len(s.bytes)
    BY <1>2, <2>2 DEF Begun
  <2>4. t = [r EXCEPT !.position = Len(s.bytes), !.bits = 0]
    BY <2>1, <2>3, Zenon
  <2> HIDE DEF t
  <2> QED
    BY <2>4, Zenon DEF Reader
<1>6. ~ IsEOF(r, Len(data))
  BY <1>2, <1>3, <1>4 DEF IsEOF, Length, Reader, Begun
<1>7. [t EXCEPT !.position = @ + Len(data)] = Reader(u, w)
  <2> HIDE DEF w, t
  <2> QED
    BY <1>1, <1>5 DEF Reader
<1>8. [k \in 1 .. Len(data) |-> Byte(t, t.position + k - 1)] = data
  <2>1. \A k \in 1 .. Len(data) : Byte(t, t.position + k - 1) = data[k]
    <3> HIDE DEF t
    <3> QED
      BY <1>2, <1>3, <1>4, <1>5, SMTT(20) DEF Byte, Length
  <2> HIDE DEF t
  <2> QED
    BY <2>1
<1> QED
  BY <1>6, <1>7, <1>8, Zenon DEF ReadBytes

\* The weights of the eight bits of a byte.
LEMMA BitCases ==
  ASSUME NEW b \in 0 .. 7
  PROVE  /\ b = 0 \/ b = 1 \/ b = 2 \/ b = 3 \/ b = 4 \/ b = 5 \/ b = 6 \/ b = 7
         /\ Bit(0) = 128 /\ Bit(1) = 64 /\ Bit(2) = 32 /\ Bit(3) = 16
         /\ Bit(4) = 8 /\ Bit(5) = 4 /\ Bit(6) = 2 /\ Bit(7) = 1
<1>1. b = 0 \/ b = 1 \/ b = 2 \/ b = 3 \/ b = 4 \/ b = 5 \/ b = 6 \/ b = 7
  OBVIOUS
<1>2. /\ Bit(0) = 128 /\ Bit(1) = 64 /\ Bit(2) = 32 /\ Bit(3) = 16
      /\ Bit(4) = 8 /\ Bit(5) = 4 /\ Bit(6) = 2 /\ Bit(7) = 1
  BY DEF Bit
<1> QED
  BY <1>1, <1>2, Zenon

\* The weight of a bit is one of eight.
LEMMA BitValue ==
  ASSUME NEW b \in 0 .. 7
  PROVE  Bit(b) \in {128, 64, 32, 16, 8, 4, 2, 1}
<1>1. b = 0 => Bit(b) \in {128, 64, 32, 16, 8, 4, 2, 1}
  BY BitCases
<1>2. b = 1 => Bit(b) \in {128, 64, 32, 16, 8, 4, 2, 1}
  BY BitCases
<1>3. b = 2 => Bit(b) \in {128, 64, 32, 16, 8, 4, 2, 1}
  BY BitCases
<1>4. b = 3 => Bit(b) \in {128, 64, 32, 16, 8, 4, 2, 1}
  BY BitCases
<1>5. b = 4 => Bit(b) \in {128, 64, 32, 16, 8, 4, 2, 1}
  BY BitCases
<1>6. b = 5 => Bit(b) \in {128, 64, 32, 16, 8, 4, 2, 1}
  BY BitCases
<1>7. b = 6 => Bit(b) \in {128, 64, 32, 16, 8, 4, 2, 1}
  BY BitCases
<1>8. b = 7 => Bit(b) \in {128, 64, 32, 16, 8, 4, 2, 1}
  BY BitCases
<1> QED
  BY BitCases, <1>1, <1>2, <1>3, <1>4, <1>5, <1>6, <1>7, <1>8, Zenon

\* A bit that is added to a byte with zeroes from there on leaves a byte with
\* zeroes after the bit.
LEMMA BitAdded ==
  ASSUME NEW b \in 0 .. 7, NEW old \in UByte, old % (2 * Bit(b)) = 0
  PROVE  old + Bit(b) \in UByte /\ old % Bit(b) = 0 /\ (old + Bit(b)) % Bit(b) = 0
BY BitCases, SMTT(20) DEF UByte

\* A bit can be told from the byte whatever bits follow it: ReadBool's mask
\* finds what WriteBool has set.
LEMMA BitTold ==
  ASSUME NEW b \in 0 .. 7, NEW old \in UByte, old % (2 * Bit(b)) = 0, NEW x \in UByte
  PROVE  /\ old <= x /\ x < old + Bit(b) => (x \div Bit(b)) % 2 = 0
         /\ old + Bit(b) <= x /\ x < old + 2 * Bit(b) => (x \div Bit(b)) % 2 = 1
<1> DEFINE w == Bit(b)
<1>1. \/ w = 128 \/ w = 64 \/ w = 32 \/ w = 16 \/ w = 8 \/ w = 4 \/ w = 2 \/ w = 1
  BY BitValue
<1>2. old % (2 * w) = 0
  OBVIOUS
<1> HIDE DEF w
<1>3. /\ old <= x /\ x < old + w => (x \div w) % 2 = 0
      /\ old + w <= x /\ x < old + 2 * w => (x \div w) % 2 = 1
  <2>1. CASE w = 128
    BY <1>2, <2>1 DEF UByte
  <2>2. CASE w = 64
    BY <1>2, <2>2 DEF UByte
  <2>3. CASE w = 32
    BY <1>2, <2>3 DEF UByte
  <2>4. CASE w = 16
    BY <1>2, <2>4 DEF UByte
  <2>5. CASE w = 8
    BY <1>2, <2>5 DEF UByte
  <2>6. CASE w = 4
    BY <1>2, <2>6 DEF UByte
  <2>7. CASE w = 2
    BY <1>2, <2>7 DEF UByte
  <2>8. CASE w = 1
    BY <1>2, <2>8 DEF UByte
  <2> QED
    BY <1>1, <2>1, <2>2, <2>3, <2>4, <2>5, <2>6, <2>7, <2>8, Zenon
<1> QED
  BY <1>3, Zenon DEF w

\* The byte that WriteBool sets a bit of.
BegunByte(s) == IF s.bits = 0 THEN 0 ELSE s.bytes[s.position + 1]

\* Of the byte that WriteBool sets a bit of, that bit and those after it are
\* zero.
LEMMA BegunByteIs ==
  ASSUME NEW s, AtEnd(s)
  PROVE  BegunByte(s) \in UByte /\ BegunByte(s) % (2 * Bit(s.bits)) = 0
<1>1. /\ s.bytes \in Seq(UByte) /\ s.position \in Nat /\ s.bits \in 0 .. 7
      /\ Len(s.bytes) = s.position + Begun(s)
      /\ s.bits > 0 => s.bytes[s.position + 1] % Bit(s.bits - 1) = 0
  BY DEF AtEnd, IsStream
<1>2. CASE s.bits = 0
  BY <1>2, BitCases DEF BegunByte, UByte
<1>3. CASE s.bits > 0
  <2>1. s.bytes[s.position + 1] \in UByte
    BY <1>1, <1>3 DEF Begun
  <2>2. Bit(s.bits - 1) = 2 * Bit(s.bits)
    <3>1. s.bits - 1 \in 0 .. 7 /\ s.bits - 1 < 7 /\ (s.bits - 1) + 1 = s.bits
      BY <1>1, <1>3
    <3> QED
      BY <3>1, Bits
  <2>3. BegunByte(s) = s.bytes[s.position + 1]
    BY <1>3 DEF BegunByte
  <2> QED
    BY <1>1, <1>3, <2>1, <2>2, <2>3, SMTT(20)
<1> QED
  BY <1>1, <1>2, <1>3

\* The last byte of a sequence replaced, or one appended to it.
LEMMA ReplacedAt ==
  ASSUME NEW a \in Seq(UByte), NEW p \in Nat, NEW x \in UByte, Len(a) = p \/ Len(a) = p + 1
  PROVE  LET b == SubSeq(a, 1, p) \o <<x>> \o SubSeq(a, p + 2, Len(a)) IN
         /\ b \in Seq(UByte) /\ Len(b) = p + 1 /\ b[p + 1] = x
         /\ \A i \in 1 .. p : b[i] = a[i]
<1>1. /\ SubSeq(a, 1, p) \in Seq(UByte) /\ Len(SubSeq(a, 1, p)) = p
      /\ \A i \in 1 .. p : SubSeq(a, 1, p)[i] = a[i]
  OBVIOUS
<1>2. SubSeq(a, p + 2, Len(a)) = <<>>
  OBVIOUS
<1> DEFINE c == SubSeq(a, 1, p)
<1> HIDE DEF c
<1>3. (c \o <<x>>) \o <<>> = c \o <<x>>
  BY <1>1 DEF c
<1>4. c \o <<x>> \in Seq(UByte) /\ Len(c \o <<x>>) = p + 1 /\ (c \o <<x>>)[p + 1] = x
  BY <1>1 DEF c
<1>5. \A i \in 1 .. p : (c \o <<x>>)[i] = c[i]
  BY <1>1 DEF c
<1> QED
  BY <1>1, <1>2, <1>3, <1>4, <1>5, Zenon DEF c

\* WriteBool on a stream that stands at its end sets one bit of the byte at its
\* position, which it begins if need be, and moves on by one bit.
LEMMA WriteBoolIs ==
  ASSUME NEW s, AtEnd(s), NEW val \in BOOLEAN
  PROVE  LET w == WriteBool(s, val)
             byte == IF val THEN BegunByte(s) + Bit(s.bits) ELSE BegunByte(s)
         IN
         /\ AtEnd(w) /\ Len(w.bytes) = s.position + 1
         /\ \A i \in 1 .. s.position : w.bytes[i] = s.bytes[i]
         /\ byte \in UByte /\ w.bytes[s.position + 1] = byte
         /\ w.position = (IF s.bits = 7 THEN s.position + 1 ELSE s.position)
         /\ w.bits = (s.bits + 1) % 8 /\ w.capacity = Ensure(s, 1).capacity
<1> DEFINE t == Ensure(s, 1)
           w == WriteBool(s, val)
           byte == IF val THEN BegunByte(s) + Bit(s.bits) ELSE BegunByte(s)
           b == SubSeq(s.bytes, 1, s.position) \o <<byte>> \o SubSeq(s.bytes, s.position + 2, Len(s.bytes))
           p == IF s.bits = 7 THEN s.position + 1 ELSE s.position
<1>1. /\ s.bytes \in Seq(UByte) /\ s.position \in Nat /\ s.bits \in 0 .. 7
      /\ Len(s.bytes) = s.position + Begun(s)
  BY DEF AtEnd, IsStream
<1>2. IsStream(t) /\ t.bits = s.bits /\ t.bytes = s.bytes /\ t.position = s.position
  BY EnsureIs, Zenon DEF AtEnd
<1>3. byte \in UByte /\ byte % Bit(s.bits) = 0
  <2>1. BegunByte(s) \in UByte /\ BegunByte(s) % (2 * Bit(s.bits)) = 0
    BY BegunByteIs, Zenon
  <2>2. /\ BegunByte(s) + Bit(s.bits) \in UByte /\ BegunByte(s) % Bit(s.bits) = 0
        /\ (BegunByte(s) + Bit(s.bits)) % Bit(s.bits) = 0
    BY <1>1, <2>1, BitAdded, Zenon
  <2> QED
    BY <2>1, <2>2, Zenon
<1> HIDE DEF byte
<1>4. b \in Seq(UByte) /\ Len(b) = s.position + 1 /\ b[s.position + 1] = byte
      /\ \A i \in 1 .. s.position : b[i] = s.bytes[i]
  <2>1. Len(s.bytes) = s.position \/ Len(s.bytes) = s.position + 1
    BY <1>1 DEF Begun
  <2> QED
    BY <1>1, <1>3, <2>1, ReplacedAt, Zenon
<1>5. w = [t EXCEPT !.bytes = b, !.position = p, !.bits = (s.bits + 1) % 8]
  BY <1>2, Zenon DEF WriteBool, BegunByte, byte
<1>6. p \in Nat /\ (s.bits + 1) % 8 \in 0 .. 7
  BY <1>1
<1> HIDE DEF b, p, t, w
<1>7. /\ IsStream(w) /\ w.bytes = b /\ w.position = p /\ w.bits = (s.bits + 1) % 8
      /\ w.capacity = t.capacity
  <2>1. t \in [bytes : Seq(UByte), capacity : {t.capacity}, position : Nat, bits : 0 .. 7]
    BY <1>2, Zenon DEF IsStream
  <2> DEFINE n == (s.bits + 1) % 8
  <2>2. n \in 0 .. 7
    BY <1>6
  <2> HIDE DEF n
  <2>3. w = [t EXCEPT !.bytes = b, !.position = p, !.bits = n]
    BY <1>5, Zenon DEF n
  <2>4. w \in [bytes : Seq(UByte), capacity : {t.capacity}, position : Nat, bits : 0 .. 7]
    BY <1>4, <1>6, <2>1, <2>2, <2>3, Zenon
  <2>5. w.bytes = b /\ w.position = p /\ w.bits = n /\ w.capacity = t.capacity
    BY <2>1, <2>3
  <2> QED
    BY <2>4, <2>5, Zenon DEF IsStream, n
<1>8. AtEnd(w)
  <2>1. CASE s.bits = 7
    <3>1. w.bits = 0 /\ w.position = s.position + 1
      BY <1>7, <2>1 DEF p
    <3> QED
      BY <1>1, <1>4, <1>7, <3>1, SMTT(20) DEF AtEnd, Begun
  <2>2. CASE s.bits # 7
    <3>1. w.bits = s.bits + 1 /\ w.position = s.position
      BY <1>1, <1>7, <2>2 DEF p
    <3>2. w.bits > 0 /\ w.bits - 1 = s.bits
      BY <1>1, <3>1
    <3>3. Len(w.bytes) = w.position + Begun(w)
      BY <1>4, <1>7, <3>1, <3>2, Zenon DEF Begun
    <3>4. w.bytes[w.position + 1] % Bit(w.bits - 1) = 0
      BY <1>3, <1>4, <1>7, <3>1, <3>2, Zenon
    <3> QED
      BY <1>7, <3>3, <3>4, Zenon DEF AtEnd
  <2> QED
    BY <2>1, <2>2
<1> QED
  BY <1>3, <1>4, <1>7, <1>8, Zenon DEF w, p, byte, t

\* Bytes are numbers.
LEMMA UByteIsNat == \A x \in UByte : x \in Nat
BY DEF UByte

\* A number within a bit's weight of a byte, with the bit or without, is within
\* twice the weight of the byte without it.
LEMMA WithinTwo ==
  ASSUME NEW old \in Nat, NEW w \in Nat, NEW x \in Nat, NEW b,
         b = old \/ b = old + w, b <= x, x < b + w
  PROVE  old <= x /\ x < old + 2 * w
OBVIOUS

\* A buffer that holds what WriteBool has written holds what was there before,
\* and has the bit, with any bits after it.
LEMMA WriteBoolHeld ==
  ASSUME NEW s, AtEnd(s), NEW val \in BOOLEAN, NEW u, Holds(u, WriteBool(s, val))
  PROVE  LET byte == IF val THEN BegunByte(s) + Bit(s.bits) ELSE BegunByte(s) IN
         /\ Holds(u, s) /\ s.position + 1 <= Len(u)
         /\ byte <= u[s.position + 1] /\ u[s.position + 1] < byte + Bit(s.bits)
<1> DEFINE w == WriteBool(s, val)
           byte == IF val THEN BegunByte(s) + Bit(s.bits) ELSE BegunByte(s)
<1>1. /\ Len(w.bytes) = s.position + 1
      /\ \A i \in 1 .. s.position : w.bytes[i] = s.bytes[i]
      /\ byte \in UByte /\ w.bytes[s.position + 1] = byte
      /\ w.position = (IF s.bits = 7 THEN s.position + 1 ELSE s.position)
      /\ w.bits = (s.bits + 1) % 8
  BY WriteBoolIs, Zenon
<1>2. /\ u \in Seq(UByte) /\ Len(w.bytes) <= Len(u)
      /\ \A i \in 1 .. w.position : u[i] = w.bytes[i]
      /\ w.bits > 0 => /\ w.bytes[w.position + 1] <= u[w.position + 1]
                       /\ u[w.position + 1] < w.bytes[w.position + 1] + Bit(w.bits - 1)
  BY Zenon DEF Holds
<1> HIDE DEF w
<1>3. /\ s.bytes \in Seq(UByte) /\ s.position \in Nat /\ s.bits \in 0 .. 7
      /\ Len(s.bytes) = s.position + Begun(s)
  BY DEF AtEnd, IsStream
<1>4. s.position + 1 <= Len(u) /\ u[s.position + 1] \in UByte
  BY <1>1, <1>2, <1>3
<1>5. \A i \in 1 .. s.position : u[i] = s.bytes[i]
  <2>1. \A i \in 1 .. s.position : i \in 1 .. w.position
    BY <1>1, <1>3
  <2> QED
    BY <1>1, <1>2, <2>1, Zenon
<1>6. byte <= u[s.position + 1] /\ u[s.position + 1] < byte + Bit(s.bits)
  <2>1. CASE s.bits = 7
    <3>1. w.position = s.position + 1 /\ s.position + 1 \in 1 .. s.position + 1
      BY <1>1, <1>3, <2>1
    <3>2. u[s.position + 1] = byte
      BY <1>1, <1>2, <3>1, Zenon
    <3>3. Bit(s.bits) \in Nat \ {0}
      BY <1>3, Bits, Zenon
    <3> QED
      BY <1>1, <3>2, <3>3, WithinWeight, Zenon
  <2>2. CASE s.bits # 7
    <3>1. w.position = s.position /\ w.bits > 0 /\ w.bits - 1 = s.bits
      BY <1>1, <1>3, <2>2
    <3> QED
      BY <1>1, <1>2, <3>1, Zenon
  <2> QED
    BY <2>1, <2>2
<1>7. ASSUME s.bits > 0
      PROVE  /\ s.bytes[s.position + 1] <= u[s.position + 1]
             /\ u[s.position + 1] < s.bytes[s.position + 1] + Bit(s.bits - 1)
  <2>1. BegunByte(s) = s.bytes[s.position + 1]
    BY <1>3, <1>7 DEF BegunByte
  <2>2. BegunByte(s) \in UByte /\ Bit(s.bits) \in Nat
    BY <1>3, BegunByteIs, Bits, Zenon
  <2>3. Bit(s.bits - 1) = 2 * Bit(s.bits)
    <3>1. s.bits - 1 \in 0 .. 7 /\ s.bits - 1 < 7 /\ (s.bits - 1) + 1 = s.bits
      BY <1>3, <1>7
    <3> QED
      BY <3>1, Bits
  <2>4. byte = BegunByte(s) \/ byte = BegunByte(s) + Bit(s.bits)
    BY Zenon
  <2> HIDE DEF byte
  <2>5. BegunByte(s) <= u[s.position + 1] /\ u[s.position + 1] < BegunByte(s) + 2 * Bit(s.bits)
    <3>1. BegunByte(s) \in Nat /\ u[s.position + 1] \in Nat
      BY <1>4, <2>2, UByteIsNat, Zenon
    <3> QED
      BY <1>6, <2>2, <2>4, <3>1, WithinTwo, Zenon
  <2> QED
    BY <2>1, <2>3, <2>5, Zenon
<1>8. Len(s.bytes) <= Len(u)
  BY <1>2, <1>3, <1>4 DEF Begun
<1>9. Holds(u, s)
  BY <1>2, <1>5, <1>7, <1>8, Zenon DEF Holds
<1> QED
  BY <1>4, <1>6, <1>9, Zenon

\* ReadBool, at the place where WriteBool wrote, returns the bit that was
\* written and goes on where WriteBool went on.
LEMMA ReadBoolIs ==
  ASSUME NEW s, AtEnd(s), NEW val \in BOOLEAN, NEW u, Holds(u, WriteBool(s, val))
  PROVE  ReadBool(Reader(u, s)) = Got(val, Reader(u, WriteBool(s, val)))
<1> DEFINE w == WriteBool(s, val)
           old == BegunByte(s)
           x == u[s.position + 1]
           r == Reader(u, s)
<1>1. /\ w.position = (IF s.bits = 7 THEN s.position + 1 ELSE s.position)
      /\ w.bits = (s.bits + 1) % 8
  BY WriteBoolIs, Zenon
<1>2. s.position \in Nat /\ s.bits \in 0 .. 7
  BY DEF AtEnd, IsStream
<1>3. /\ s.position + 1 <= Len(u)
      /\ (IF val THEN old + Bit(s.bits) ELSE old) <= x
      /\ x < (IF val THEN old + Bit(s.bits) ELSE old) + Bit(s.bits)
  BY WriteBoolHeld, Zenon
<1>4. old \in UByte /\ old % (2 * Bit(s.bits)) = 0 /\ Bit(s.bits) \in Nat
  BY <1>2, BegunByteIs, Bits, Zenon
<1>5. u \in Seq(UByte) /\ Len(u) \in Nat
  BY DEF Holds
<1>6. x \in UByte
  BY <1>2, <1>3, <1>5
<1>7. ((x \div Bit(s.bits)) % 2 = 1) = val
  <2> HIDE DEF x, old
  <2>1. CASE val = TRUE
    <3>1. old + Bit(s.bits) <= x /\ x < old + 2 * Bit(s.bits)
      BY <1>3, <1>4, <1>6, <2>1, SMTT(20) DEF UByte
    <3> QED
      BY <1>2, <1>4, <1>6, <2>1, <3>1, BitTold, Zenon
  <2>2. CASE val = FALSE
    <3>1. old <= x /\ x < old + Bit(s.bits)
      BY <1>3, <2>2, Zenon
    <3>2. (x \div Bit(s.bits)) % 2 = 0
      BY <1>2, <1>4, <1>6, <3>1, BitTold, Zenon
    <3>3. (x \div Bit(s.bits)) % 2 # 1
      BY <3>2
    <3> QED
      BY <2>2, <3>3, Zenon
  <2> QED
    BY <2>1, <2>2, Zenon
<1>8. r.bits = s.bits /\ r.position = s.position /\ r.bytes = u
  BY DEF Reader
<1>9. ~ IsEOF(r, 1)
  BY <1>2, <1>3, <1>5, <1>8 DEF IsEOF, Length
<1>10. Byte(r, r.position) = x
  BY <1>2, <1>3, <1>5, <1>8, SMTT(20) DEF Byte, Length
<1>11. [r EXCEPT !.position = IF r.bits = 7 THEN r.position + 1 ELSE r.position,
                 !.bits = (r.bits + 1) % 8] = Reader(u, w)
  <2> DEFINE p == IF r.bits = 7 THEN r.position + 1 ELSE r.position
             n == (r.bits + 1) % 8
  <2>1. w.position = p /\ w.bits = n
    BY <1>1, <1>8, Zenon
  <2>2. r = [bytes |-> u, capacity |-> Len(u), position |-> s.position, bits |-> s.bits]
    BY Zenon DEF Reader
  <2>3. Reader(u, w) = [bytes |-> u, capacity |-> Len(u), position |-> p, bits |-> n]
    BY <2>1, Zenon DEF Reader
  <2> HIDE DEF w, r, p, n
  <2>4. [r EXCEPT !.position = p, !.bits = n] = Reader(u, w)
    <3>1. [r EXCEPT !.position = p, !.bits = n]
            = [bytes |-> u, capacity |-> Len(u), position |-> p, bits |-> n]
      <4> DEFINE m == [r EXCEPT !.position = p, !.bits = n]
      <4>1. r \in [bytes : {u}, capacity : {Len(u)}, position : {s.position}, bits : {s.bits}]
        BY <2>2
      <4>2. m \in [bytes : {u}, capacity : {Len(u)}, position : {p}, bits : {n}]
        BY <4>1, Zenon
      <4> HIDE DEF m
      <4>3. m = [bytes |-> u, capacity |-> Len(u), position |-> p, bits |-> n]
        BY <4>2
      <4> QED
        BY <4>3, Zenon DEF m
    <3> QED
      BY <2>3, <3>1, Zenon
  <2> QED
    BY <2>4, Zenon DEF p, n
<1> HIDE DEF x, w, r
<1>12. ReadBool(r) = Got((Byte(r, r.position) \div Bit(r.bits)) % 2 = 1,
                         [r EXCEPT !.position = IF r.bits = 7 THEN r.position + 1 ELSE r.position,
                                   !.bits = (r.bits + 1) % 8])
  BY <1>9, Zenon DEF ReadBool
<1>13. ((Byte(r, r.position) \div Bit(r.bits)) % 2 = 1) = val
  BY <1>7, <1>8, <1>10, Zenon
<1>14. ReadBool(r) = Got(val, Reader(u, w))
  BY <1>11, <1>12, <1>13, Zenon
<1> QED
  BY <1>14, Zenon DEF r, w

\* The numbers of 16 and of 32 bits.
UInt16 == {v \in Nat : v < 65536}
UInt32 == {v \in Nat : v < 4294967296}

\* A number of 32 bits is made of its four bytes.
LEMMA Word ==
  ASSUME NEW v \in UInt32, NEW a, NEW b, NEW c, NEW d,
         a = v \div 16777216, b = (v \div 65536) % 256, c = (v \div 256) % 256, d = v % 256
  PROVE  /\ a \in UByte /\ b \in UByte /\ c \in UByte /\ d \in UByte
         /\ v = 256 * (256 * (256 * a + b) + c) + d
<1> DEFINE x == v \div 256
           y == v \div 65536
<1>1. v \in Nat /\ v < 4294967296
  BY SMT DEF UInt32
<1>2. x \in Nat /\ y \in Nat /\ y = x \div 256 /\ a = y \div 256
  BY <1>1, SMT
<1>3. v = 256 * x + d /\ d \in UByte
  BY <1>1, SMT DEF UByte
<1>4. x = 256 * y + c /\ c \in UByte
  BY <1>2, SMTT(20) DEF UByte
<1>5. y = 256 * a + b /\ b \in UByte
  <2>1. a = y \div 256 /\ b = y % 256 /\ y \in Nat
    BY <1>2, SMT
  <2> HIDE DEF y
  <2> QED
    BY <2>1, SMT DEF UByte
<1>6. a \in UByte
  BY <1>1, SMT DEF UByte
<1> HIDE DEF x, y
<1> QED
  BY <1>2, <1>3, <1>4, <1>5, <1>6, SMTT(20)

\* The numbers up to k, their maximum, and those below it.
LEMMA FirstOf ==
  ASSUME NEW n \in Nat, NEW k \in 1 .. n
  PROVE  /\ 1 .. k \in SUBSET (1 .. n) /\ 1 .. k # {}
         /\ Max(1 .. k) = k /\ (1 .. k) \ {k} = 1 .. k - 1
<1>1. \A i \in 1 .. k : i \in 1 .. n
  OBVIOUS
<1>2. 1 \in 1 .. k
  OBVIOUS
<1>3. Max(1 .. k) = k
  <2>1. k - 1 \in Nat /\ (k - 1) + 1 = k /\ k \in 1 .. k
    OBVIOUS
  <2> QED
    BY <2>1, MaxUpTo, Zenon
<1>4. (1 .. k) \ {k} = 1 .. k - 1
  OBVIOUS
<1> QED
  BY <1>1, <1>2, <1>3, <1>4, Zenon

\* The steps of the folds: that of ReadUInt, that of Read7BitEncodedInt, and those
\* of PutAll and GetAll.
Shift8(n, b) == 256 * n + b

Snippet(got, i) ==
  LET r == ReadByte(got.rest) IN
  IF ~ got.more THEN got
  ELSE [value |-> got.value + (r.value % 128) * Shifted7(i), rest |-> r.rest, more |-> r.value >= 128]

Turn(kinds, st, k) ==
  IF ~ st.ok \/ kinds[k] = "none" THEN st
  ELSE IF 0 > 0 /\ IsEOF(st.rest, 0) THEN [st EXCEPT !.ok = FALSE]
  ELSE [st EXCEPT !.value[k] = Get(st.rest, kinds[k]).value, !.rest = Get(st.rest, kinds[k]).rest]

Step(what, par, acc, x) ==
  CASE what = "number" -> Shift8(acc, x)
    [] what = "7bit"   -> Snippet(acc, x)
    [] what = "put"    -> Put(acc, x)
    [] what = "get"    -> Turn(par, acc, x)

\* InTurn, from b on, over the first n elements of q.
IsFold(g, what, par, b, q, n) ==
  g = [x \in SUBSET (1 .. n) |-> IF x = {} THEN b ELSE Step(what, par, g[x \ {Max(x)}], q[Max(x)])]

\* There is a function that goes through a sequence with any of the four steps.
LEMMA FoldExists ==
  ASSUME NEW what, NEW par, NEW b, NEW q, NEW n \in Nat
  PROVE  \E g : IsFold(g, what, par, b, q, n)
<1> DEFINE T == {k \in Nat : \E g : IsFold(g, what, par, b, q, k)}
<1>1. 0 \in T
  <2> DEFINE g == [x \in SUBSET (1 .. 0) |-> b]
  <2>1. \A x \in SUBSET (1 .. 0) : x = {}
    OBVIOUS
  <2>2. IsFold(g, what, par, b, q, 0)
    BY <2>1, Zenon DEF IsFold
  <2> QED
    BY <2>2
<1>2. ASSUME NEW k \in 0 .. n - 1, k \in T PROVE k + 1 \in T
  <2>1. PICK h : IsFold(h, what, par, b, q, k)
    BY <1>2, Zenon
  <2>2. k \in Nat /\ k + 1 \in Nat
    OBVIOUS
  <2> DEFINE g == [x \in SUBSET (1 .. k + 1) |->
                     IF k + 1 \in x THEN Step(what, par, h[x \ {k + 1}], q[k + 1]) ELSE h[x]]
  <2>3. ASSUME NEW x \in SUBSET (1 .. k + 1), x # {}
        PROVE  g[x] = Step(what, par, g[x \ {Max(x)}], q[Max(x)])
    <3>1. x \ {Max(x)} \in SUBSET (1 .. k + 1)
      BY Zenon
    <3>2. CASE k + 1 \in x
      <4>1. Max(x) = k + 1
        BY <2>2, <3>2, MaxUpTo, Zenon
      <4>2. g[x] = Step(what, par, h[x \ {k + 1}], q[k + 1])
        BY <3>2, Zenon
      <4>3. g[x \ {k + 1}] = h[x \ {k + 1}]
        BY <3>1, <4>1, Zenon
      <4> QED
        BY <4>1, <4>2, <4>3, Zenon
    <3>3. CASE k + 1 \notin x
      <4>1. x \in SUBSET (1 .. k)
        BY <2>2, <3>3
      <4>2. g[x] = h[x]
        BY <3>3, Zenon
      <4>3. h[x] = Step(what, par, h[x \ {Max(x)}], q[Max(x)])
        BY <2>1, <2>3, <4>1, Zenon DEF IsFold
      <4>4. g[x \ {Max(x)}] = h[x \ {Max(x)}]
        BY <3>1, <3>3, Zenon
      <4> QED
        BY <4>2, <4>3, <4>4, Zenon
    <3> QED
      BY <3>2, <3>3, Zenon
  <2>4. g[{}] = b
    <3>1. {} \in SUBSET (1 .. k) /\ {} \in SUBSET (1 .. k + 1)
      BY Zenon
    <3>2. h[{}] = b
      BY <2>1, <3>1, Zenon DEF IsFold
    <3> QED
      BY <3>1, <3>2, Zenon
  <2>5. g = [x \in SUBSET (1 .. k + 1) |-> g[x]]
    BY Zenon
  <2> HIDE DEF g
  <2>6. IsFold(g, what, par, b, q, k + 1)
    BY <2>3, <2>4, <2>5, Zenon DEF IsFold
  <2> QED
    BY <2>2, <2>6
<1> HIDE DEF T
<1>3. n \in T
  <2>1. \A k \in 0 .. n : k \in T
    BY <1>1, <1>2, UpTo
  <2> QED
    BY <2>1
<1> QED
  BY <1>3, Zenon DEF T

\* Such a function, and its value after k elements.
FoldOf(what, par, b, q, n) == CHOOSE g : IsFold(g, what, par, b, q, n)
FoldUpTo(what, par, b, q, n, k) == FoldOf(what, par, b, q, n)[1 .. k]

\* A fold starts with b and goes on with the elements in their order.
IsInOrder(what, par, b, q, n) ==
  /\ FoldUpTo(what, par, b, q, n, 0) = b
  /\ \A k \in 1 .. n : FoldUpTo(what, par, b, q, n, k)
                         = Step(what, par, FoldUpTo(what, par, b, q, n, k - 1), q[k])

\* The fold goes through the sequence from its beginning.
LEMMA FoldSteps ==
  ASSUME NEW what, NEW par, NEW b, NEW q, NEW n \in Nat
  PROVE  IsInOrder(what, par, b, q, n)
<1> DEFINE g == FoldOf(what, par, b, q, n)
<1>1. IsFold(g, what, par, b, q, n)
  BY FoldExists, Zenon DEF FoldOf
<1> HIDE DEF g
<1>2. {} \in SUBSET (1 .. n) /\ 1 .. 0 = {}
  OBVIOUS
<1>3. g[1 .. 0] = b
  BY <1>1, <1>2, Zenon DEF IsFold
<1>4. ASSUME NEW k \in 1 .. n PROVE g[1 .. k] = Step(what, par, g[1 .. k - 1], q[k])
  <2>1. 1 .. k \in SUBSET (1 .. n) /\ 1 .. k # {} /\ Max(1 .. k) = k /\ (1 .. k) \ {k} = 1 .. k - 1
    BY FirstOf, Zenon
  <2>2. g[1 .. k] = Step(what, par, g[(1 .. k) \ {Max(1 .. k)}], q[Max(1 .. k)])
    BY <1>1, <2>1, Zenon DEF IsFold
  <2> QED
    BY <2>1, <2>2, Zenon
<1> QED
  BY <1>3, <1>4, Zenon DEF g, FoldUpTo, IsInOrder

\* The number that ReadUInt makes of bytes, and of the first k of them.
Number(q) == InTurn(LAMBDA n, b : 256 * n + b, 0, q)
NumberUpTo(q, n, k) == FoldUpTo("number", 0, 0, q, n, k)

\* ReadUInt's number is made byte by byte, the most significant first.
LEMMA NumberSteps ==
  ASSUME NEW q, NEW n \in Nat, DOMAIN q = 1 .. n
  PROVE  /\ Number(q) = NumberUpTo(q, n, n) /\ NumberUpTo(q, n, 0) = 0
         /\ \A k \in 1 .. n : NumberUpTo(q, n, k) = Shift8(NumberUpTo(q, n, k - 1), q[k])
<1>1. Number(q) = (CHOOSE g : g = [x \in SUBSET (DOMAIN q) |->
                     IF x = {} THEN 0 ELSE Shift8(g[x \ {Max(x)}], q[Max(x)])])[DOMAIN q]
  BY Zenon DEF Number, InTurn, MapThenFoldSet, Shift8
<1>2. Number(q) = NumberUpTo(q, n, n)
  BY <1>1, ZenonT(30) DEF NumberUpTo, FoldUpTo, FoldOf, IsFold, Step
<1>3. \A acc, x : Step("number", 0, acc, x) = Shift8(acc, x)
  BY DEF Step
<1>4. /\ NumberUpTo(q, n, 0) = 0
      /\ \A k \in 1 .. n : NumberUpTo(q, n, k) = Step("number", 0, NumberUpTo(q, n, k - 1), q[k])
  <2>1. IsInOrder("number", 0, 0, q, n)
    BY FoldSteps, Zenon
  <2> QED
    BY <2>1, Zenon DEF IsInOrder, NumberUpTo
<1>5. ASSUME NEW k \in 1 .. n PROVE NumberUpTo(q, n, k) = Shift8(NumberUpTo(q, n, k - 1), q[k])
  <2>1. NumberUpTo(q, n, k) = Step("number", 0, NumberUpTo(q, n, k - 1), q[k])
    BY <1>4, Zenon
  <2>2. Step("number", 0, NumberUpTo(q, n, k - 1), q[k]) = Shift8(NumberUpTo(q, n, k - 1), q[k])
    BY <1>3, Zenon
  <2> QED
    BY <2>1, <2>2, Zenon
<1> QED
  BY <1>2, <1>4, <1>5, Zenon

\* The stream after the first k of n fields.
Written(s, fields, n, k) == FoldUpTo("put", 0, s, fields, n, k)

\* The fields are written one after the other.
IsWritten(s, fields, n) ==
  /\ PutAll(s, fields) = Written(s, fields, n, n) /\ Written(s, fields, n, 0) = s
  /\ \A k \in 1 .. n : Written(s, fields, n, k) = Put(Written(s, fields, n, k - 1), fields[k])

\* PutAll writes the fields one after the other.
LEMMA PutAllSteps ==
  ASSUME NEW s, NEW fields, NEW n \in Nat, DOMAIN fields = 1 .. n
  PROVE  IsWritten(s, fields, n)
<1>1. PutAll(s, fields)
        = (CHOOSE g : g = [x \in SUBSET (DOMAIN fields) |->
                             IF x = {} THEN s ELSE Put(g[x \ {Max(x)}], fields[Max(x)])])[DOMAIN fields]
  BY Zenon DEF PutAll, InTurn, MapThenFoldSet
<1>2. PutAll(s, fields) = FoldUpTo("put", 0, s, fields, n, n)
  BY <1>1, ZenonT(30) DEF FoldUpTo, FoldOf, IsFold, Step
<1>3. \A acc, x : Step("put", 0, acc, x) = Put(acc, x)
  BY DEF Step
<1>4. /\ FoldUpTo("put", 0, s, fields, n, 0) = s
      /\ \A k \in 1 .. n : FoldUpTo("put", 0, s, fields, n, k)
                             = Step("put", 0, FoldUpTo("put", 0, s, fields, n, k - 1), fields[k])
  <2>1. IsInOrder("put", 0, s, fields, n)
    BY FoldSteps, Zenon
  <2> QED
    BY <2>1, Zenon DEF IsInOrder
<1>5. ASSUME NEW k \in 1 .. n
      PROVE  FoldUpTo("put", 0, s, fields, n, k) = Put(FoldUpTo("put", 0, s, fields, n, k - 1), fields[k])
  <2> DEFINE before == FoldUpTo("put", 0, s, fields, n, k - 1)
  <2>1. FoldUpTo("put", 0, s, fields, n, k) = Step("put", 0, before, fields[k])
    BY <1>4, Zenon
  <2>2. Step("put", 0, before, fields[k]) = Put(before, fields[k])
    BY <1>3, Zenon
  <2> QED
    BY <2>1, <2>2, Zenon
<1> QED
  <2>1. \A k : Written(s, fields, n, k) = FoldUpTo("put", 0, s, fields, n, k)
    BY Zenon DEF Written
  <2>2. Written(s, fields, n, 0) = s
    BY <1>4, <2>1, Zenon
  <2>3. PutAll(s, fields) = Written(s, fields, n, n)
    BY <1>2, <2>1, Zenon
  <2>4. ASSUME NEW k \in 1 .. n
        PROVE  Written(s, fields, n, k) = Put(Written(s, fields, n, k - 1), fields[k])
    BY <1>5, <2>1, Zenon
  <2> QED
    BY <2>2, <2>3, <2>4, Zenon DEF IsWritten

\* The states of Read7BitEncodedInt and of GetAll.
At7Bit(s, k) ==
  FoldUpTo("7bit", 0, [value |-> 0, rest |-> s, more |-> TRUE], <<0, 1, 2, 3, 4>>, 5, k)
AtField(s, kinds, n, k) ==
  FoldUpTo("get", kinds, [ok |-> TRUE, value |-> [j \in DOMAIN kinds |-> 0], rest |-> s],
           [j \in DOMAIN kinds |-> j], n, k)

\* Read7BitEncodedInt reads up to five bytes, one after the other.
LEMMA Read7BitSteps ==
  ASSUME NEW s
  PROVE  /\ Read7BitEncodedInt(s) = At7Bit(s, 5)
         /\ At7Bit(s, 0) = [value |-> 0, rest |-> s, more |-> TRUE]
         /\ \A k \in 1 .. 5 : At7Bit(s, k) = Snippet(At7Bit(s, k - 1), k - 1)
<1> DEFINE q == <<0, 1, 2, 3, 4>>
           b == [value |-> 0, rest |-> s, more |-> TRUE]
<1>1. DOMAIN q = 1 .. 5
  OBVIOUS
<1>2. \A k \in 1 .. 5 : q[k] = k - 1
  OBVIOUS
<1>3. Read7BitEncodedInt(s)
        = (CHOOSE g : g = [x \in SUBSET (DOMAIN q) |->
                             IF x = {} THEN b ELSE Snippet(g[x \ {Max(x)}], q[Max(x)])])[DOMAIN q]
  BY Zenon DEF Read7BitEncodedInt, InTurn, MapThenFoldSet, Snippet
<1> HIDE DEF q, b
<1>4. Read7BitEncodedInt(s) = FoldUpTo("7bit", 0, b, q, 5, 5)
  BY <1>1, <1>3, ZenonT(30) DEF FoldUpTo, FoldOf, IsFold, Step
<1>5. \A acc, x : Step("7bit", 0, acc, x) = Snippet(acc, x)
  BY DEF Step
<1>6. 5 \in Nat
  OBVIOUS
<1>7. /\ FoldUpTo("7bit", 0, b, q, 5, 0) = b
      /\ \A k \in 1 .. 5 : FoldUpTo("7bit", 0, b, q, 5, k)
                             = Step("7bit", 0, FoldUpTo("7bit", 0, b, q, 5, k - 1), q[k])
  <2>1. IsInOrder("7bit", 0, b, q, 5)
    BY <1>6, FoldSteps, Zenon
  <2> QED
    BY <2>1, Zenon DEF IsInOrder
<1>8. \A k : At7Bit(s, k) = FoldUpTo("7bit", 0, b, q, 5, k)
  BY Zenon DEF At7Bit, q, b
<1>9. b = [value |-> 0, rest |-> s, more |-> TRUE]
  BY Zenon DEF b
<1>10. \A k \in 1 .. 5 : At7Bit(s, k) = Snippet(At7Bit(s, k - 1), k - 1)
  BY <1>2, <1>5, <1>7, <1>8, Zenon
<1> QED
  BY <1>4, <1>7, <1>8, <1>9, <1>10, Zenon

\* The fields are read one after the other.
IsRead(s, kinds, n) ==
  /\ GetAll(s, kinds) = AtField(s, kinds, n, n)
  /\ AtField(s, kinds, n, 0) = [ok |-> TRUE, value |-> [j \in 1 .. n |-> 0], rest |-> s]
  /\ \A k \in 1 .. n : AtField(s, kinds, n, k) = Turn(kinds, AtField(s, kinds, n, k - 1), k)

\* GetAll reads the fields one after the other.
LEMMA GetAllSteps ==
  ASSUME NEW s, NEW kinds, NEW n \in Nat, DOMAIN kinds = 1 .. n
  PROVE  IsRead(s, kinds, n)
<1> DEFINE q == [j \in DOMAIN kinds |-> j]
           b == [ok |-> TRUE, value |-> [j \in DOMAIN kinds |-> 0], rest |-> s]
<1>1. DOMAIN q = 1 .. n
  BY Zenon
<1>2. \A k \in 1 .. n : q[k] = k
  BY Zenon
<1>3. GetAll(s, kinds)
        = (CHOOSE g : g = [x \in SUBSET (DOMAIN q) |->
                             IF x = {} THEN b ELSE Turn(kinds, g[x \ {Max(x)}], q[Max(x)])])[DOMAIN q]
  BY Zenon DEF GetAll, GetRecord, InTurn, MapThenFoldSet, Turn
<1>4. \A k : AtField(s, kinds, n, k) = FoldUpTo("get", kinds, b, q, n, k)
  BY Zenon DEF AtField
<1>5. b = [ok |-> TRUE, value |-> [j \in 1 .. n |-> 0], rest |-> s]
  BY Zenon
<1> HIDE DEF q, b
<1>6. GetAll(s, kinds) = FoldUpTo("get", kinds, b, q, n, n)
  BY <1>1, <1>3, Zenon DEF FoldUpTo, FoldOf, IsFold, Step
<1>7. \A acc, x : Step("get", kinds, acc, x) = Turn(kinds, acc, x)
  BY DEF Step
<1>8. /\ FoldUpTo("get", kinds, b, q, n, 0) = b
      /\ \A k \in 1 .. n : FoldUpTo("get", kinds, b, q, n, k)
                             = Step("get", kinds, FoldUpTo("get", kinds, b, q, n, k - 1), q[k])
  <2>1. IsInOrder("get", kinds, b, q, n)
    BY FoldSteps, Zenon
  <2> QED
    BY <2>1, Zenon DEF IsInOrder
<1>9. ASSUME NEW k \in 1 .. n
      PROVE  AtField(s, kinds, n, k) = Turn(kinds, AtField(s, kinds, n, k - 1), k)
  <2> DEFINE before == FoldUpTo("get", kinds, b, q, n, k - 1)
  <2>1. FoldUpTo("get", kinds, b, q, n, k) = Step("get", kinds, before, q[k])
    BY <1>8, Zenon
  <2>2. Step("get", kinds, before, q[k]) = Turn(kinds, before, q[k])
    BY <1>7, Zenon
  <2>3. q[k] = k /\ AtField(s, kinds, n, k - 1) = before
    BY <1>2, <1>4, Zenon
  <2>4. AtField(s, kinds, n, k) = FoldUpTo("get", kinds, b, q, n, k)
    BY <1>4, Zenon
  <2> QED
    BY <2>1, <2>2, <2>3, <2>4, Zenon
<1>10. AtField(s, kinds, n, 0) = [ok |-> TRUE, value |-> [j \in 1 .. n |-> 0], rest |-> s]
  BY <1>4, <1>5, <1>8, Zenon
<1>11. GetAll(s, kinds) = AtField(s, kinds, n, n)
  BY <1>4, <1>6, Zenon
<1> QED
  BY <1>9, <1>10, <1>11, Zenon DEF IsRead

\* The number in two bytes.
LEMMA NumberOfTwo ==
  ASSUME NEW q, NEW n \in Nat, n = 2, DOMAIN q = 1 .. n, q[1] \in UByte
  PROVE  Number(q) = Shift8(q[1], q[2])
<1>1. /\ Number(q) = NumberUpTo(q, n, n) /\ NumberUpTo(q, n, 0) = 0
      /\ \A k \in 1 .. n : NumberUpTo(q, n, k) = Shift8(NumberUpTo(q, n, k - 1), q[k])
  BY NumberSteps, Zenon
<1>2. 1 \in 1 .. n /\ 2 \in 1 .. n /\ 1 - 1 = 0 /\ 2 - 1 = 1
  OBVIOUS
<1>3. Shift8(0, q[1]) = q[1]
  BY SMT DEF Shift8, UByte
<1>4. NumberUpTo(q, n, 1) = q[1]
  BY <1>1, <1>2, <1>3, Zenon
<1> QED
  BY <1>1, <1>2, <1>4, Zenon

\* The number in four bytes.
LEMMA NumberOfFour ==
  ASSUME NEW q, NEW n \in Nat, n = 4, DOMAIN q = 1 .. n, q[1] \in UByte
  PROVE  Number(q) = Shift8(Shift8(Shift8(q[1], q[2]), q[3]), q[4])
<1>1. /\ Number(q) = NumberUpTo(q, n, n) /\ NumberUpTo(q, n, 0) = 0
      /\ \A k \in 1 .. n : NumberUpTo(q, n, k) = Shift8(NumberUpTo(q, n, k - 1), q[k])
  BY NumberSteps, Zenon
<1>2. /\ 1 \in 1 .. n /\ 2 \in 1 .. n /\ 3 \in 1 .. n /\ 4 \in 1 .. n
      /\ 1 - 1 = 0 /\ 2 - 1 = 1 /\ 3 - 1 = 2 /\ 4 - 1 = 3
  OBVIOUS
<1>3. Shift8(0, q[1]) = q[1]
  BY SMT DEF Shift8, UByte
<1>4. NumberUpTo(q, n, 1) = q[1]
  BY <1>1, <1>2, <1>3, Zenon
<1>5. NumberUpTo(q, n, 2) = Shift8(q[1], q[2])
  BY <1>1, <1>2, <1>4, Zenon
<1>6. NumberUpTo(q, n, 3) = Shift8(Shift8(q[1], q[2]), q[3])
  BY <1>1, <1>2, <1>5, Zenon
<1> QED
  BY <1>1, <1>2, <1>6, Zenon

\* A number written in q is read from it.
LEMMA ReadUIntIs ==
  ASSUME NEW s, AtEnd(s), NEW q \in Seq(UByte), Len(q) > 0, NEW u, Holds(u, WriteBytes(s, q))
  PROVE  ReadUInt(Reader(u, s), Len(q)) = Got(Number(q), Reader(u, WriteBytes(s, q)))
<1> DEFINE r == ReadBytes(Reader(u, s), Len(q))
<1>1. r = Got(q, Reader(u, WriteBytes(s, q)))
  BY ReadBytesIs, Zenon
<1>2. r.value = q /\ r.rest = Reader(u, WriteBytes(s, q))
  <2> HIDE DEF r
  <2> QED
    BY <1>1 DEF Got
<1>3. q # <<>>
  OBVIOUS
<1>4. ReadUInt(Reader(u, s), Len(q))
        = Got(IF r.value = <<>> THEN Garbage ELSE Number(r.value), r.rest)
  BY Zenon DEF ReadUInt, Number
<1> HIDE DEF r
<1> QED
  BY <1>2, <1>3, <1>4, Zenon

\* The bytes that WriteInt16 writes.
Bytes16(val) == <<(val \div 256) % 256, val % 256>>

\* The two bytes that WriteInt16 writes are those of its number.
LEMMA Bytes16Is ==
  ASSUME NEW val \in UInt16
  PROVE  Bytes16(val) \in Seq(UByte) /\ Len(Bytes16(val)) = 2 /\ Number(Bytes16(val)) = val
<1> DEFINE a == (val \div 256) % 256
           b == val % 256
           q == <<a, b>>
<1>1. val \in Nat /\ val < 65536
  BY SMT DEF UInt16
<1>2. a \in UByte /\ b \in UByte /\ val = 256 * a + b
  BY <1>1, SMT DEF UByte
<1> HIDE DEF a, b
<1>3. q \in Seq(UByte) /\ Len(q) = 2 /\ q[1] = a /\ q[2] = b /\ DOMAIN q = 1 .. Len(q)
  BY <1>2
<1> HIDE DEF q
<1>4. Number(q) = Shift8(a, b)
  <2>1. Len(q) \in Nat
    BY <1>3
  <2> QED
    BY <1>2, <1>3, <2>1, NumberOfTwo, Zenon
<1>5. Number(q) = val
  BY <1>2, <1>4, SMT DEF Shift8
<1> QED
  BY <1>3, <1>5, Zenon DEF Bytes16, q, a, b

\* The four bytes that WriteInt32 writes are those of its number.
LEMMA Int32Is ==
  ASSUME NEW val \in UInt32
  PROVE  Int32(val) \in Seq(UByte) /\ Len(Int32(val)) = 4 /\ Number(Int32(val)) = val
<1> DEFINE a == val \div 16777216
           b == (val \div 65536) % 256
           c == (val \div 256) % 256
           d == val % 256
           q == <<a, b, c, d>>
<1>1. /\ a \in UByte /\ b \in UByte /\ c \in UByte /\ d \in UByte
      /\ val = Shift8(Shift8(Shift8(a, b), c), d)
  BY Word, SMT DEF Shift8
<1>2. Int32(val) = q
  BY SMT DEF Int32
<1> HIDE DEF a, b, c, d
<1>3. /\ q \in Seq(UByte) /\ Len(q) = 4 /\ DOMAIN q = 1 .. Len(q)
      /\ q[1] = a /\ q[2] = b /\ q[3] = c /\ q[4] = d
  BY <1>1
<1> HIDE DEF q
<1>4. Number(q) = Shift8(Shift8(Shift8(a, b), c), d)
  <2>1. Len(q) \in Nat
    BY <1>3
  <2> QED
    BY <1>1, <1>3, <2>1, NumberOfFour, Zenon
<1>5. Number(q) = val
  BY <1>1, <1>4, Zenon
<1> QED
  BY <1>2, <1>3, <1>5, Zenon

\* A stream that wraps u and has read p bytes of it.
RawReader(u, p) == [bytes |-> u, capacity |-> Len(u), position |-> p, bits |-> 0]

\* A reader that aligns itself stands after the byte that was begun.
LEMMA AlignedReader ==
  ASSUME NEW u, NEW s, s.position \in Nat, s.bits \in 0 .. 7
  PROVE  Align(Reader(u, s)) = RawReader(u, s.position + Begun(s))
<1> DEFINE r == Reader(u, s)
           p == s.position + Begun(s)
           m == [r EXCEPT !.position = p, !.bits = 0]
<1>1. r.bits = s.bits /\ r.position = s.position
  BY DEF Reader
<1>2. (IF r.bits > 0 THEN r.position + 1 ELSE r.position) = p
  BY <1>1 DEF Begun
<1>3. Align(r) = m
  <2>1. Align(r) = [r EXCEPT !.position = IF r.bits > 0 THEN r.position + 1 ELSE r.position, !.bits = 0]
    BY Zenon DEF Align
  <2> QED
    BY <1>2, <2>1, Zenon
<1>4. r \in [bytes : {u}, capacity : {Len(u)}, position : {s.position}, bits : {s.bits}]
  BY DEF Reader
<1>5. m \in [bytes : {u}, capacity : {Len(u)}, position : {p}, bits : {0}]
  <2> HIDE DEF r, p
  <2> QED
    BY <1>4, Zenon
<1> HIDE DEF m, p
<1>6. m = [bytes |-> u, capacity |-> Len(u), position |-> p, bits |-> 0]
  BY <1>5
<1> QED
  BY <1>3, <1>6, Zenon DEF RawReader, p

\* ReadByte returns the byte after the one that was begun.
LEMMA ReadByteIs ==
  ASSUME NEW u \in Seq(UByte), NEW s, s.position \in Nat, s.bits \in 0 .. 7,
         NEW p, p = s.position + Begun(s), p < Len(u)
  PROVE  ReadByte(Reader(u, s)) = Got(u[p + 1], RawReader(u, p + 1))
<1> DEFINE r == Reader(u, s)
           t == Align(r)
           m == [t EXCEPT !.position = t.position + 1]
<1>1. t = RawReader(u, p)
  BY AlignedReader, Zenon
<1>2. p \in Nat /\ Len(u) \in Nat /\ s.position <= p
  BY DEF Begun
<1>3. ~ IsEOF(r, 1)
  BY <1>2 DEF IsEOF, Length, Reader
<1>4. Byte(t, t.position) = u[p + 1]
  <2> HIDE DEF t
  <2> QED
    BY <1>1, <1>2 DEF Byte, Length, RawReader
<1>5. m = RawReader(u, p + 1)
  <2> HIDE DEF t
  <2> QED
    BY <1>1 DEF RawReader
<1>6. ReadByte(r) = Got(Byte(t, t.position), m)
  BY <1>3, Zenon DEF ReadByte
<1> QED
  BY <1>4, <1>5, <1>6, Zenon

\* The numbers of 31 bits, the nonnegative ones of an int.
Int31 == {v \in Nat : v < 2147483648}

\* The bytes that Write7BitEncodedInt writes after the first, the digits they hold,
\* the number below a digit, the bytes themselves.
More7(val) == {k \in 1 .. 4 : val >= Shifted7(k)}
Digit7(val, k) == (val \div Shifted7(k)) % 128
Low7(val, k) == val % Shifted7(k)
Snip7(val, k) == Digit7(val, k) + (IF k + 1 \in More7(val) THEN 128 ELSE 0)
Bytes7(val) == [k \in 1 .. Max({0} \cup More7(val)) + 1 |-> Snip7(val, k - 1)]

\* The weights of the five digits that Write7BitEncodedInt writes.
LEMMA Shifted7Is ==
  /\ Shifted7(0) = 1 /\ Shifted7(1) = 128 /\ Shifted7(2) = 16384
  /\ Shifted7(3) = 2097152 /\ Shifted7(4) = 268435456
BY SMT DEF Shifted7

\* The digits that Write7BitEncodedInt writes after the first are those up to
\* the last that is not zero.
LEMMA More7Is ==
  ASSUME NEW val \in Int31
  PROVE  \E m \in 0 .. 4 : /\ More7(val) = 1 .. m /\ Max({0} \cup More7(val)) = m
                           /\ m < 4 => val < Shifted7(m + 1)
<1>1. val \in Nat
  BY SMT DEF Int31
<1>2. \A m \in 0 .. 4 : Max({0} \cup (1 .. m)) = m
  <2> TAKE m \in 0 .. 4
  <2> DEFINE s == {0} \cup (1 .. m)
  <2>1. m \in s /\ \A y \in s : m >= y
    OBVIOUS
  <2>2. Max(s) \in s /\ \A y \in s : Max(s) >= y
    <3> HIDE DEF s
    <3> QED
      BY <2>1, Zenon DEF Max
  <2>3. Max(s) >= m /\ m >= Max(s) /\ Max(s) \in Nat
    <3>1. \A y \in s : y \in Nat
      OBVIOUS
    <3> HIDE DEF s
    <3> QED
      BY <2>1, <2>2, <3>1, Zenon
  <2> QED
    BY <2>3
<1>3. \E m \in 0 .. 4 : More7(val) = 1 .. m /\ (m < 4 => val < Shifted7(m + 1))
  <2>1. \A k \in 1 .. 4 : k \in More7(val) <=> val >= Shifted7(k)
    BY Zenon DEF More7
  <2>2. More7(val) \subseteq 1 .. 4
    BY Zenon DEF More7
  <2>3. CASE val < 128
    BY <1>1, <2>1, <2>2, <2>3, Shifted7Is, SMTT(20)
  <2>4. CASE val >= 128 /\ val < 16384
    BY <1>1, <2>1, <2>2, <2>4, Shifted7Is, SMTT(20)
  <2>5. CASE val >= 16384 /\ val < 2097152
    BY <1>1, <2>1, <2>2, <2>5, Shifted7Is, SMTT(20)
  <2>6. CASE val >= 2097152 /\ val < 268435456
    BY <1>1, <2>1, <2>2, <2>6, Shifted7Is, SMTT(20)
  <2>7. CASE val >= 268435456
    BY <1>1, <2>1, <2>2, <2>7, Shifted7Is, SMTT(20)
  <2> QED
    BY <1>1, <2>3, <2>4, <2>5, <2>6, <2>7, SMT
<1> QED
  BY <1>2, <1>3, Zenon

\* A number is the sum of its digits of seven bits, each times its weight, the
\* leading zeroes left out.
LEMMA Digits7 ==
  ASSUME NEW val \in Int31
  PROVE  /\ Low7(val, 0) = 0
         /\ \A k \in 0 .. 3 : Low7(val, k + 1) = Low7(val, k) + Digit7(val, k) * Shifted7(k)
         /\ \A m \in 0 .. 4 : (m < 4 => val < Shifted7(m + 1))
                                => val = Low7(val, m) + Digit7(val, m) * Shifted7(m)
<1>1. val \in Nat /\ val < 2147483648
  BY SMT DEF Int31
<1>2. Low7(val, 0) = 0
  BY <1>1, Shifted7Is, SMT DEF Low7
<1>3. Low7(val, 0 + 1) = Low7(val, 0) + Digit7(val, 0) * Shifted7(0)
  BY <1>1, Shifted7Is, SMTT(20) DEF Low7, Digit7
<1>4. Low7(val, 1 + 1) = Low7(val, 1) + Digit7(val, 1) * Shifted7(1)
  BY <1>1, Shifted7Is, SMTT(20) DEF Low7, Digit7
<1>5. Low7(val, 2 + 1) = Low7(val, 2) + Digit7(val, 2) * Shifted7(2)
  BY <1>1, Shifted7Is, SMTT(20) DEF Low7, Digit7
<1>6. Low7(val, 3 + 1) = Low7(val, 3) + Digit7(val, 3) * Shifted7(3)
  BY <1>1, Shifted7Is, SMTT(20) DEF Low7, Digit7
<1>7. val < Shifted7(0 + 1) => val = Low7(val, 0) + Digit7(val, 0) * Shifted7(0)
  BY <1>1, Shifted7Is, SMTT(20) DEF Low7, Digit7
<1>8. val < Shifted7(1 + 1) => val = Low7(val, 1) + Digit7(val, 1) * Shifted7(1)
  <2> SUFFICES ASSUME val < Shifted7(1 + 1) PROVE val = Low7(val, 1) + Digit7(val, 1) * Shifted7(1)
    BY SMT
  <2> DEFINE top == val \div 128
  <2>1. top \in Nat /\ top < 128
    BY <1>1, Shifted7Is, SMT
  <2>2. val = (val % 128) + top * 128
    BY <1>1, SMT
  <2>3. top % 128 = top
    <3> HIDE DEF top
    <3> QED
      BY <2>1, SMT
  <2>4. Low7(val, 1) = val % 128 /\ Digit7(val, 1) = top % 128
    BY Shifted7Is, SMT DEF Low7, Digit7
  <2> HIDE DEF top
  <2> QED
    BY <2>2, <2>3, <2>4, Shifted7Is, SMT
<1>9. val < Shifted7(2 + 1) => val = Low7(val, 2) + Digit7(val, 2) * Shifted7(2)
  <2> SUFFICES ASSUME val < Shifted7(2 + 1) PROVE val = Low7(val, 2) + Digit7(val, 2) * Shifted7(2)
    BY SMT
  <2> DEFINE top == val \div 16384
  <2>1. top \in Nat /\ top < 128
    BY <1>1, Shifted7Is, SMTT(20)
  <2>2. val = (val % 16384) + top * 16384
    BY <1>1, SMT
  <2>3. top % 128 = top
    <3> HIDE DEF top
    <3> QED
      BY <2>1, SMT
  <2>4. Low7(val, 2) = val % 16384 /\ Digit7(val, 2) = top % 128
    BY Shifted7Is, SMT DEF Low7, Digit7
  <2> HIDE DEF top
  <2> QED
    BY <2>2, <2>3, <2>4, Shifted7Is, SMT
<1>10. val < Shifted7(3 + 1) => val = Low7(val, 3) + Digit7(val, 3) * Shifted7(3)
  <2> SUFFICES ASSUME val < Shifted7(3 + 1) PROVE val = Low7(val, 3) + Digit7(val, 3) * Shifted7(3)
    BY SMT
  <2> DEFINE top == val \div 2097152
  <2>1. top \in Nat /\ top < 128
    BY <1>1, Shifted7Is, SMT
  <2>2. val = (val % 2097152) + top * 2097152
    BY <1>1, SMT
  <2>3. top % 128 = top
    <3> HIDE DEF top
    <3> QED
      BY <2>1, SMTT(20)
  <2>4. Low7(val, 3) = val % 2097152 /\ Digit7(val, 3) = top % 128
    BY Shifted7Is, SMTT(20) DEF Low7, Digit7
  <2> HIDE DEF top
  <2> QED
    BY <2>2, <2>3, <2>4, Shifted7Is, SMTT(20)
<1>11. val = Low7(val, 4) + Digit7(val, 4) * Shifted7(4)
  <2> DEFINE top == val \div 268435456
  <2>1. top \in Nat /\ top < 128
    BY <1>1, Shifted7Is, SMTT(20)
  <2>2. val = (val % 268435456) + top * 268435456
    BY <1>1, SMTT(20)
  <2>3. top % 128 = top
    <3> HIDE DEF top
    <3> QED
      BY <2>1, SMT
  <2>4. Low7(val, 4) = val % 268435456 /\ Digit7(val, 4) = top % 128
    BY Shifted7Is, SMT DEF Low7, Digit7
  <2> HIDE DEF top
  <2> QED
    BY <2>2, <2>3, <2>4, Shifted7Is, SMTT(20)
<1>12. \A k \in 0 .. 3 : Low7(val, k + 1) = Low7(val, k) + Digit7(val, k) * Shifted7(k)
  BY <1>3, <1>4, <1>5, <1>6, SMTT(20)
<1>13. ASSUME NEW m \in 0 .. 4, m < 4 => val < Shifted7(m + 1)
       PROVE  val = Low7(val, m) + Digit7(val, m) * Shifted7(m)
  <2>1. m = 0 \/ m = 1 \/ m = 2 \/ m = 3 \/ m = 4
    OBVIOUS
  <2> QED
    BY <1>7, <1>8, <1>9, <1>10, <1>11, <1>13, <2>1, SMTT(20)
<1> QED
  BY <1>2, <1>12, <1>13, Zenon

\* A byte of Write7BitEncodedInt holds its digit, and its top bit says whether
\* another follows.
LEMMA Snip7Is ==
  ASSUME NEW val \in Int31, NEW k \in 0 .. 4
  PROVE  /\ Snip7(val, k) \in UByte /\ Snip7(val, k) % 128 = Digit7(val, k)
         /\ (Snip7(val, k) >= 128) = (k + 1 \in More7(val))
<1>1. Shifted7(k) \in Nat \ {0}
  <2>1. k = 0 \/ k = 1 \/ k = 2 \/ k = 3 \/ k = 4
    OBVIOUS
  <2> QED
    BY <2>1, Shifted7Is, SMTT(20)
<1>2. val \in Nat
  BY SMT DEF Int31
<1>3. Digit7(val, k) \in 0 .. 127
  <2> DEFINE d == val \div Shifted7(k)
  <2>1. d \in Nat
    BY <1>1, <1>2, SMTT(20)
  <2> HIDE DEF d
  <2>2. d % 128 \in 0 .. 127
    BY <2>1, SMTT(20)
  <2> QED
    BY <2>2, Zenon DEF Digit7, d
<1>4. CASE k + 1 \in More7(val)
  <2>1. Snip7(val, k) = Digit7(val, k) + 128
    BY <1>4, SMTT(20) DEF Snip7
  <2> QED
    BY <1>3, <1>4, <2>1, SMTT(20) DEF UByte
<1>5. CASE k + 1 \notin More7(val)
  <2>1. Snip7(val, k) = Digit7(val, k)
    BY <1>3, <1>5, SMTT(20) DEF Snip7
  <2> QED
    BY <1>3, <1>5, <2>1, SMTT(20) DEF UByte
<1> QED
  BY <1>4, <1>5, SMTT(20)

\* The bytes of Write7BitEncodedInt, one for each digit.
LEMMA Bytes7Is ==
  ASSUME NEW val \in Int31, NEW m \in 0 .. 4, Max({0} \cup More7(val)) = m
  PROVE  /\ Bytes7(val) \in Seq(UByte) /\ Len(Bytes7(val)) = m + 1
         /\ \A k \in 0 .. m : Bytes7(val)[k + 1] = Snip7(val, k)
<1>1. Bytes7(val) = [k \in 1 .. m + 1 |-> Snip7(val, k - 1)]
  BY Zenon DEF Bytes7
<1>2. \A k \in 1 .. m + 1 : k - 1 \in 0 .. 4 /\ m + 1 \in Nat
  OBVIOUS
<1>3. \A k \in 1 .. m + 1 : Snip7(val, k - 1) \in UByte
  BY <1>2, Snip7Is, Zenon
<1>4. \A k \in 0 .. m : k + 1 \in 1 .. m + 1 /\ (k + 1) - 1 = k
  OBVIOUS
<1> QED
  BY <1>1, <1>3, <1>4, SMTT(20)

\* Write7BitEncodedInt writes these bytes.
LEMMA Write7BitIs ==
  ASSUME NEW s, NEW val
  PROVE  Write7BitEncodedInt(s, val) = WriteBytes(s, Bytes7(val))
BY Zenon DEF Write7BitEncodedInt, Bytes7, Snip7, More7, Digit7

\* A turn of Read7BitEncodedInt's loop adds the digit it reads, with its weight.
LEMMA SnippetIs ==
  ASSUME NEW v, NEW r, NEW i, NEW x, NEW rest, ReadByte(r) = Got(x, rest),
         NEW y, y = v + (x % 128) * Shifted7(i), NEW more, more = (x >= 128)
  PROVE  Snippet([value |-> v, rest |-> r, more |-> TRUE], i) = [value |-> y, rest |-> rest, more |-> more]
<1> DEFINE got == [value |-> v, rest |-> r, more |-> TRUE]
<1>1. got.value = v /\ got.rest = r /\ got.more = TRUE
  BY Zenon
<1>2. Got(x, rest).value = x /\ Got(x, rest).rest = rest
  BY DEF Got
<1>3. ReadByte(r).value = x /\ ReadByte(r).rest = rest
  BY <1>2, Zenon
<1> QED
  <2> HIDE DEF got
  <2>1. Snippet(got, i) = [value |-> got.value + (ReadByte(got.rest).value % 128) * Shifted7(i),
                           rest |-> ReadByte(got.rest).rest,
                           more |-> ReadByte(got.rest).value >= 128]
    BY <1>1, Zenon DEF Snippet
  <2>2. Snippet(got, i) = [value |-> y, rest |-> rest, more |-> more]
    BY <1>1, <1>3, <2>1, Zenon
  <2> QED
    BY <2>2, Zenon DEF got

\* A turn after the last byte changes nothing.
LEMMA SnippetDone ==
  ASSUME NEW got, got.more = FALSE, NEW i
  PROVE  Snippet(got, i) = got
BY Zenon DEF Snippet

\* Read7BitEncodedInt, at the place where Write7BitEncodedInt wrote, returns the
\* number that was written, for each of the numbers of 31 bits.
LEMMA Read7BitValue ==
  ASSUME NEW s, AtEnd(s), NEW val \in Int31, NEW u, Holds(u, Write7BitEncodedInt(s, val))
  PROVE  Read7BitEncodedInt(Reader(u, s))
           = [value |-> val, rest |-> Reader(u, Write7BitEncodedInt(s, val)), more |-> FALSE]
<1> DEFINE q == Bytes7(val)
           w == Write7BitEncodedInt(s, val)
           p == Len(s.bytes)
           r == Reader(u, s)
<1>1. PICK m \in 0 .. 4 : /\ More7(val) = 1 .. m /\ Max({0} \cup More7(val)) = m
                          /\ m < 4 => val < Shifted7(m + 1)
  BY More7Is
<1>2. /\ q \in Seq(UByte) /\ Len(q) = m + 1
      /\ \A k \in 0 .. m : q[k + 1] = Snip7(val, k)
  BY <1>1, Bytes7Is, Zenon
<1>3. w = WriteBytes(s, q)
  BY Write7BitIs, Zenon
<1>4. /\ u \in Seq(UByte) /\ p + Len(q) <= Len(u)
      /\ \A i \in 1 .. Len(q) : u[p + i] = q[i]
      /\ w.position = p + Len(q) /\ w.bits = 0
  <2> HIDE DEF q, w
  <2>1. Holds(u, WriteBytes(s, q))
    BY <1>3, Zenon DEF w
  <2>2. p + Len(q) <= Len(u) /\ \A i \in 1 .. Len(q) : u[p + i] = q[i]
    BY <1>2, <2>1, WriteBytesHeld, ZenonT(30)
  <2>3. w.position = p + Len(q) /\ w.bits = 0
    BY <1>2, <1>3, WriteBytesIs, Zenon
  <2> QED
    BY <2>1, <2>2, <2>3, Zenon DEF Holds
<1>5. p \in Nat /\ s.position \in Nat /\ s.bits \in 0 .. 7 /\ p = s.position + Begun(s)
  BY DEF AtEnd, IsStream
<1> DEFINE Here(k) == IF k = 0 THEN r ELSE RawReader(u, p + k)
<1>6. ASSUME NEW k \in 0 .. m
      PROVE  ReadByte(Here(k)) = Got(Snip7(val, k), RawReader(u, p + (k + 1)))
  <2>1. u[(p + k) + 1] = Snip7(val, k) /\ p + k < Len(u) /\ p + k \in Nat
        /\ (p + k) + 1 = p + (k + 1)
    <3>1. k + 1 \in 1 .. Len(q) /\ p + (k + 1) = (p + k) + 1 /\ p + k \in Nat
      BY <1>2, <1>5, SMTT(20)
    <3>2. u[p + (k + 1)] = q[k + 1] /\ q[k + 1] = Snip7(val, k)
      BY <1>2, <1>4, <3>1, Zenon
    <3>3. p + k < Len(u)
      BY <1>2, <1>4, <1>5, SMTT(20)
    <3> QED
      BY <3>1, <3>2, <3>3, Zenon
  <2>2. CASE k = 0
    <3>1. p + k = p
      BY <1>5, <2>2
    <3>2. ReadByte(r) = Got(u[p + 1], RawReader(u, p + 1))
      <4>1. p < Len(u)
        BY <2>1, <3>1, Zenon
      <4> HIDE DEF p
      <4> QED
        BY <1>4, <1>5, <4>1, ReadByteIs, Zenon
    <3> QED
      BY <2>1, <2>2, <3>1, <3>2, Zenon
  <2>3. CASE k # 0
    <3> DEFINE a == RawReader(u, p + k)
    <3>1. a = Reader(u, a) /\ a.position = p + k /\ a.bits = 0
      BY DEF RawReader, Reader
    <3> HIDE DEF a
    <3>2. a.position \in Nat /\ a.bits \in 0 .. 7 /\ p + k = a.position + Begun(a)
      BY <2>1, <3>1, SMTT(20) DEF Begun
    <3>3. ReadByte(Reader(u, a)) = Got(u[(p + k) + 1], RawReader(u, (p + k) + 1))
      BY <1>4, <2>1, <3>2, ReadByteIs, Zenon
    <3>4. Here(k) = a
      BY <2>3, Zenon DEF a
    <3> QED
      BY <2>1, <3>1, <3>3, <3>4, Zenon
  <2> QED
    BY <2>2, <2>3, Zenon
<1> DEFINE Going(k) == [value |-> Low7(val, k), rest |-> Here(k), more |-> TRUE]
           Done == [value |-> val, rest |-> RawReader(u, p + (m + 1)), more |-> FALSE]
<1> HIDE DEF Here, w, q, p
<1>7. \A k \in 1 .. 5 : At7Bit(r, k) = Snippet(At7Bit(r, k - 1), k - 1)
  BY Read7BitSteps, Zenon
<1>8. At7Bit(r, 0) = Going(0)
  <2>1. Here(0) = r
    BY Zenon DEF Here
  <2> QED
    BY <2>1, Read7BitSteps, Digits7, Zenon
<1>9. ASSUME NEW k \in 0 .. m, At7Bit(r, k) = Going(k)
      PROVE  At7Bit(r, k + 1) = IF k < m THEN Going(k + 1) ELSE Done
  <2>1. k \in 0 .. 4 /\ k + 1 \in 1 .. 5 /\ (k + 1) - 1 = k
    OBVIOUS
  <2>2. At7Bit(r, k + 1) = Snippet(Going(k), k)
    BY <1>7, <1>9, <2>1, Zenon
  <2>3. Snip7(val, k) % 128 = Digit7(val, k) /\ (Snip7(val, k) >= 128) = (k + 1 \in More7(val))
    BY <2>1, Snip7Is, Zenon
  <2>4. Low7(val, k) + Digit7(val, k) * Shifted7(k) = Low7(val, k) + (Snip7(val, k) % 128) * Shifted7(k)
    BY <2>3, Zenon
  <2>5. Snippet(Going(k), k)
          = [value |-> Low7(val, k) + Digit7(val, k) * Shifted7(k),
             rest |-> RawReader(u, p + (k + 1)), more |-> k + 1 \in More7(val)]
    <3> DEFINE v == Low7(val, k)
               y == Low7(val, k) + Digit7(val, k) * Shifted7(k)
               x == Snip7(val, k)
               here == Here(k)
               rest == RawReader(u, p + (k + 1))
               more == k + 1 \in More7(val)
    <3>1. ReadByte(here) = Got(x, rest) /\ y = v + (x % 128) * Shifted7(k) /\ more = (x >= 128)
      BY <1>6, <2>3, <2>4, Zenon
    <3> HIDE DEF v, x, y, here, rest, more
    <3>2. Snippet([value |-> v, rest |-> here, more |-> TRUE], k)
            = [value |-> y, rest |-> rest, more |-> more]
      BY <3>1, SnippetIs, SMTT(20)
    <3> QED
      BY <3>2, Zenon DEF v, x, y, here, rest, more
  <2>6. CASE k < m
    <3>1. k \in 0 .. 3 /\ k + 1 \in 1 .. m /\ k + 1 # 0
      BY <2>6
    <3>2. Low7(val, k + 1) = Low7(val, k) + Digit7(val, k) * Shifted7(k)
      BY <3>1, Digits7, Zenon
    <3>3. (k + 1 \in More7(val)) = TRUE
      BY <1>1, <3>1, Zenon
    <3>4. Here(k + 1) = RawReader(u, p + (k + 1))
      BY <3>1, Zenon DEF Here
    <3>5. Snippet(Going(k), k) = Going(k + 1)
      BY <2>5, <3>2, <3>3, <3>4, Zenon
    <3> QED
      BY <2>2, <2>6, <3>5, Zenon
  <2>7. CASE ~ (k < m)
    <3>1. k = m /\ ~ (k + 1 \in 1 .. m)
      BY <2>7
    <3>2. val = Low7(val, k) + Digit7(val, k) * Shifted7(k)
      <4>1. val = Low7(val, m) + Digit7(val, m) * Shifted7(m)
        BY <1>1, Digits7, Zenon
      <4> QED
        BY <3>1, <4>1, Zenon
    <3>3. (k + 1 \in More7(val)) = FALSE
      <4>1. More7(val) = 1 .. m /\ ~ (k + 1 \in 1 .. m)
        BY <1>1, <3>1
      <4> QED
        BY <4>1
    <3> DEFINE v == Low7(val, k) + Digit7(val, k) * Shifted7(k)
               more == k + 1 \in More7(val)
               rest == RawReader(u, p + (k + 1))
    <3>a. Snippet(Going(k), k) = [value |-> v, rest |-> rest, more |-> more]
      BY <2>5, Zenon
    <3>b. val = v /\ more = FALSE /\ rest = RawReader(u, p + (m + 1))
      BY <3>1, <3>2, <3>3, Zenon
    <3> HIDE DEF v, more, rest
    <3>4. Snippet(Going(k), k) = Done
      BY <3>a, <3>b, Zenon
    <3> QED
      BY <2>2, <2>7, <3>4, Zenon
  <2> QED
    BY <2>6, <2>7
<1>10. \A k : Done.more = FALSE /\ Snippet(Done, k) = Done
  <2>1. Done.more = FALSE
    BY Zenon
  <2> HIDE DEF Done
  <2> QED
    BY <2>1, SnippetDone, Zenon
<1>11. At7Bit(r, 5) = Done
  <2> DEFINE T == {k \in Nat : At7Bit(r, k) = IF k <= m THEN Going(k) ELSE Done}
  <2>1. 0 \in T
    BY <1>8
  <2>2. ASSUME NEW k \in 0 .. 5 - 1, k \in T PROVE k + 1 \in T
    <3>1. k + 1 \in 1 .. 5 /\ (k + 1) - 1 = k /\ k + 1 \in Nat
      OBVIOUS
    <3>2. CASE k <= m
      <4>1. k \in 0 .. m /\ At7Bit(r, k) = Going(k)
        BY <2>2, <3>2, SMTT(20)
      <4>2. At7Bit(r, k + 1) = IF k < m THEN Going(k + 1) ELSE Done
        BY <1>9, <4>1, Zenon
      <4>3. k < m <=> k + 1 <= m
        OBVIOUS
      <4> HIDE DEF Going, Done
      <4> QED
        BY <3>1, <4>2, <4>3, Zenon
    <3>3. CASE ~ (k <= m)
      <4>1. At7Bit(r, k) = Done /\ ~ (k + 1 <= m)
        BY <2>2, <3>3
      <4>2. At7Bit(r, k + 1) = Done
        BY <1>7, <1>10, <3>1, <4>1, Zenon
      <4> HIDE DEF Going, Done
      <4> QED
        BY <3>1, <4>1, <4>2, Zenon
    <3> QED
      BY <3>2, <3>3, Zenon
  <2> HIDE DEF T
  <2>3. 5 \in T
    <3>1. 5 \in Nat /\ 5 \in 0 .. 5
      OBVIOUS
    <3> QED
      BY <2>1, <2>2, <3>1, UpTo, SMTT(20)
  <2>4. ~ (5 <= m)
    OBVIOUS
  <2> QED
    BY <2>3, <2>4, Zenon DEF T
<1>12. Reader(u, w) = RawReader(u, p + (m + 1))
  <2>1. w.position = p + (m + 1) /\ w.bits = 0
    BY <1>2, <1>4, Zenon
  <2> QED
    BY <2>1, Zenon DEF Reader, RawReader
<1>13. Read7BitEncodedInt(r) = Done
  BY <1>11, Read7BitSteps, Zenon
<1> QED
  BY <1>12, <1>13, Zenon DEF w

\* ToNextPowerOfTwo does not go below its argument, as long as that is the
\* length of a packet.
LEMMA NextPowerIs ==
  ASSUME NEW n \in Nat, n <= PACKET_MAX_LENGTH
  PROVE  ToNextPowerOfTwo(n) \in Nat /\ n <= ToNextPowerOfTwo(n)
<1> DEFINE S == {m \in PowersOfTwo : m >= n}
<1>1. PowersOfTwo \subseteq Nat /\ PACKET_MAX_LENGTH \in PowersOfTwo /\ PACKET_MAX_LENGTH \in Nat
  <2>1. PACKET_MAX_LENGTH \in Nat
    BY SMT DEF PACKET_MAX_LENGTH
  <2>2. PACKET_MAX_LENGTH \in PowersOfTwo
    BY SMT DEF PowersOfTwo, PACKET_MAX_LENGTH
  <2>3. ASSUME NEW m \in PowersOfTwo PROVE m \in Nat
    BY SMTT(20) DEF PowersOfTwo
  <2> QED
    BY <2>1, <2>2, <2>3, Zenon
<1>2. S \subseteq Nat /\ PACKET_MAX_LENGTH \in S
  <2>1. PACKET_MAX_LENGTH >= n
    BY <1>1
  <2> QED
    BY <1>1, <2>1, Zenon
<1>3. \A m \in S : m >= n
  BY Zenon
<1> HIDE DEF S
<1>4. \E m \in S : \A k \in S : m <= k
  BY <1>2, LeastExists, Zenon
<1>5. Min(S) \in S
  BY <1>4, Zenon DEF Min
<1>6. CASE n = 0
  <2>1. ToNextPowerOfTwo(n) = 0
    BY <1>6, Zenon DEF ToNextPowerOfTwo
  <2> QED
    BY <1>6, <2>1
<1>7. CASE n # 0
  <2>1. ToNextPowerOfTwo(n) = Min(S)
    BY <1>7, Zenon DEF ToNextPowerOfTwo, S
  <2> QED
    <3>1. Min(S) \in Nat /\ Min(S) >= n
      BY <1>2, <1>3, <1>5, Zenon
    <3> QED
      BY <2>1, <3>1
<1> QED
  BY <1>6, <1>7

\* The greater of two numbers.
LEMMA MaxOfTwo ==
  ASSUME NEW a \in Nat, NEW b \in Nat
  PROVE  Max({a, b}) \in Nat /\ a <= Max({a, b}) /\ b <= Max({a, b})
<1>1. \E x \in {a, b} : \A y \in {a, b} : x >= y
  OBVIOUS
<1>2. Max({a, b}) \in {a, b} /\ \A y \in {a, b} : Max({a, b}) >= y
  BY <1>1, Zenon DEF Max
<1> QED
  BY <1>2

\* Ensure leaves room for what is about to be written, as long as that fits a
\* packet.
LEMMA EnsureRoom ==
  ASSUME NEW s, IsStream(s), NEW n \in Nat, s.capacity \in Nat, s.position + n <= PACKET_MAX_LENGTH
  PROVE  Ensure(s, n).capacity \in Nat /\ s.position + n <= Ensure(s, n).capacity
<1>1. s.position \in Nat /\ s.position + n \in Nat
  BY DEF IsStream
<1>2. CASE s.capacity - s.position >= n
  <2>1. Ensure(s, n) = s
    BY <1>2, Zenon DEF Ensure
  <2> QED
    BY <1>1, <1>2, <2>1
<1>3. CASE ~ (s.capacity - s.position >= n)
  <2> DEFINE c == ToNextPowerOfTwo(s.position + n)
             m == Max({c, 1})
             r == [s EXCEPT !.capacity = m]
  <2>1. Ensure(s, n) = r
    BY <1>3, Zenon DEF Ensure, Reallocate
  <2>2. c \in Nat /\ s.position + n <= c
    BY <1>1, NextPowerIs, Zenon
  <2> HIDE DEF c
  <2>3. m \in Nat /\ c <= m
    BY <2>2, MaxOfTwo, SMTT(20)
  <2> HIDE DEF m
  <2>4. r.capacity = m
    BY DEF IsStream
  <2> HIDE DEF r
  <2> QED
    BY <1>1, <2>1, <2>2, <2>3, <2>4, SMTT(20)
<1> QED
  BY <1>2, <1>3

\* What was written fits the buffer, as long as it fits a packet.
Roomy(s) == Len(s.bytes) <= PACKET_MAX_LENGTH => s.capacity \in Nat /\ Len(s.bytes) <= s.capacity

\* WriteBytes writes within the buffer.
LEMMA WriteBytesRoom ==
  ASSUME NEW s, AtEnd(s), Roomy(s), NEW data \in Seq(UByte)
  PROVE  Roomy(WriteBytes(s, data))
<1> DEFINE a == Align(s)
           n == Len(data)
           w == WriteBytes(s, data)
<1>1. IsStream(a) /\ a.position = Len(s.bytes) /\ a.capacity = s.capacity
  BY AlignIs, Zenon DEF AtEnd
<1>2. w.bytes = s.bytes \o data /\ w.capacity = Ensure(a, n).capacity
  BY WriteBytesIs, Zenon
<1>3. s.bytes \in Seq(UByte)
  BY DEF AtEnd, IsStream
<1>4. Len(w.bytes) = Len(s.bytes) + n /\ Len(s.bytes) \in Nat /\ n \in Nat
  BY <1>2, <1>3, JoinedAt, Zenon
<1> HIDE DEF a, n, w
<1>5. PACKET_MAX_LENGTH \in Nat
  BY SMT DEF PACKET_MAX_LENGTH
<1>6. ASSUME Len(w.bytes) <= PACKET_MAX_LENGTH
      PROVE  w.capacity \in Nat /\ Len(w.bytes) <= w.capacity
  <2>1. Len(s.bytes) <= PACKET_MAX_LENGTH
    BY <1>4, <1>5, <1>6, SMTT(20)
  <2>2. a.capacity \in Nat /\ a.position + n <= PACKET_MAX_LENGTH
    BY <1>1, <1>4, <1>6, <2>1, Zenon DEF Roomy
  <2>3. Ensure(a, n).capacity \in Nat /\ a.position + n <= Ensure(a, n).capacity
    BY <1>1, <1>4, <2>2, EnsureRoom, Zenon
  <2> QED
    BY <1>1, <1>2, <1>4, <2>3, Zenon
<1> QED
  BY <1>6, Zenon DEF Roomy, w

\* WriteBool writes within the buffer.
LEMMA WriteBoolRoom ==
  ASSUME NEW s, AtEnd(s), Roomy(s), NEW val \in BOOLEAN
  PROVE  Roomy(WriteBool(s, val))
<1> DEFINE w == WriteBool(s, val)
<1>1. /\ IsStream(s) /\ s.position \in Nat /\ Len(s.bytes) \in Nat
      /\ Len(s.bytes) <= s.position + 1
  BY DEF AtEnd, IsStream, Begun
<1>2. Len(w.bytes) = s.position + 1 /\ w.capacity = Ensure(s, 1).capacity
  BY WriteBoolIs, Zenon
<1> HIDE DEF w
<1>3. PACKET_MAX_LENGTH \in Nat
  BY SMT DEF PACKET_MAX_LENGTH
<1>4. ASSUME Len(w.bytes) <= PACKET_MAX_LENGTH
      PROVE  w.capacity \in Nat /\ Len(w.bytes) <= w.capacity
  <2>1. Len(s.bytes) <= PACKET_MAX_LENGTH
    BY <1>1, <1>2, <1>3, <1>4, SMTT(20)
  <2>2. s.capacity \in Nat /\ s.position + 1 <= PACKET_MAX_LENGTH
    BY <1>2, <1>4, <2>1, Zenon DEF Roomy
  <2>3. 1 \in Nat
    OBVIOUS
  <2>4. Ensure(s, 1).capacity \in Nat /\ s.position + 1 <= Ensure(s, 1).capacity
    BY <1>1, <2>2, <2>3, EnsureRoom, Zenon
  <2> QED
    BY <1>2, <2>4, Zenon
<1> QED
  BY <1>4, Zenon DEF Roomy, w

\* What one write does to a stream that stands at its end: it stands at its end
\* again, at most n bytes further on, and a buffer that holds what it has written
\* holds what was there before.
Follows(s, w, n) ==
  /\ AtEnd(w) /\ (Roomy(s) => Roomy(w)) /\ Len(w.bytes) <= Len(s.bytes) + n
  /\ \A u : Holds(u, w) => Holds(u, s)

\* WriteBytes goes on from the end of the stream.
LEMMA BytesFollow ==
  ASSUME NEW s, AtEnd(s), NEW q \in Seq(UByte), NEW n \in Nat, Len(q) <= n
  PROVE  Follows(s, WriteBytes(s, q), n)
<1> DEFINE w == WriteBytes(s, q)
<1>1. AtEnd(w) /\ w.bytes = s.bytes \o q
  BY WriteBytesIs, Zenon
<1>2. s.bytes \in Seq(UByte)
  BY DEF AtEnd, IsStream
<1>3. Len(w.bytes) <= Len(s.bytes) + n
  <2>1. Len(w.bytes) = Len(s.bytes) + Len(q) /\ Len(s.bytes) \in Nat /\ Len(q) \in Nat
    BY <1>1, <1>2, JoinedAt, Zenon
  <2> QED
    BY <2>1
<1>4. \A u : Holds(u, w) => Holds(u, s)
  BY WriteBytesHeld, Zenon
<1>5. Roomy(s) => Roomy(w)
  BY WriteBytesRoom, Zenon
<1> QED
  BY <1>1, <1>3, <1>4, <1>5, Zenon DEF Follows

\* WriteBool goes on from the end of the stream.
LEMMA BoolFollows ==
  ASSUME NEW s, AtEnd(s), NEW val \in BOOLEAN, NEW n \in Nat, 1 <= n
  PROVE  Follows(s, WriteBool(s, val), n)
<1> DEFINE w == WriteBool(s, val)
<1>1. AtEnd(w) /\ Len(w.bytes) = s.position + 1
  BY WriteBoolIs, Zenon
<1>2. s.position \in Nat /\ Len(s.bytes) \in Nat /\ s.position <= Len(s.bytes)
  BY DEF AtEnd, IsStream, Begun
<1> HIDE DEF w
<1>3. Len(w.bytes) <= Len(s.bytes) + n
  BY <1>1, <1>2
<1>4. \A u : Holds(u, w) => Holds(u, s)
  BY WriteBoolHeld, Zenon DEF w
<1>5. Roomy(s) => Roomy(w)
  BY WriteBoolRoom, Zenon DEF w
<1> QED
  BY <1>1, <1>3, <1>4, <1>5, Zenon DEF Follows, w

\* Two writes, one after the other, go on from the end of the stream.
LEMMA FollowsTwice ==
  ASSUME NEW s, NEW t, NEW w, NEW a \in Nat, NEW b \in Nat, NEW n \in Nat, a + b <= n,
         AtEnd(s), Follows(s, t, a), Follows(t, w, b)
  PROVE  Follows(s, w, n)
<1>1. Len(s.bytes) \in Nat /\ Len(t.bytes) \in Nat /\ Len(w.bytes) \in Nat
  BY DEF Follows, AtEnd, IsStream
<1>2. Len(w.bytes) <= Len(t.bytes) + b /\ Len(t.bytes) <= Len(s.bytes) + a
  BY Zenon DEF Follows
<1>3. Len(w.bytes) <= Len(s.bytes) + n
  BY <1>1, <1>2
<1> QED
  BY <1>3, Zenon DEF Follows

\* A field is read as it was written.
ReadsBack(s, f) ==
  \A u : Holds(u, Put(s, f)) =>
    Get(Reader(u, s), f[1]).value = f[2] /\ Get(Reader(u, s), f[1]).rest = Reader(u, Put(s, f))

\* The values that fit a kind: a string's length is a number of 31 bits.
Str31 == {str \in Seq(UByte) : Len(str) \in Int31}
IsField(f) ==
  \/ \E v \in BOOLEAN : f = <<"bool", v>>
  \/ \E v \in UByte : f = <<"byte", v>>
  \/ \E v \in UInt16 : f = <<"int16", v>>
  \/ \E v \in UInt32 : f = <<"int32", v>>
  \/ \E v, w \in UInt32 : f = <<"int64", <<v, w>>>>
  \/ \E v \in Int31 : f = <<"7bit", v>>
  \/ \E v \in Str31 : f = <<"string", v>>

\* Bytes are written without their length and no kind of field reads them.
IsWritable(f) == IsField(f) \/ \E v \in Seq(UByte) : f = <<"bytes", v>>

\* Bytes that a field takes at most.
Extent(f) ==
  IF f[1] = "string" THEN 5 + Len(f[2]) ELSE IF f[1] = "bytes" THEN Len(f[2]) ELSE 8

\* The two parts of a pair.
LEMMA PairIs == \A a, b : <<a, b>>[1] = a /\ <<a, b>>[2] = b
OBVIOUS

\* The value that was read and the stream that is left.
LEMMA GotFrom ==
  ASSUME NEW g, NEW a, NEW b, g = Got(a, b)
  PROVE  g.value = a /\ g.rest = b
BY DEF Got

\* What Put writes for each kind of field.
LEMMA PutIs ==
  ASSUME NEW s, NEW f
  PROVE  /\ f[1] = "bool" => Put(s, f) = WriteBool(s, f[2])
         /\ f[1] = "byte" => Put(s, f) = WriteByte(s, f[2])
         /\ f[1] = "int16" => Put(s, f) = WriteInt16(s, f[2])
         /\ f[1] = "int32" => Put(s, f) = WriteInt32(s, f[2])
         /\ f[1] = "int64" => Put(s, f) = WriteInt64(s, f[2])
         /\ f[1] = "7bit" => Put(s, f) = Write7BitEncodedInt(s, f[2])
         /\ f[1] = "string" => Put(s, f) = WriteString(s, f[2])
         /\ f[1] = "bytes" => Put(s, f) = WriteBytes(s, f[2])
         /\ f[1] = "ids" => Put(s, f) = WriteIds(s, f[2])
BY SMT DEF Put

\* What Get reads for each kind of field.
LEMMA GetIs ==
  ASSUME NEW s
  PROVE  /\ Get(s, "bool") = ReadBool(s)
         /\ Get(s, "byte") = ReadByte(s)
         /\ Get(s, "int16") = ReadUInt(s, 2)
         /\ Get(s, "int32") = ReadUInt(s, 4)
         /\ Get(s, "int64") = ReadUInt64(s)
         /\ Get(s, "7bit") = Read7BitEncodedInt(s)
         /\ Get(s, "string") = ReadString(s)
         /\ Get(s, "ids") = ReadIds(s)
BY SMT DEF Get

\* WriteBool and ReadBool agree.
LEMMA BoolField ==
  ASSUME NEW s, AtEnd(s), NEW v \in BOOLEAN, NEW f, f = <<"bool", v>>
  PROVE  Follows(s, Put(s, f), 8) /\ ReadsBack(s, f)
<1>1. f[1] = "bool" /\ f[2] = v
  BY PairIs, Zenon
<1>2. Put(s, f) = WriteBool(s, v)
  BY <1>1, PutIs, Zenon
<1>3. Follows(s, WriteBool(s, v), 8)
  <2>1. 8 \in Nat /\ 1 <= 8
    OBVIOUS
  <2> QED
    BY <2>1, BoolFollows, Zenon
<1>4. ASSUME NEW u, Holds(u, WriteBool(s, v))
      PROVE  Get(Reader(u, s), "bool") = Got(v, Reader(u, WriteBool(s, v)))
  BY <1>4, ReadBoolIs, GetIs, Zenon
<1>6. ASSUME NEW u, Holds(u, Put(s, f))
      PROVE  /\ Get(Reader(u, s), f[1]).value = f[2]
             /\ Get(Reader(u, s), f[1]).rest = Reader(u, Put(s, f))
  <2>1. Get(Reader(u, s), "bool") = Got(v, Reader(u, WriteBool(s, v)))
    BY <1>2, <1>4, <1>6, Zenon
  <2>2. Get(Reader(u, s), f[1]) = Got(f[2], Reader(u, Put(s, f)))
    BY <1>1, <1>2, <2>1, Zenon
  <2> QED
    BY <2>2, GotFrom, ZenonT(30)
<1>7. ReadsBack(s, f)
  BY <1>6, Zenon DEF ReadsBack
<1> QED
  BY <1>2, <1>3, <1>7, Zenon

\* WriteByte and ReadByte agree.
LEMMA ByteField ==
  ASSUME NEW s, AtEnd(s), NEW v \in UByte, NEW f, f = <<"byte", v>>
  PROVE  Follows(s, Put(s, f), 8) /\ ReadsBack(s, f)
<1> DEFINE q == <<v>>
           w == WriteBytes(s, q)
<1>1. f[1] = "byte" /\ f[2] = v
  BY PairIs, Zenon
<1>2. Put(s, f) = w
  BY <1>1, PutIs, Zenon DEF WriteByte
<1>3. q \in Seq(UByte) /\ Len(q) = 1 /\ q[1] = v /\ 8 \in Nat /\ 1 <= 8 /\ 1 \in 1 .. 1
  OBVIOUS
<1> HIDE DEF q
<1>4. Follows(s, w, 8)
  BY <1>3, BytesFollow, Zenon
<1>5. ASSUME NEW u, Holds(u, w)
      PROVE  Get(Reader(u, s), "byte") = Got(v, Reader(u, w))
  <2> DEFINE p == Len(s.bytes)
  <2>1. /\ p + Len(q) <= Len(u) /\ \A i \in 1 .. Len(q) : u[p + i] = q[i]
    BY <1>3, <1>5, WriteBytesHeld, Zenon
  <2>2. w.position = p + Len(q) /\ w.bits = 0
    BY <1>3, WriteBytesIs, Zenon
  <2>3. s.position \in Nat /\ s.bits \in 0 .. 7 /\ p = s.position + Begun(s) /\ p \in Nat
    BY DEF AtEnd, IsStream
  <2>4. u \in Seq(UByte)
    BY <1>5, Zenon DEF Holds
  <2> HIDE DEF p, w
  <2>5. p < Len(u) /\ u[p + 1] = v /\ w.position = p + 1
    BY <1>3, <2>1, <2>2, <2>3, <2>4, SMTT(20)
  <2>6. ReadByte(Reader(u, s)) = Got(u[p + 1], RawReader(u, p + 1))
    BY <2>3, <2>4, <2>5, ReadByteIs, Zenon
  <2>7. Reader(u, w) = RawReader(u, p + 1)
    BY <2>2, <2>5, Zenon DEF Reader, RawReader
  <2> QED
    BY <2>5, <2>6, <2>7, GetIs, Zenon
<1>6. ASSUME NEW u, Holds(u, Put(s, f))
      PROVE  /\ Get(Reader(u, s), f[1]).value = f[2]
             /\ Get(Reader(u, s), f[1]).rest = Reader(u, Put(s, f))
  <2>1. Get(Reader(u, s), "byte") = Got(v, Reader(u, w))
    BY <1>2, <1>5, <1>6, Zenon
  <2>2. Get(Reader(u, s), f[1]) = Got(f[2], Reader(u, Put(s, f)))
    BY <1>1, <1>2, <2>1, Zenon
  <2> QED
    BY <2>2, GotFrom, ZenonT(30)
<1>7. ReadsBack(s, f)
  BY <1>6, Zenon DEF ReadsBack
<1> QED
  BY <1>2, <1>4, <1>7, Zenon

\* ReadUInt agrees with the number that was written byte by byte.
LEMMA NumberField ==
  ASSUME NEW s, AtEnd(s), NEW q \in Seq(UByte), Len(q) = 2 \/ Len(q) = 4
  PROVE  /\ Follows(s, WriteBytes(s, q), 4)
         /\ \A u : Holds(u, WriteBytes(s, q)) =>
              ReadUInt(Reader(u, s), Len(q)) = Got(Number(q), Reader(u, WriteBytes(s, q)))
<1>1. Len(q) <= 4 /\ 4 \in Nat /\ Len(q) > 0
  <2> DEFINE n == Len(q)
  <2>1. n = 2 \/ n = 4
    BY Zenon
  <2> HIDE DEF n
  <2>2. n <= 4 /\ 4 \in Nat /\ n > 0
    BY <2>1
  <2> QED
    BY <2>2, Zenon DEF n
<1> QED
  BY <1>1, BytesFollow, ReadUIntIs, Zenon

\* WriteInt16 and ReadUInt16 agree.
LEMMA Int16Field ==
  ASSUME NEW s, AtEnd(s), NEW v \in UInt16, NEW f, f = <<"int16", v>>
  PROVE  Follows(s, Put(s, f), 8) /\ ReadsBack(s, f)
<1> DEFINE q == Bytes16(v)
           w == WriteBytes(s, q)
<1>1. f[1] = "int16" /\ f[2] = v
  BY PairIs, Zenon
<1>2. Put(s, f) = w
  <2>1. Put(s, f) = WriteInt16(s, v)
    BY <1>1, PutIs, Zenon
  <2> QED
    BY <2>1, SMT DEF WriteInt16, Bytes16
<1>3. q \in Seq(UByte) /\ Len(q) = 2 /\ Number(q) = v
  BY Bytes16Is, Zenon
<1> HIDE DEF q
<1>4. Follows(s, w, 8)
  <2>1. Len(q) <= 8 /\ 8 \in Nat
    BY <1>3
  <2> QED
    BY <1>3, <2>1, BytesFollow, Zenon
<1>5. ASSUME NEW u, Holds(u, w)
      PROVE  Get(Reader(u, s), "int16") = Got(v, Reader(u, w))
  <2>1. ReadUInt(Reader(u, s), 2) = Got(v, Reader(u, w))
    BY <1>3, <1>5, NumberField, Zenon
  <2> QED
    BY <2>1, GetIs, Zenon
<1>6. ASSUME NEW u, Holds(u, Put(s, f))
      PROVE  /\ Get(Reader(u, s), f[1]).value = f[2]
             /\ Get(Reader(u, s), f[1]).rest = Reader(u, Put(s, f))
  <2>1. Get(Reader(u, s), "int16") = Got(v, Reader(u, w))
    BY <1>2, <1>5, <1>6, Zenon
  <2>2. Get(Reader(u, s), f[1]) = Got(f[2], Reader(u, Put(s, f)))
    BY <1>1, <1>2, <2>1, Zenon
  <2> QED
    BY <2>2, GotFrom, ZenonT(30)
<1>7. ReadsBack(s, f)
  BY <1>6, Zenon DEF ReadsBack
<1> QED
  BY <1>2, <1>4, <1>7, Zenon

\* WriteInt32 and ReadUInt32 agree.
LEMMA Int32Field ==
  ASSUME NEW s, AtEnd(s), NEW v \in UInt32, NEW f, f = <<"int32", v>>
  PROVE  Follows(s, Put(s, f), 8) /\ ReadsBack(s, f)
<1> DEFINE q == Int32(v)
           w == WriteBytes(s, q)
<1>1. f[1] = "int32" /\ f[2] = v
  BY PairIs, Zenon
<1>2. Put(s, f) = w
  BY <1>1, PutIs, Zenon DEF WriteInt32
<1>3. q \in Seq(UByte) /\ Len(q) = 4 /\ Number(q) = v
  BY Int32Is, Zenon
<1> HIDE DEF q
<1>4. Follows(s, w, 8)
  <2>1. Len(q) <= 8 /\ 8 \in Nat
    BY <1>3
  <2> QED
    BY <1>3, <2>1, BytesFollow, Zenon
<1>5. ASSUME NEW u, Holds(u, w)
      PROVE  Get(Reader(u, s), "int32") = Got(v, Reader(u, w))
  <2>1. ReadUInt(Reader(u, s), 4) = Got(v, Reader(u, w))
    BY <1>3, <1>5, NumberField, Zenon
  <2> QED
    BY <2>1, GetIs, Zenon
<1>6. ASSUME NEW u, Holds(u, Put(s, f))
      PROVE  /\ Get(Reader(u, s), f[1]).value = f[2]
             /\ Get(Reader(u, s), f[1]).rest = Reader(u, Put(s, f))
  <2>1. Get(Reader(u, s), "int32") = Got(v, Reader(u, w))
    BY <1>2, <1>5, <1>6, Zenon
  <2>2. Get(Reader(u, s), f[1]) = Got(f[2], Reader(u, Put(s, f)))
    BY <1>1, <1>2, <2>1, Zenon
  <2> QED
    BY <2>2, GotFrom, ZenonT(30)
<1>7. ReadsBack(s, f)
  BY <1>6, Zenon DEF ReadsBack
<1> QED
  BY <1>2, <1>4, <1>7, Zenon

\* WriteInt64 and ReadUInt64, which take the two halves one after the other,
\* agree.
LEMMA Int64Field ==
  ASSUME NEW s, AtEnd(s), NEW v \in UInt32, NEW x \in UInt32, NEW f, f = <<"int64", <<v, x>>>>
  PROVE  Follows(s, Put(s, f), 8) /\ ReadsBack(s, f)
<1> DEFINE q == Int32(v)
           z == Int32(x)
           t == WriteBytes(s, q)
           w == WriteBytes(t, z)
           val == <<v, x>>
<1>1. f[1] = "int64" /\ f[2] = val /\ val[1] = v /\ val[2] = x
  BY PairIs, Zenon
<1>2. Put(s, f) = w
  <2>1. Put(s, f) = WriteInt64(s, val)
    BY <1>1, PutIs, Zenon
  <2>2. WriteInt64(s, val) = w
    BY <1>1, Zenon DEF WriteInt64, WriteInt32
  <2> QED
    BY <2>1, <2>2, Zenon
<1>3. /\ q \in Seq(UByte) /\ Len(q) = 4 /\ Number(q) = v
      /\ z \in Seq(UByte) /\ Len(z) = 4 /\ Number(z) = x
  BY Int32Is, Zenon
<1> HIDE DEF q, z, w, t
<1>a. Follows(s, t, 4) /\ AtEnd(t)
  BY <1>3, NumberField, Zenon DEF t, Follows
<1>b. Follows(t, w, 4)
  BY <1>3, <1>a, NumberField, Zenon DEF w
<1>4. Follows(s, w, 8)
  <2>1. 4 \in Nat /\ 8 \in Nat /\ 4 + 4 <= 8
    OBVIOUS
  <2> QED
    BY <1>a, <1>b, <2>1, FollowsTwice, SMTT(20)
<1>5. ASSUME NEW u, Holds(u, w)
      PROVE  Get(Reader(u, s), "int64") = Got(val, Reader(u, w))
  <2> DEFINE upper == ReadUInt(Reader(u, s), 4)
             lower == ReadUInt(upper.rest, 4)
  <2>1. Holds(u, t)
    BY <1>5, <1>b, Zenon DEF Follows
  <2>2. upper = Got(v, Reader(u, t))
    BY <1>3, <2>1, NumberField, Zenon DEF t
  <2>3. ReadUInt64(Reader(u, s)) = Got(<<upper.value, lower.value>>, lower.rest)
    BY Zenon DEF ReadUInt64
  <2> HIDE DEF upper
  <2>4. upper.value = v /\ upper.rest = Reader(u, t)
    BY <2>2, GotFrom, Zenon
  <2>5. ReadUInt(Reader(u, t), 4) = Got(x, Reader(u, w))
    BY <1>3, <1>5, <1>a, NumberField, Zenon DEF w
  <2>6. lower = Got(x, Reader(u, w))
    BY <2>4, <2>5, Zenon
  <2> HIDE DEF lower
  <2>7. lower.value = x /\ lower.rest = Reader(u, w)
    BY <2>6, GotFrom, Zenon
  <2>8. ReadUInt64(Reader(u, s)) = Got(val, Reader(u, w))
    BY <2>3, <2>4, <2>7, Zenon
  <2> QED
    BY <2>8, GetIs, Zenon
<1>6. ASSUME NEW u, Holds(u, Put(s, f))
      PROVE  /\ Get(Reader(u, s), f[1]).value = f[2]
             /\ Get(Reader(u, s), f[1]).rest = Reader(u, Put(s, f))
  <2>1. Get(Reader(u, s), "int64") = Got(val, Reader(u, w))
    BY <1>2, <1>5, <1>6, Zenon
  <2>2. Get(Reader(u, s), f[1]) = Got(f[2], Reader(u, Put(s, f)))
    BY <1>1, <1>2, <2>1, Zenon
  <2> QED
    BY <2>2, GotFrom, ZenonT(30)
<1>7. ReadsBack(s, f)
  BY <1>6, Zenon DEF ReadsBack
<1> QED
  BY <1>2, <1>4, <1>7, Zenon

\* Write7BitEncodedInt writes at most five bytes from the end of the stream on.
LEMMA Write7BitFollows ==
  ASSUME NEW s, AtEnd(s), NEW val \in Int31
  PROVE  Follows(s, Write7BitEncodedInt(s, val), 5)
<1>1. PICK m \in 0 .. 4 : Max({0} \cup More7(val)) = m
  BY More7Is, Zenon
<1>2. Bytes7(val) \in Seq(UByte) /\ Len(Bytes7(val)) = m + 1
  BY <1>1, Bytes7Is, Zenon
<1>3. Len(Bytes7(val)) <= 5 /\ 5 \in Nat
  BY <1>2
<1>4. Follows(s, WriteBytes(s, Bytes7(val)), 5)
  BY <1>2, <1>3, BytesFollow, Zenon
<1> QED
  BY <1>4, Write7BitIs, Zenon

\* Write7BitEncodedInt and Read7BitEncodedInt agree.
LEMMA Num7Field ==
  ASSUME NEW s, AtEnd(s), NEW v \in Int31, NEW f, f = <<"7bit", v>>
  PROVE  Follows(s, Put(s, f), 8) /\ ReadsBack(s, f)
<1> DEFINE w == Write7BitEncodedInt(s, v)
<1>1. f[1] = "7bit" /\ f[2] = v
  BY PairIs, Zenon
<1>2. Put(s, f) = w
  BY <1>1, PutIs, Zenon
<1>3. Follows(s, w, 5)
  BY Write7BitFollows, Zenon
<1> HIDE DEF w
<1>4. Follows(s, w, 8)
  <2>1. Len(s.bytes) \in Nat /\ Len(w.bytes) \in Nat
    BY <1>3 DEF Follows, AtEnd, IsStream
  <2>2. Len(w.bytes) <= Len(s.bytes) + 5
    BY <1>3, Zenon DEF Follows
  <2>3. Len(w.bytes) <= Len(s.bytes) + 8
    BY <2>1, <2>2, SMTT(20)
  <2> QED
    BY <1>3, <2>3, Zenon DEF Follows
<1>5. ASSUME NEW u, Holds(u, w)
      PROVE  Get(Reader(u, s), "7bit").value = v /\ Get(Reader(u, s), "7bit").rest = Reader(u, w)
  <2> DEFINE g == Get(Reader(u, s), "7bit")
             r == Reader(u, w)
  <2>1. g = [value |-> v, rest |-> r, more |-> FALSE]
    BY <1>5, GetIs, Read7BitValue, Zenon DEF w
  <2> HIDE DEF g, r
  <2>2. g.value = v /\ g.rest = r
    BY <2>1
  <2> QED
    BY <2>2, Zenon DEF g, r
<1>6. ASSUME NEW u, Holds(u, Put(s, f))
      PROVE  /\ Get(Reader(u, s), f[1]).value = f[2]
             /\ Get(Reader(u, s), f[1]).rest = Reader(u, Put(s, f))
  <2>1. Get(Reader(u, s), "7bit").value = v /\ Get(Reader(u, s), "7bit").rest = Reader(u, w)
    BY <1>2, <1>5, <1>6, Zenon
  <2> QED
    BY <1>1, <1>2, <2>1, Zenon
<1>7. ReadsBack(s, f)
  BY <1>6, Zenon DEF ReadsBack
<1> QED
  BY <1>2, <1>4, <1>7, Zenon

\* WriteString and ReadString agree: the length of the string is before it.
LEMMA StringField ==
  ASSUME NEW s, AtEnd(s), NEW v \in Str31, NEW f, f = <<"string", v>>
  PROVE  Follows(s, Put(s, f), 5 + Len(v)) /\ ReadsBack(s, f)
<1> DEFINE n == Len(v)
           t == Write7BitEncodedInt(s, n)
           w == WriteBytes(t, v)
<1>1. f[1] = "string" /\ f[2] = v
  BY PairIs, Zenon
<1>2. Put(s, f) = w
  BY <1>1, PutIs, Zenon DEF WriteString
<1>3. v \in Seq(UByte) /\ n \in Int31 /\ n \in Nat
  <2>1. v \in Seq(UByte) /\ n \in Int31
    BY Zenon DEF Str31
  <2> QED
    BY <2>1
<1> HIDE DEF t, w
<1>a. Follows(s, t, 5) /\ AtEnd(t)
  BY <1>3, Write7BitFollows, Zenon DEF t, Follows
<1>b. Follows(t, w, n)
  <2>1. n <= n
    BY <1>3
  <2> QED
    BY <1>3, <1>a, <2>1, BytesFollow, Zenon DEF w
<1>4. Follows(s, w, 5 + n)
  <2> HIDE DEF n
  <2>1. 5 \in Nat /\ 5 + n \in Nat /\ 5 + n <= 5 + n
    BY <1>3
  <2> QED
    BY <1>3, <1>a, <1>b, <2>1, FollowsTwice, SMTT(20)
<1>5. ASSUME NEW u, Holds(u, w)
      PROVE  Get(Reader(u, s), "string") = Got(v, Reader(u, w))
  <2> DEFINE length == Read7BitEncodedInt(Reader(u, s))
             r == Reader(u, t)
  <2>1. Holds(u, t)
    BY <1>5, <1>b, Zenon DEF Follows
  <2>2. length = [value |-> n, rest |-> r, more |-> FALSE]
    BY <1>3, <2>1, Read7BitValue, Zenon DEF t
  <2>3. ReadString(Reader(u, s)) = IF IsEOF(length.rest, length.value) THEN Got(<<>>, length.rest)
                                   ELSE ReadBytes(length.rest, length.value)
    BY Zenon DEF ReadString
  <2> HIDE DEF length, r
  <2>4. length.value = n /\ length.rest = r
    BY <2>2
  <2>5. ReadBytes(r, n) = Got(v, Reader(u, w))
    BY <1>3, <1>5, <1>a, ReadBytesIs, Zenon DEF w, r
  <2>6. ~ IsEOF(r, n)
    <3>1. Len(t.bytes) + n <= Len(u) /\ u \in Seq(UByte)
      BY <1>3, <1>5, <1>a, WriteBytesHeld, Zenon DEF w, Holds
    <3>2. t.position \in Nat /\ Len(t.bytes) \in Nat /\ t.position <= Len(t.bytes)
      BY <1>a DEF AtEnd, IsStream, Begun
    <3>3. Len(u) \in Nat
      BY <3>1
    <3>4. r.position = t.position /\ r.bytes = u
      BY DEF r, Reader
    <3> HIDE DEF n
    <3>5. ~ (t.position > Len(u) - n)
      BY <1>3, <3>1, <3>2, <3>3, SMTT(20)
    <3> QED
      BY <3>4, <3>5, Zenon DEF IsEOF, Length
  <2>7. ReadString(Reader(u, s)) = Got(v, Reader(u, w))
    BY <2>3, <2>4, <2>5, <2>6, Zenon
  <2> QED
    BY <2>7, GetIs, Zenon
<1>6. ASSUME NEW u, Holds(u, Put(s, f))
      PROVE  /\ Get(Reader(u, s), f[1]).value = f[2]
             /\ Get(Reader(u, s), f[1]).rest = Reader(u, Put(s, f))
  <2>1. Get(Reader(u, s), "string") = Got(v, Reader(u, w))
    BY <1>2, <1>5, <1>6, Zenon
  <2>2. Get(Reader(u, s), f[1]) = Got(f[2], Reader(u, Put(s, f)))
    BY <1>1, <1>2, <2>1, Zenon
  <2> QED
    BY <2>2, GotFrom, ZenonT(30)
<1>7. ReadsBack(s, f)
  BY <1>6, Zenon DEF ReadsBack
<1> QED
  BY <1>2, <1>4, <1>7, Zenon

\* Each kind of field is read as it was written, and takes no more than its
\* extent.
LEMMA FieldIs ==
  ASSUME NEW s, AtEnd(s), NEW f, IsField(f)
  PROVE  Follows(s, Put(s, f), Extent(f)) /\ ReadsBack(s, f) /\ Extent(f) \in Nat
         /\ f[1] # "none" /\ f[1] # "bytes"
<1> DEFINE Fine == Follows(s, Put(s, f), Extent(f)) /\ ReadsBack(s, f) /\ Extent(f) \in Nat
                   /\ f[1] # "none" /\ f[1] # "bytes"
<1>1. ASSUME Follows(s, Put(s, f), 8), ReadsBack(s, f),
             f[1] \in {"bool", "byte", "int16", "int32", "int64", "7bit"}
      PROVE  Fine
  <2>1. f[1] # "string" /\ f[1] # "none" /\ f[1] # "bytes"
    BY <1>1
  <2>2. Extent(f) = 8
    BY <2>1, Zenon DEF Extent
  <2>3. 8 \in Nat
    OBVIOUS
  <2> QED
    BY <1>1, <2>1, <2>2, <2>3, Zenon
<1>2. ASSUME NEW v, f = <<"bool", v>> \/ f = <<"byte", v>> \/ f = <<"int16", v>>
                    \/ f = <<"int32", v>> \/ f = <<"int64", v>> \/ f = <<"7bit", v>>
      PROVE  f[1] \in {"bool", "byte", "int16", "int32", "int64", "7bit"}
  BY <1>2, SMT
<1>3. ASSUME NEW v \in BOOLEAN, f = <<"bool", v>> PROVE Fine
  BY <1>1, <1>2, <1>3, BoolField, Zenon
<1>4. ASSUME NEW v \in UByte, f = <<"byte", v>> PROVE Fine
  BY <1>1, <1>2, <1>4, ByteField, Zenon
<1>5. ASSUME NEW v \in UInt16, f = <<"int16", v>> PROVE Fine
  BY <1>1, <1>2, <1>5, Int16Field, Zenon
<1>6. ASSUME NEW v \in UInt32, f = <<"int32", v>> PROVE Fine
  BY <1>1, <1>2, <1>6, Int32Field, Zenon
<1>7. ASSUME NEW v \in UInt32, NEW w \in UInt32, f = <<"int64", <<v, w>>>> PROVE Fine
  <2>1. Follows(s, Put(s, f), 8) /\ ReadsBack(s, f)
    BY <1>7, Int64Field, Zenon
  <2>2. f[1] = "int64"
    BY <1>7, PairIs, Zenon
  <2> QED
    BY <1>1, <2>1, <2>2, Zenon
<1>8. ASSUME NEW v \in Int31, f = <<"7bit", v>> PROVE Fine
  BY <1>1, <1>2, <1>8, Num7Field, Zenon
<1>9. ASSUME NEW v \in Str31, f = <<"string", v>> PROVE Fine
  <2>1. Follows(s, Put(s, f), 5 + Len(v)) /\ ReadsBack(s, f)
    BY <1>9, StringField, Zenon
  <2>2. f[1] = "string" /\ f[2] = v
    BY <1>9, PairIs, Zenon
  <2>3. Extent(f) = 5 + Len(v)
    BY <2>2, Zenon DEF Extent
  <2>4. v \in Seq(UByte)
    BY Zenon DEF Str31
  <2>5. 5 + Len(v) \in Nat
    BY <2>4, SMTT(20)
  <2>6. f[1] # "none" /\ f[1] # "bytes"
    BY <2>2
  <2> QED
    BY <2>1, <2>3, <2>5, <2>6, Zenon
<1> HIDE DEF Fine
<1>10. Fine
  BY <1>3, <1>4, <1>5, <1>6, <1>7, <1>8, <1>9, Zenon DEF IsField
<1> QED
  BY <1>10, Zenon DEF Fine

\* Whatever is written goes on from the end of the stream, and takes no more
\* than its extent.
LEMMA WritableIs ==
  ASSUME NEW s, AtEnd(s), NEW f, IsWritable(f)
  PROVE  Follows(s, Put(s, f), Extent(f)) /\ Extent(f) \in Nat
<1>1. CASE IsField(f)
  BY <1>1, FieldIs, Zenon
<1>2. ASSUME NEW v \in Seq(UByte), f = <<"bytes", v>>
      PROVE  Follows(s, Put(s, f), Extent(f)) /\ Extent(f) \in Nat
  <2>1. f[1] = "bytes" /\ f[2] = v
    BY <1>2, PairIs, Zenon
  <2>2. Put(s, f) = WriteBytes(s, v)
    BY <2>1, PutIs, Zenon
  <2>3. f[1] # "string"
    BY <2>1
  <2>4. Extent(f) = Len(v)
    BY <2>1, <2>3, Zenon DEF Extent
  <2>5. Len(v) \in Nat /\ Len(v) <= Len(v)
    OBVIOUS
  <2>6. Follows(s, WriteBytes(s, v), Len(v))
    BY <2>5, BytesFollow, Zenon
  <2> QED
    BY <2>2, <2>4, <2>5, <2>6, Zenon
<1> QED
  BY <1>1, <1>2, Zenon DEF IsWritable

\* All of n fields can be written.
AllWritable(fields, n) == DOMAIN fields = 1 .. n /\ \A k \in 1 .. n : IsWritable(fields[k])

\* Each field of a sequence goes on from the end of the one before.
LEMMA WrittenFollows ==
  ASSUME NEW s, AtEnd(s), NEW n \in Nat, NEW fields, AllWritable(fields, n)
  PROVE  /\ \A k \in 0 .. n : AtEnd(Written(s, fields, n, k))
         /\ \A k \in 1 .. n : Follows(Written(s, fields, n, k - 1), Written(s, fields, n, k), Extent(fields[k]))
<1> DEFINE W(k) == Written(s, fields, n, k)
<1>1. W(0) = s /\ \A k \in 1 .. n : W(k) = Put(W(k - 1), fields[k])
  <2>1. DOMAIN fields = 1 .. n
    BY Zenon DEF AllWritable
  <2>2. IsWritten(s, fields, n)
    BY <2>1, PutAllSteps, Zenon
  <2> QED
    BY <2>2, Zenon DEF IsWritten
<1> HIDE DEF W
<1>2. \A k \in 1 .. n : IsWritable(fields[k])
  BY Zenon DEF AllWritable
<1>3. ASSUME NEW k \in 1 .. n, AtEnd(W(k - 1))
      PROVE  Follows(W(k - 1), W(k), Extent(fields[k])) /\ AtEnd(W(k))
  <2>1. Follows(W(k - 1), Put(W(k - 1), fields[k]), Extent(fields[k]))
    BY <1>2, <1>3, WritableIs, Zenon
  <2>2. W(k) = Put(W(k - 1), fields[k])
    BY <1>1, Zenon
  <2>3. Follows(W(k - 1), W(k), Extent(fields[k]))
    BY <2>1, <2>2, Zenon
  <2> QED
    BY <2>3, Zenon DEF Follows
<1>4. \A k \in 0 .. n : AtEnd(W(k))
  <2> DEFINE T == {k \in 0 .. n : AtEnd(W(k))}
  <2>1. 0 \in T
    BY <1>1
  <2>2. ASSUME NEW k \in 0 .. n - 1, k \in T PROVE k + 1 \in T
    <3>1. k + 1 \in 1 .. n /\ (k + 1) - 1 = k /\ k + 1 \in 0 .. n
      OBVIOUS
    <3>2. AtEnd(W((k + 1) - 1))
      BY <2>2, <3>1, Zenon
    <3>3. AtEnd(W(k + 1))
      BY <1>3, <3>1, <3>2, Zenon
    <3> QED
      BY <3>1, <3>3, Zenon
  <2> HIDE DEF T
  <2>3. \A k \in 0 .. n : k \in T
    BY <2>1, <2>2, UpTo, SMTT(20)
  <2> QED
    BY <2>3, Zenon DEF T
<1>5. ASSUME NEW k \in 1 .. n PROVE Follows(W(k - 1), W(k), Extent(fields[k]))
  <2>1. k - 1 \in 0 .. n
    OBVIOUS
  <2> QED
    BY <1>3, <1>4, <2>1, Zenon
<1> QED
  BY <1>4, <1>5, Zenon DEF W

\* A buffer that holds the whole sequence holds each beginning of it.
LEMMA HeldBefore ==
  ASSUME NEW s, AtEnd(s), NEW n \in Nat, NEW fields, AllWritable(fields, n),
         NEW u, Holds(u, Written(s, fields, n, n))
  PROVE  \A k \in 0 .. n : Holds(u, Written(s, fields, n, k))
<1> DEFINE W(k) == Written(s, fields, n, k)
<1>1. \A k \in 1 .. n : Follows(W(k - 1), W(k), Extent(fields[k]))
  BY WrittenFollows, Zenon
<1> HIDE DEF W
<1> DEFINE T == {j \in 0 .. n : Holds(u, W(n - j))}
<1>2. 0 \in T
  <2>1. n - 0 = n /\ 0 \in 0 .. n
    OBVIOUS
  <2>2. Holds(u, W(n - 0))
    BY <2>1, Zenon DEF W
  <2> QED
    BY <2>1, <2>2, Zenon
<1>3. ASSUME NEW j \in 0 .. n - 1, j \in T PROVE j + 1 \in T
  <2>1. n - j \in 1 .. n /\ (n - j) - 1 = n - (j + 1) /\ j + 1 \in 0 .. n
    OBVIOUS
  <2>2. Follows(W(n - (j + 1)), W(n - j), Extent(fields[n - j]))
    BY <1>1, <2>1, Zenon
  <2>3. Holds(u, W(n - j))
    BY <1>3, Zenon
  <2>4. Holds(u, W(n - (j + 1)))
    BY <2>2, <2>3, Zenon DEF Follows
  <2> QED
    BY <2>1, <2>4, Zenon
<1> HIDE DEF T
<1>4. \A j \in 0 .. n : j \in T
  BY <1>2, <1>3, UpTo, SMTT(20)
<1>5. ASSUME NEW k \in 0 .. n PROVE Holds(u, W(k))
  <2>1. n - k \in 0 .. n /\ n - (n - k) = k
    OBVIOUS
  <2>2. Holds(u, W(n - (n - k)))
    BY <1>4, <2>1, Zenon DEF T
  <2> QED
    BY <2>1, <2>2, Zenon
<1> QED
  BY <1>5, Zenon DEF W

\* A turn reads a field and stores it.
IsTurn(kinds, k, v, r) ==
  Turn(kinds, [ok |-> TRUE, value |-> v, rest |-> r], k)
    = [ok |-> TRUE, value |-> [v EXCEPT ![k] = Get(r, kinds[k]).value], rest |-> Get(r, kinds[k]).rest]

\* A turn of GetAll reads its field and stores it.
LEMMA TurnIs ==
  ASSUME NEW kinds, NEW k, kinds[k] # "none", NEW v, NEW r
  PROVE  IsTurn(kinds, k, v, r)
<1> DEFINE x == Get(r, kinds[k]).value
           rest == Get(r, kinds[k]).rest
           st == [ok |-> TRUE, value |-> v, rest |-> r]
<1>1. st.ok = TRUE /\ st.value = v /\ st.rest = r
  BY Zenon
<1>2. ~ (0 > 0)
  OBVIOUS
<1> HIDE DEF x, rest
<1>3. [st EXCEPT !.value = [v EXCEPT ![k] = x], !.rest = rest]
        = [ok |-> TRUE, value |-> [v EXCEPT ![k] = x], rest |-> rest]
  <2> DEFINE y == [v EXCEPT ![k] = x]
  <2> HIDE DEF y
  <2> DEFINE next == [st EXCEPT !.value = y, !.rest = rest]
  <2>2. st \in [ok : {TRUE}, value : {v}, rest : {r}]
    BY Zenon
  <2> HIDE DEF st
  <2>3. next \in [ok : {TRUE}, value : {y}, rest : {rest}]
    BY <2>2, Zenon
  <2> HIDE DEF next
  <2>4. next = [ok |-> TRUE, value |-> y, rest |-> rest]
    BY <2>3, Zenon
  <2>1. [st EXCEPT !.value = y, !.rest = rest] = [ok |-> TRUE, value |-> y, rest |-> rest]
    BY <2>4, Zenon DEF next
  <2> QED
    BY <2>1, Zenon DEF y
<1> HIDE DEF st
<1>4. Turn(kinds, st, k) = [st EXCEPT !.value[k] = Get(st.rest, kinds[k]).value,
                                      !.rest = Get(st.rest, kinds[k]).rest]
  BY <1>1, <1>2, Zenon DEF Turn
<1>5. Turn(kinds, st, k) = [st EXCEPT !.value = [v EXCEPT ![k] = x], !.rest = rest]
  BY <1>1, <1>4, Zenon DEF x, rest
<1> QED
  BY <1>3, <1>5, Zenon DEF st, x, rest, IsTurn

\* The first m of n fields are read from u as they were written.
AreReadBack(s, fields, n, m, u) ==
  GetAll(Reader(u, s), [k \in 1 .. m |-> fields[k][1]])
    = [ok |-> TRUE, value |-> [k \in 1 .. m |-> fields[k][2]],
       rest |-> Reader(u, Written(s, fields, n, m))]

\* The first fields of a sequence, whatever is written after them, are read as
\* they were written: each read starts where the write of its field did.
LEMMA FieldsReadBack ==
  ASSUME NEW s, AtEnd(s), NEW n \in Nat, NEW fields, AllWritable(fields, n),
         NEW m \in 0 .. n, \A k \in 1 .. m : IsField(fields[k]),
         NEW u, Holds(u, PutAll(s, fields))
  PROVE  AreReadBack(s, fields, n, m, u)
<1> DEFINE kinds == [k \in 1 .. m |-> fields[k][1]]
           W(k) == Written(s, fields, n, k)
           r == Reader(u, s)
           g == [k \in 1 .. m |-> fields[k][2]]
           V(k) == [j \in 1 .. m |-> IF j <= k THEN g[j] ELSE 0]
           A(k) == [ok |-> TRUE, value |-> V(k), rest |-> Reader(u, W(k))]
<1>1. IsWritten(s, fields, n)
  BY PutAllSteps, Zenon DEF AllWritable
<1>2. PutAll(s, fields) = W(n) /\ W(0) = s /\ \A k \in 1 .. n : W(k) = Put(W(k - 1), fields[k])
  BY <1>1, Zenon DEF IsWritten
<1>3. \A k \in 0 .. n : Holds(u, W(k))
  BY <1>2, HeldBefore, Zenon
<1>4. \A k \in 0 .. n : AtEnd(W(k))
  BY WrittenFollows, Zenon
<1>5. m \in Nat /\ DOMAIN kinds = 1 .. m
  <2>1. m \in Nat
    OBVIOUS
  <2> QED
    BY <2>1, Zenon
<1>6. IsRead(r, kinds, m)
  BY <1>5, GetAllSteps, Zenon
<1>7. /\ GetAll(r, kinds) = AtField(r, kinds, m, m)
      /\ AtField(r, kinds, m, 0) = [ok |-> TRUE, value |-> [j \in 1 .. m |-> 0], rest |-> r]
      /\ \A k \in 1 .. m : AtField(r, kinds, m, k) = Turn(kinds, AtField(r, kinds, m, k - 1), k)
  BY <1>6, Zenon DEF IsRead
<1> HIDE DEF W
<1>8. ASSUME NEW k \in 1 .. m
      PROVE  Turn(kinds, A(k - 1), k) = A(k)
  <2>1. k \in 1 .. n /\ k - 1 \in 0 .. n /\ k \in 0 .. n
    OBVIOUS
  <2>2. IsField(fields[k]) /\ AtEnd(W(k - 1)) /\ W(k) = Put(W(k - 1), fields[k]) /\ Holds(u, W(k))
    BY <1>2, <1>3, <1>4, <2>1, Zenon
  <2>3. ReadsBack(W(k - 1), fields[k]) /\ fields[k][1] # "none"
    BY <2>2, FieldIs, Zenon
  <2>4. kinds[k] = fields[k][1] /\ g[k] = fields[k][2]
    BY Zenon
  <2> HIDE DEF g
  <2> DEFINE x == fields[k][2]
             before == Reader(u, W(k - 1))
             after == Reader(u, W(k))
  <2>5. Get(before, kinds[k]).value = x /\ Get(before, kinds[k]).rest = after
    BY <2>2, <2>3, <2>4, Zenon DEF ReadsBack
  <2>6. kinds[k] # "none" /\ x = g[k]
    BY <2>3, <2>4, Zenon
  <2> HIDE DEF x, before, after
  <2> DEFINE v == V(k - 1)
             y == V(k)
  <2>7. [v EXCEPT ![k] = x] = y
    <3>1. ASSUME NEW j \in 1 .. m PROVE (IF j = k THEN x ELSE v[j]) = y[j]
      <4>1. v[j] = (IF j <= k - 1 THEN g[j] ELSE 0) /\ y[j] = (IF j <= k THEN g[j] ELSE 0)
        BY Zenon
      <4> HIDE DEF v, y
      <4>2. j <= k <=> (j = k \/ j <= k - 1)
        BY <1>5
      <4> QED
        BY <2>6, <4>1, <4>2, Zenon
    <3>2. [v EXCEPT ![k] = x] = [j \in 1 .. m |-> IF j = k THEN x ELSE v[j]]
      BY Zenon
    <3>3. y = [j \in 1 .. m |-> y[j]]
      BY Zenon
    <3> HIDE DEF v, y
    <3> QED
      BY <3>1, <3>2, <3>3, Zenon
  <2> HIDE DEF v, y
  <2>8. Turn(kinds, [ok |-> TRUE, value |-> v, rest |-> before], k)
          = [ok |-> TRUE, value |-> [v EXCEPT ![k] = x], rest |-> after]
    <3>1. Turn(kinds, [ok |-> TRUE, value |-> v, rest |-> before], k)
            = [ok |-> TRUE, value |-> [v EXCEPT ![k] = Get(before, kinds[k]).value],
               rest |-> Get(before, kinds[k]).rest]
      <4>1. IsTurn(kinds, k, v, before)
        BY <2>6, TurnIs, Zenon
      <4> QED
        BY <4>1, Zenon DEF IsTurn
    <3> QED
      BY <2>5, <3>1, Zenon
  <2>9. Turn(kinds, [ok |-> TRUE, value |-> v, rest |-> before], k)
          = [ok |-> TRUE, value |-> y, rest |-> after]
    BY <2>7, <2>8, Zenon
  <2> QED
    BY <2>9, Zenon DEF v, y, before, after
<1>9. AtField(r, kinds, m, 0) = A(0)
  <2>1. [j \in 1 .. m |-> 0] = V(0)
    BY <1>5
  <2> HIDE DEF V
  <2> QED
    BY <1>2, <1>7, <2>1, Zenon
<1>10. V(m) = g
  <2>1. \A j \in 1 .. m : j <= m
    BY <1>5, SMTT(20)
  <2> QED
    BY <2>1, Zenon
<1> HIDE DEF V, g
<1>11. AtField(r, kinds, m, m) = A(m)
  <2> HIDE DEF A
  <2> DEFINE T == {k \in 0 .. m : AtField(r, kinds, m, k) = A(k)}
  <2>1. 0 \in T
    <3>1. 0 \in 0 .. m
      BY <1>5, SMTT(20)
    <3> QED
      BY <1>9, <3>1, Zenon
  <2>2. ASSUME NEW k \in 0 .. m - 1, k \in T PROVE k + 1 \in T
    <3>1. k + 1 \in 1 .. m /\ (k + 1) - 1 = k /\ k + 1 \in 0 .. m
      BY <1>5
    <3>2. AtField(r, kinds, m, k) = A(k)
      BY <2>2, Zenon
    <3>3. AtField(r, kinds, m, k + 1) = Turn(kinds, AtField(r, kinds, m, k), k + 1)
      BY <1>7, <3>1, Zenon
    <3>4. Turn(kinds, A(k), k + 1) = A(k + 1)
      BY <1>8, <3>1, Zenon
    <3>5. AtField(r, kinds, m, k + 1) = A(k + 1)
      BY <3>2, <3>3, <3>4, Zenon
    <3> QED
      BY <3>1, <3>5, Zenon
  <2> HIDE DEF T
  <2>3. \A k \in 0 .. m : k \in T
    BY <1>5, <2>1, <2>2, UpTo, SMTT(20)
  <2>4. m \in 0 .. m
    BY <1>5, SMTT(20)
  <2> QED
    BY <2>3, <2>4, Zenon DEF T
<1> QED
  BY <1>7, <1>10, <1>11, Zenon DEF g, W, AreReadBack

\* A new stream is empty, and a buffer that is wrapped is read from its
\* beginning.
LEMMA NewIs ==
  ASSUME NEW c
  PROVE  /\ AtEnd(New(c)) /\ New(c).bytes = <<>>
         /\ \A u : Reader(u, New(c)) = Wrap(u)
         /\ c \in Nat /\ c <= PACKET_MAX_LENGTH => Roomy(New(c))
<1> DEFINE d == ToNextPowerOfTwo(c)
           s == New(c)
<1>1. s = [bytes |-> <<>>, capacity |-> d, position |-> 0, bits |-> 0]
  BY Zenon DEF New
<1> HIDE DEF d, s
<1>2. s.bytes = <<>> /\ s.capacity = d /\ s.position = 0 /\ s.bits = 0
  BY <1>1
<1>3. <<>> \in Seq(UByte) /\ 0 \in Nat /\ 0 \in 0 .. 7 /\ Len(<<>>) = 0
  OBVIOUS
<1>4. s \in [bytes : Seq(UByte), capacity : {d}, position : Nat, bits : 0 .. 7]
  BY <1>1, <1>3, Zenon
<1>5. AtEnd(s)
  <2>1. IsStream(s)
    BY <1>2, <1>4, Zenon DEF IsStream
  <2>2. ~ (s.bits > 0) /\ Len(s.bytes) = s.position + 0
    BY <1>2, <1>3, SMTT(20)
  <2> QED
    BY <2>1, <2>2, Zenon DEF AtEnd, Begun
<1>6. \A u : Reader(u, s) = Wrap(u)
  BY <1>2, Zenon DEF Reader, Wrap
<1>7. ASSUME c \in Nat, c <= PACKET_MAX_LENGTH PROVE Roomy(s)
  <2>1. d \in Nat
    BY <1>7, NextPowerIs, Zenon DEF d
  <2>2. Len(s.bytes) <= s.capacity
    BY <1>2, <1>3, <2>1, SMTT(20)
  <2> QED
    BY <1>2, <2>1, <2>2, Zenon DEF Roomy
<1> QED
  BY <1>2, <1>5, <1>6, <1>7, Zenon DEF s

\* The bytes of a stream hold what was written to it.
LEMMA HoldsItself ==
  ASSUME NEW w, AtEnd(w)
  PROVE  Holds(w.bytes, w)
<1>1. /\ w.bytes \in Seq(UByte) /\ w.position \in Nat /\ w.bits \in 0 .. 7
      /\ Len(w.bytes) = w.position + Begun(w)
  BY DEF AtEnd, IsStream
<1>2. Len(w.bytes) <= Len(w.bytes)
  BY <1>1
<1>3. ASSUME w.bits > 0
      PROVE  /\ w.bytes[w.position + 1] <= w.bytes[w.position + 1]
             /\ w.bytes[w.position + 1] < w.bytes[w.position + 1] + Bit(w.bits - 1)
  <2>1. w.position + 1 \in 1 .. Len(w.bytes) /\ w.bits - 1 \in 0 .. 7
    BY <1>1, <1>3 DEF Begun
  <2>2. w.bytes[w.position + 1] \in UByte
    BY <1>1, <2>1
  <2>3. Bit(w.bits - 1) \in Nat \ {0}
    BY <2>1, Bits, Zenon
  <2> QED
    BY <2>2, <2>3, WithinWeight, Zenon
<1> QED
  BY <1>1, <1>2, <1>3, Zenon DEF Holds

\* Who has read all that was written stands at the end.
LEMMA ReadToTheEnd ==
  ASSUME NEW w, AtEnd(w), NEW u
  PROVE  Align(Reader(u, w)).position = Len(w.bytes)
<1>1. w.position \in Nat /\ w.bits \in 0 .. 7 /\ Len(w.bytes) = w.position + Begun(w)
  BY DEF AtEnd, IsStream
<1>2. Align(Reader(u, w)) = RawReader(u, Len(w.bytes))
  BY <1>1, AlignedReader, Zenon
<1>3. RawReader(u, Len(w.bytes)).position = Len(w.bytes)
  BY Zenon DEF RawReader
<1> QED
  BY <1>2, <1>3, Zenon

\* A whole sequence of fields is written within the buffer.
LEMMA RoomForAll ==
  ASSUME NEW s, AtEnd(s), Roomy(s), NEW n \in Nat, NEW fields, AllWritable(fields, n)
  PROVE  AtEnd(PutAll(s, fields)) /\ Roomy(PutAll(s, fields))
<1> DEFINE W(k) == Written(s, fields, n, k)
<1>1. IsWritten(s, fields, n)
  BY PutAllSteps, Zenon DEF AllWritable
<1>2. PutAll(s, fields) = W(n) /\ W(0) = s
  BY <1>1, Zenon DEF IsWritten
<1>3. /\ \A k \in 0 .. n : AtEnd(W(k))
      /\ \A k \in 1 .. n : Follows(W(k - 1), W(k), Extent(fields[k]))
  BY WrittenFollows, Zenon
<1> HIDE DEF W
<1> DEFINE T == {k \in 0 .. n : Roomy(W(k))}
<1>4. 0 \in T
  BY <1>2
<1>5. ASSUME NEW k \in 0 .. n - 1, k \in T PROVE k + 1 \in T
  <2>1. k + 1 \in 1 .. n /\ (k + 1) - 1 = k /\ k + 1 \in 0 .. n
    OBVIOUS
  <2>2. Follows(W(k), W(k + 1), Extent(fields[k + 1]))
    BY <1>3, <2>1, Zenon
  <2>3. Roomy(W(k + 1))
    BY <1>5, <2>2, Zenon DEF Follows
  <2> QED
    BY <2>1, <2>3, Zenon
<1> HIDE DEF T
<1>6. \A k \in 0 .. n : k \in T
  BY <1>4, <1>5, UpTo, SMTT(20)
<1>7. n \in 0 .. n
  OBVIOUS
<1> QED
  BY <1>2, <1>3, <1>6, <1>7, Zenon DEF T

\* Short fields take at most eight bytes each.
LEMMA LengthOfAll ==
  ASSUME NEW s, AtEnd(s), NEW n \in Nat, NEW fields, AllWritable(fields, n),
         \A k \in 1 .. n : Extent(fields[k]) \in Nat /\ Extent(fields[k]) <= 8
  PROVE  Len(PutAll(s, fields).bytes) <= Len(s.bytes) + 8 * n
<1> DEFINE W(k) == Written(s, fields, n, k)
           L(k) == Len(W(k).bytes)
<1>1. IsWritten(s, fields, n)
  BY PutAllSteps, Zenon DEF AllWritable
<1>2. PutAll(s, fields) = W(n) /\ W(0) = s
  BY <1>1, Zenon DEF IsWritten
<1>3. /\ \A k \in 0 .. n : AtEnd(W(k))
      /\ \A k \in 1 .. n : Follows(W(k - 1), W(k), Extent(fields[k]))
  BY WrittenFollows, Zenon
<1> HIDE DEF W
<1>4. \A k \in 0 .. n : L(k) \in Nat
  BY <1>3 DEF AtEnd, IsStream
<1>5. \A k \in 1 .. n : L(k) <= L(k - 1) + Extent(fields[k])
  BY <1>3, Zenon DEF Follows
<1>6. L(0) = Len(s.bytes)
  BY <1>2, Zenon
<1> HIDE DEF L
<1> DEFINE T == {k \in 0 .. n : L(k) <= L(0) + 8 * k}
<1>7. 0 \in T
  BY <1>4
<1>8. ASSUME NEW k \in 0 .. n - 1, k \in T PROVE k + 1 \in T
  <2>1. k + 1 \in 1 .. n /\ (k + 1) - 1 = k /\ k + 1 \in 0 .. n /\ k \in 0 .. n /\ 0 \in 0 .. n
    OBVIOUS
  <2>2. L(k + 1) <= L(k) + Extent(fields[k + 1])
    BY <1>5, <2>1, Zenon
  <2>3. /\ L(k) <= L(0) + 8 * k /\ L(k) \in Nat /\ L(0) \in Nat /\ L(k + 1) \in Nat
        /\ Extent(fields[k + 1]) \in Nat /\ Extent(fields[k + 1]) <= 8
    BY <1>4, <1>8, <2>1, Zenon
  <2> DEFINE a == L(k + 1)
             b == L(k)
             e == Extent(fields[k + 1])
  <2> HIDE DEF a, b, e
  <2>4. a <= L(0) + 8 * (k + 1)
    <3>1. a <= b + e /\ b <= L(0) + 8 * k /\ e <= 8 /\ a \in Nat /\ b \in Nat /\ e \in Nat /\ L(0) \in Nat
      BY <2>2, <2>3, Zenon DEF a, b, e
    <3> QED
      BY <3>1
  <2> QED
    BY <2>1, <2>4, Zenon DEF a
<1> HIDE DEF T
<1>9. \A k \in 0 .. n : k \in T
  BY <1>7, <1>8, UpTo, SMTT(20)
<1>10. n \in 0 .. n
  OBVIOUS
<1>11. L(n) <= L(0) + 8 * n
  BY <1>9, <1>10, Zenon DEF T
<1> QED
  BY <1>2, <1>6, <1>11, Zenon DEF L

\* Whatever fields are written to a new BinaryStream, bits and numbers of any
\* width and strings in any order and number, are read back from its bytes as
\* they were written, with nothing left over, whether or not a field starts
\* within a byte that bits have begun.  As long as they fit a packet they lie
\* within the buffer that Ensure has grown, whatever its capacity was at first.
THEOREM FieldsRoundTrip ==
  ASSUME NEW n \in Nat, NEW fields, DOMAIN fields = 1 .. n, \A k \in 1 .. n : IsField(fields[k]),
         NEW c \in Nat, c <= PACKET_MAX_LENGTH
  PROVE  LET written == PutAll(New(c), fields)
             got == GetAll(Wrap(written.bytes), [k \in DOMAIN fields |-> fields[k][1]])
         IN /\ got.ok /\ got.value = [k \in DOMAIN fields |-> fields[k][2]]
            /\ Align(got.rest).position = Length(written)
            /\ Length(written) <= PACKET_MAX_LENGTH => Length(written) <= written.capacity
<1> DEFINE s == New(c)
           written == PutAll(s, fields)
           u == written.bytes
           kinds == [k \in 1 .. n |-> fields[k][1]]
           got == GetAll(Wrap(u), kinds)
           value == [k \in 1 .. n |-> fields[k][2]]
<1>1. AtEnd(s) /\ Roomy(s) /\ Reader(u, s) = Wrap(u)
  BY NewIs, Zenon
<1> HIDE DEF s
<1>2. AllWritable(fields, n)
  BY Zenon DEF AllWritable, IsWritable
<1>3. AtEnd(written) /\ Roomy(written)
  BY <1>1, <1>2, RoomForAll, Zenon
<1>4. Holds(u, written)
  BY <1>3, HoldsItself, Zenon
<1>5. written = Written(s, fields, n, n)
  <2>1. IsWritten(s, fields, n)
    BY PutAllSteps, Zenon
  <2> QED
    BY <2>1, Zenon DEF IsWritten
<1>6. got = [ok |-> TRUE, value |-> value, rest |-> Reader(u, written)]
  <2>1. n \in 0 .. n
    OBVIOUS
  <2>2. GetAll(Reader(u, s), kinds)
          = [ok |-> TRUE, value |-> value, rest |-> Reader(u, Written(s, fields, n, n))]
    <3> HIDE DEF u, written
    <3>1. Holds(u, PutAll(s, fields))
      BY <1>4, Zenon DEF written
    <3>2. AreReadBack(s, fields, n, n, u)
      BY <1>1, <1>2, <2>1, <3>1, FieldsReadBack, Zenon
    <3> QED
      BY <3>2, Zenon DEF AreReadBack
  <2> HIDE DEF value, kinds, written
  <2> QED
    BY <1>1, <1>5, <2>2, Zenon
<1> DEFINE rest == Reader(u, written)
<1>7. Align(rest).position = Len(u)
  BY <1>3, ReadToTheEnd, Zenon
<1> HIDE DEF got, value, rest
<1>8. got.ok = TRUE /\ got.value = value /\ got.rest = rest
  <2>1. got = [ok |-> TRUE, value |-> value, rest |-> rest]
    BY <1>6, Zenon DEF rest
  <2> QED
    BY <2>1
<1>9. Align(got.rest).position = Length(written)
  BY <1>7, <1>8, Zenon DEF Length
<1>10. Length(written) <= PACKET_MAX_LENGTH => Length(written) <= written.capacity
  BY <1>3, Zenon DEF Length, Roomy
<1>11. kinds = [k \in DOMAIN fields |-> fields[k][1]] /\ value = [k \in DOMAIN fields |-> fields[k][2]]
  BY Zenon DEF value
<1> HIDE DEF kinds, written
<1> QED
  BY <1>8, <1>9, <1>10, <1>11, Zenon DEF got, written, s

\* The sample fields are such fields, and short.
IsShort(f) == IsField(f) /\ Extent(f) \in Nat /\ Extent(f) <= 8

\* Fields of all kinds but long strings are short.
LEMMA ShortIs ==
  /\ \A v \in BOOLEAN : IsShort(<<"bool", v>>)
  /\ \A v \in UByte : IsShort(<<"byte", v>>)
  /\ \A v \in UInt16 : IsShort(<<"int16", v>>)
  /\ \A v \in UInt32 : IsShort(<<"int32", v>>)
  /\ \A v, w \in UInt32 : IsShort(<<"int64", <<v, w>>>>)
  /\ \A v \in Int31 : IsShort(<<"7bit", v>>)
  /\ \A v \in Str31 : Len(v) <= 3 => IsShort(<<"string", v>>)
<1>1. ASSUME NEW f, f[1] # "string", f[1] # "bytes" PROVE Extent(f) \in Nat /\ Extent(f) <= 8
  <2>1. Extent(f) = 8
    BY <1>1, Zenon DEF Extent
  <2> QED
    BY <2>1
<1>2. ASSUME NEW v PROVE LET f == <<"bool", v>> IN f[1] # "string" /\ f[1] # "bytes"
  OBVIOUS
<1>3. ASSUME NEW v PROVE LET f == <<"byte", v>> IN f[1] # "string" /\ f[1] # "bytes"
  OBVIOUS
<1>4. ASSUME NEW v PROVE LET f == <<"int16", v>> IN f[1] # "string" /\ f[1] # "bytes"
  OBVIOUS
<1>5. ASSUME NEW v PROVE LET f == <<"int32", v>> IN f[1] # "string" /\ f[1] # "bytes"
  OBVIOUS
<1>6. ASSUME NEW v PROVE LET f == <<"int64", v>> IN f[1] # "string" /\ f[1] # "bytes"
  OBVIOUS
<1>7. ASSUME NEW v PROVE LET f == <<"7bit", v>> IN f[1] # "string" /\ f[1] # "bytes"
  OBVIOUS
<1>8. ASSUME NEW v \in BOOLEAN PROVE IsShort(<<"bool", v>>)
  BY <1>1, <1>2, Zenon DEF IsShort, IsField
<1>9. ASSUME NEW v \in UByte PROVE IsShort(<<"byte", v>>)
  BY <1>1, <1>3, Zenon DEF IsShort, IsField
<1>10. ASSUME NEW v \in UInt16 PROVE IsShort(<<"int16", v>>)
  BY <1>1, <1>4, Zenon DEF IsShort, IsField
<1>11. ASSUME NEW v \in UInt32 PROVE IsShort(<<"int32", v>>)
  BY <1>1, <1>5, Zenon DEF IsShort, IsField
<1>12. ASSUME NEW v \in UInt32, NEW w \in UInt32 PROVE IsShort(<<"int64", <<v, w>>>>)
  BY <1>1, <1>6, Zenon DEF IsShort, IsField
<1>13. ASSUME NEW v \in Int31 PROVE IsShort(<<"7bit", v>>)
  BY <1>1, <1>7, Zenon DEF IsShort, IsField
<1>14. ASSUME NEW v \in Str31, Len(v) <= 3 PROVE IsShort(<<"string", v>>)
  <2> DEFINE f == <<"string", v>>
  <2>1. f[1] = "string" /\ f[2] = v
    BY PairIs, Zenon
  <2>2. IsField(f)
    BY Zenon DEF IsField
  <2> HIDE DEF f
  <2>3. Extent(f) = 5 + Len(v)
    BY <2>1, Zenon DEF Extent
  <2>4. v \in Seq(UByte)
    BY Zenon DEF Str31
  <2>5. 5 + Len(v) \in Nat /\ 5 + Len(v) <= 8
    BY <1>14, <2>4
  <2> QED
    BY <2>2, <2>3, <2>5, Zenon DEF IsShort, f
<1> QED
  BY <1>8, <1>9, <1>10, <1>11, <1>12, <1>13, <1>14, Zenon

\* The sample values fit their kinds.
LEMMA SampleValueIs ==
  /\ SampleValue("bool") \subseteq BOOLEAN /\ SampleValue("byte") \subseteq UByte
  /\ SampleValue("int16") \subseteq UInt16 /\ SampleValue("int32") \subseteq UInt32
  /\ SampleValue("int64") \subseteq UInt32 \X UInt32 /\ SampleValue("7bit") \subseteq Int31
  /\ \A v \in SampleValue("string") : v \in Str31 /\ Len(v) <= 3
<1>1. SampleValue("bool") = {TRUE}
  BY SMT DEF SampleValue
<1>2. SampleValue("byte") = {255}
  BY SMT DEF SampleValue
<1>3. SampleValue("int16") = {65534}
  BY SMT DEF SampleValue
<1>4. SampleValue("int32") = {2147483647}
  BY SMT DEF SampleValue
<1>5. SampleValue("int64") = {<<1, 65536>>}
  BY SMT DEF SampleValue
<1>6. SampleValue("7bit") = {0, 127, 128, 2097151, 2147483647}
  BY SMT DEF SampleValue
<1>7. SampleValue("string") = {<<>>, <<104, 105>>}
  BY SMT DEF SampleValue
<1>8. SampleValue("bool") \subseteq BOOLEAN
  BY <1>1, Zenon
<1>9. SampleValue("byte") \subseteq UByte
  BY <1>2, SMT DEF UByte
<1>10. SampleValue("int16") \subseteq UInt16
  BY <1>3, SMT DEF UInt16
<1>11. SampleValue("int32") \subseteq UInt32
  BY <1>4, SMTT(20) DEF UInt32
<1>12. SampleValue("int64") \subseteq UInt32 \X UInt32
  BY <1>5, SMTT(20) DEF UInt32
<1>13. SampleValue("7bit") \subseteq Int31
  BY <1>6, SMTT(20) DEF Int31
<1>14. <<>> \in Str31 /\ Len(<<>>) <= 3
  <2>1. <<>> \in Seq(UByte) /\ Len(<<>>) = 0 /\ 0 <= 3
    OBVIOUS
  <2>2. 0 \in Int31
    BY SMTT(20) DEF Int31
  <2> QED
    BY <2>1, <2>2, Zenon DEF Str31
<1>15. <<104, 105>> \in Str31 /\ Len(<<104, 105>>) <= 3
  <2>1. <<104, 105>> \in Seq(UByte) /\ Len(<<104, 105>>) = 2
    BY SMTT(20) DEF UByte
  <2>2. 2 \in Int31
    BY SMTT(20) DEF Int31
  <2>3. Len(<<104, 105>>) \in Int31
    BY <2>1, <2>2, SMTT(20)
  <2> QED
    BY <2>1, <2>3, SMTT(20) DEF Str31
<1>16. ASSUME NEW v \in SampleValue("string") PROVE v \in Str31 /\ Len(v) <= 3
  <2>1. CASE v = <<>>
    BY <1>14, <2>1, Zenon
  <2>2. CASE v = <<104, 105>>
    BY <1>15, <2>2, Zenon
  <2> QED
    BY <1>7, <2>1, <2>2, Zenon
<1> QED
  BY <1>8, <1>9, <1>10, <1>11, <1>12, <1>13, <1>16, Zenon

\* The sample fields are short fields.
LEMMA SampleIs ==
  ASSUME NEW f \in SampleField
  PROVE  IsShort(f)
<1>1. PICK kind \in {"bool", "byte", "int16", "int32", "int64", "7bit", "string"} :
        f \in {kind} \X SampleValue(kind)
  BY Zenon DEF SampleField
<1>2. PICK v \in SampleValue(kind) : f = <<kind, v>>
  BY <1>1, SMTT(20)
<1>3. CASE kind = "bool"
  BY <1>2, <1>3, SampleValueIs, ShortIs, Zenon
<1>4. CASE kind = "byte"
  BY <1>2, <1>4, SampleValueIs, ShortIs, Zenon
<1>5. CASE kind = "int16"
  BY <1>2, <1>5, SampleValueIs, ShortIs, Zenon
<1>6. CASE kind = "int32"
  BY <1>2, <1>6, SampleValueIs, ShortIs, Zenon
<1>7. CASE kind = "int64"
  <2>1. PICK a \in UInt32, b \in UInt32 : v = <<a, b>>
    BY <1>2, <1>7, SampleValueIs, SMTT(20)
  <2> QED
    BY <1>2, <1>7, <2>1, ShortIs, Zenon
<1>8. CASE kind = "7bit"
  BY <1>2, <1>8, SampleValueIs, ShortIs, Zenon
<1>9. CASE kind = "string"
  BY <1>2, <1>9, SampleValueIs, ShortIs, Zenon
<1> QED
  BY <1>1, <1>3, <1>4, <1>5, <1>6, <1>7, <1>8, <1>9, Zenon

\* The sequences of sample fields, after up to nine bits, are sequences of short
\* fields.
LEMMA SamplesAre ==
  ASSUME NEW bits \in 0 .. 9, NEW fields \in SampleFields,
         NEW all, all = [k \in 1 .. bits |-> <<"bool", k % 3 = 0>>] \o fields
  PROVE  \E n \in 0 .. 11 : DOMAIN all = 1 .. n /\ \A k \in 1 .. n : IsShort(all[k])
<1> DEFINE b == [k \in 1 .. bits |-> <<"bool", k % 3 = 0>>]
           S == {f \in SampleField \cup {<<"bool", TRUE>>, <<"bool", FALSE>>} : IsShort(f)}
<1>1. PICK m \in 0 .. 2 : fields \in [1 .. m -> SampleField]
  BY Zenon DEF SampleFields
<1>2. \A f \in SampleField : f \in S
  BY SampleIs, Zenon
<1>3. \A v \in BOOLEAN : <<"bool", v>> \in S
  <2>1. <<"bool", TRUE>> \in S /\ <<"bool", FALSE>> \in S
    BY ShortIs, Zenon
  <2> QED
    BY <2>1, Zenon
<1>4. \A f \in S : IsShort(f)
  BY Zenon
<1> HIDE DEF S
<1>5. b \in Seq(S) /\ Len(b) = bits
  <2>1. \A k \in 1 .. bits : (k % 3 = 0) \in BOOLEAN
    BY Zenon
  <2>2. \A k \in 1 .. bits : <<"bool", k % 3 = 0>> \in S
    BY <1>3, <2>1, Zenon
  <2>3. b \in [1 .. bits -> S]
    BY <2>2, Zenon
  <2> HIDE DEF b
  <2> QED
    BY <2>3
<1>6. fields \in Seq(S) /\ Len(fields) = m
  <2>1. fields \in [1 .. m -> S]
    BY <1>1, <1>2, SMTT(20)
  <2> QED
    BY <2>1
<1> HIDE DEF b
<1>7. b \o fields \in Seq(S) /\ Len(b \o fields) = bits + m
  BY <1>5, <1>6, SMTT(20)
<1>8. all = b \o fields
  BY Zenon DEF b
<1>9. DOMAIN all = 1 .. bits + m /\ \A k \in 1 .. bits + m : all[k] \in S
  <2> HIDE DEF S
  <2>1. all \in Seq(S) /\ Len(all) = bits + m
    BY <1>7, <1>8, Zenon
  <2>2. \A q \in Seq(S) : DOMAIN q = 1 .. Len(q) /\ \A k \in 1 .. Len(q) : q[k] \in S
    BY SMT
  <2> QED
    BY <2>1, <2>2, Zenon
<1>10. bits + m \in 0 .. 11
  OBVIOUS
<1> QED
  BY <1>4, <1>9, <1>10, Zenon

\* FieldsSurvive is a fact about BinaryStream's operators, not about a state.
LEMMA FieldsSurviveThere == FieldsSurvive
<1> SUFFICES ASSUME NEW bits \in 0 .. 9, NEW fields \in SampleFields
             PROVE  LET all == [k \in 1 .. bits |-> <<"bool", k % 3 = 0>>] \o fields
                        written == PutAll(New(1), all)
                        got == GetAll(Wrap(written.bytes), [k \in DOMAIN all |-> all[k][1]])
                    IN /\ got.value = [k \in DOMAIN all |-> all[k][2]]
                       /\ Align(got.rest).position = Length(written)
                       /\ Length(written) <= written.capacity
  BY Zenon DEF FieldsSurvive
<1> DEFINE all == [k \in 1 .. bits |-> <<"bool", k % 3 = 0>>] \o fields
           written == PutAll(New(1), all)
           got == GetAll(Wrap(written.bytes), [k \in DOMAIN all |-> all[k][1]])
<1>1. PICK n \in 0 .. 11 : DOMAIN all = 1 .. n /\ \A k \in 1 .. n : IsShort(all[k])
  BY SamplesAre, Zenon
<1> HIDE DEF all
<1>2. n \in Nat /\ 1 \in Nat /\ 1 <= PACKET_MAX_LENGTH
  BY SMT DEF PACKET_MAX_LENGTH
<1>3. \A k \in 1 .. n : IsField(all[k]) /\ Extent(all[k]) \in Nat /\ Extent(all[k]) <= 8
  BY <1>1, Zenon DEF IsShort
<1>4. /\ got.value = [k \in DOMAIN all |-> all[k][2]]
      /\ Align(got.rest).position = Length(written)
      /\ Length(written) <= PACKET_MAX_LENGTH => Length(written) <= written.capacity
  BY <1>1, <1>2, <1>3, FieldsRoundTrip, Zenon
<1>5. Length(written) <= PACKET_MAX_LENGTH
  <2>1. AtEnd(New(1)) /\ New(1).bytes = <<>> /\ Roomy(New(1))
    BY <1>2, NewIs, Zenon
  <2>2. AllWritable(all, n)
    BY <1>1, <1>3, Zenon DEF AllWritable, IsWritable
  <2>3. Len(written.bytes) <= Len(New(1).bytes) + 8 * n /\ AtEnd(written)
    BY <1>2, <1>3, <2>1, <2>2, LengthOfAll, RoomForAll, Zenon
  <2> HIDE DEF written
  <2>4. Len(written.bytes) \in Nat
    BY <2>3 DEF AtEnd, IsStream
  <2>5. Len(New(1).bytes) = 0
    BY <2>1
  <2>6. Len(written.bytes) <= 0 + 8 * n
    BY <2>3, <2>5, Zenon
  <2>7. Len(written.bytes) <= PACKET_MAX_LENGTH
    BY <1>2, <2>4, <2>6, SMTT(20) DEF PACKET_MAX_LENGTH
  <2> QED
    BY <2>7, Zenon DEF Length
<1> HIDE DEF written, got
<1>6. /\ got.value = [k \in DOMAIN all |-> all[k][2]]
      /\ Align(got.rest).position = Length(written)
      /\ Length(written) <= written.capacity
  BY <1>4, <1>5, Zenon
<1> QED
  BY <1>6, Zenon DEF all, written, got

\* FieldsSurvive, the round trip of the sample fields after any number of bits,
\* holds in every state.
THEOREM FieldsSurviveHolds == Spec => []FieldsSurvive
BY FieldsSurviveThere, PTL

\* A sequence of two elements.
LEMMA TwoIs ==
  ASSUME NEW q, DOMAIN q = 1 .. 2, q = [k \in 1 .. 2 |-> q[k]], NEW a, NEW b, q[1] = a, q[2] = b
  PROVE  q = <<a, b>>
<1>1. DOMAIN <<a, b>> = 1 .. 2 /\ <<a, b>> = [k \in 1 .. 2 |-> <<a, b>>[k]]
      /\ <<a, b>>[1] = a /\ <<a, b>>[2] = b
  OBVIOUS
<1>2. \A k \in 1 .. 2 : k = 1 \/ k = 2
  OBVIOUS
<1>3. \A k \in 1 .. 2 : q[k] = <<a, b>>[k]
  BY <1>1, <1>2, Zenon
<1> QED
  BY <1>1, <1>3, Zenon

\* Of a signal that fits one packet, the only kind that gets to the handler of RPC
\* packets, the handler finds the identifier and the parameters that Peer's
\* RpcSignal was called with, whatever they are: the stream that the sender fills
\* is read by the receiver up to its end.
THEOREM SignalsRoundTrip ==
  ASSUME NEW identifier \in Str31, NEW params \in Str31,
         IsWhole(RpcSignal(identifier, params))
  PROVE  OnRpcSignal(RpcSignal(identifier, params)) = <<identifier, params>>
<1> DEFINE s == New(Len(params) + Len(identifier) + 16)
           f == <<"string", identifier>>
           g == <<"7bit", Len(params)>>
           h == <<"bytes", params>>
           fields == <<f, g, h>>
           w == PutAll(s, fields)
           u == w.bytes
           W(k) == Written(s, fields, 3, k)
<1>1. IsField(f) /\ IsField(g) /\ IsWritable(h) /\ params \in Seq(UByte)
  BY Zenon DEF IsField, IsWritable, Str31
<1>2. f[1] = "string" /\ f[2] = identifier /\ g[1] = "7bit" /\ g[2] = Len(params)
      /\ h[1] = "bytes" /\ h[2] = params
  BY PairIs, Zenon
<1>3. RpcSignal(identifier, params) = ReleaseBuffer(w)
  BY Zenon DEF RpcSignal
<1>4. AtEnd(s) /\ \A x : Reader(x, s) = Wrap(x)
  BY NewIs, Zenon
<1> HIDE DEF s, f, g, h
<1>5. DOMAIN fields = 1 .. 3 /\ fields[1] = f /\ fields[2] = g /\ fields[3] = h
  OBVIOUS
<1> HIDE DEF fields, w
<1>6. 3 \in Nat /\ 2 \in 0 .. 3 /\ 2 \in 1 .. 2 /\ 1 \in 1 .. 2 /\ 3 \in 1 .. 3 /\ 3 - 1 = 2 /\ 3 \in 0 .. 3
  OBVIOUS
<1>7. AllWritable(fields, 3) /\ \A k \in 1 .. 2 : IsField(fields[k])
  <2>1. (\A k \in 1 .. 3 : k = 1 \/ k = 2 \/ k = 3) /\ (\A k \in 1 .. 2 : k = 1 \/ k = 2)
    OBVIOUS
  <2>2. \A k \in 1 .. 2 : IsField(fields[k])
    BY <1>1, <1>5, <2>1, Zenon
  <2>3. IsWritable(f) /\ IsWritable(g)
    BY <1>1, Zenon DEF IsWritable
  <2>4. \A k \in 1 .. 3 : IsWritable(fields[k])
    BY <1>1, <1>5, <2>1, <2>3, Zenon
  <2> QED
    BY <1>5, <2>2, <2>4, Zenon DEF AllWritable
<1>8. w = W(3) /\ W(3) = Put(W(2), h)
  <2>1. IsWritten(s, fields, 3)
    BY <1>5, <1>6, PutAllSteps, Zenon
  <2> QED
    BY <1>5, <1>6, <2>1, Zenon DEF IsWritten, w
<1>9. AtEnd(W(2)) /\ AtEnd(W(3))
  BY <1>4, <1>6, <1>7, WrittenFollows, Zenon
<1>10. w = WriteBytes(W(2), params)
  <2>1. Put(W(2), h) = WriteBytes(W(2), h[2])
    BY <1>2, PutIs, Zenon
  <2> QED
    BY <1>2, <1>8, <2>1, Zenon
<1>11. Holds(u, w)
  BY <1>8, <1>9, HoldsItself, Zenon
<1>12. AreReadBack(s, fields, 3, 2, u)
  BY <1>4, <1>6, <1>7, <1>11, FieldsReadBack, Zenon DEF w
<1> DEFINE kinds == [k \in 1 .. 2 |-> fields[k][1]]
           value == [k \in 1 .. 2 |-> fields[k][2]]
           got == GetAll(Wrap(u), kinds)
<1>13. kinds = <<"string", "7bit">>
  <2>1. DOMAIN kinds = 1 .. 2 /\ kinds = [k \in 1 .. 2 |-> kinds[k]]
    BY Zenon
  <2>2. kinds[1] = "string" /\ kinds[2] = "7bit"
    BY <1>2, <1>5, <1>6, Zenon
  <2> HIDE DEF kinds
  <2> QED
    BY <2>1, <2>2, TwoIs, Zenon
<1>14. value[1] = identifier /\ value[2] = Len(params)
  BY <1>2, <1>5, <1>6, Zenon
<1>15. got = [ok |-> TRUE, value |-> value, rest |-> Reader(u, W(2))]
  BY <1>4, <1>12, Zenon DEF AreReadBack
<1> HIDE DEF kinds, value, u, W
<1>16. got.value = value /\ got.rest = Reader(u, W(2))
  <2> DEFINE rest == Reader(u, W(2))
  <2>1. got = [ok |-> TRUE, value |-> value, rest |-> rest]
    BY <1>15, Zenon
  <2> HIDE DEF rest, got
  <2>2. got.value = value /\ got.rest = rest
    BY <2>1
  <2> QED
    BY <2>2, Zenon DEF rest
<1>17. OnRpcSignal(u) = <<got.value[1], ReadBytes(got.rest, got.value[2]).value>>
  BY <1>13, Zenon DEF OnRpcSignal, ReadParams
<1>18. ReadBytes(Reader(u, W(2)), Len(params)) = Got(params, Reader(u, WriteBytes(W(2), params)))
  <2>1. Holds(u, WriteBytes(W(2), params))
    BY <1>10, <1>11, Zenon
  <2> QED
    BY <1>1, <1>9, <2>1, ReadBytesIs, Zenon
<1>19. ReadBytes(Reader(u, W(2)), Len(params)).value = params
  BY <1>18, GotFrom, Zenon
<1> HIDE DEF got
<1>20. OnRpcSignal(u) = <<identifier, params>>
  BY <1>14, <1>16, <1>17, <1>19, Zenon
<1>21. ReleaseBuffer(w) = u
  <2>1. AtEnd(w)
    BY <1>8, <1>9, Zenon
  <2>2. Align(w).bytes = w.bytes
    BY <2>1, AlignIs, Zenon DEF AtEnd
  <2> QED
    BY <2>2, Zenon DEF ReleaseBuffer, u
<1> QED
  BY <1>3, <1>20, <1>21, Zenon DEF w, fields, u

\* SignalsSurvive is a fact about the writer and the reader of a signal, not
\* about a state.
LEMMA SignalsSurviveThere == SignalsSurvive
<1> SUFFICES ASSUME NEW i \in {1, 127, 128}, NEW p \in ParamLengths
             PROVE  LET identifier == [k \in 1 .. i |-> 65 + (k % 26)]
                        params == [k \in 1 .. p |-> k % 256]
                    IN IsWhole(RpcSignal(identifier, params)) =>
                         OnRpcSignal(RpcSignal(identifier, params)) = <<identifier, params>>
  BY ZenonT(60) DEF SignalsSurvive
<1> DEFINE identifier == [k \in 1 .. i |-> 65 + (k % 26)]
           params == [k \in 1 .. p |-> k % 256]
<1>1. i \in Int31 /\ p \in Int31 /\ i \in Nat /\ p \in Nat
  BY SMT DEF Int31, ParamLengths
<1>2. \A k \in 1 .. i : 65 + (k % 26) \in UByte
  BY <1>1, SMT DEF UByte
<1>3. \A k \in 1 .. p : k % 256 \in UByte
  BY <1>1, SMT DEF UByte
<1>4. identifier \in [1 .. i -> UByte] /\ params \in [1 .. p -> UByte]
  BY <1>2, <1>3, SMTT(20)
<1> HIDE DEF identifier, params
<1>5. identifier \in Seq(UByte) /\ Len(identifier) = i /\ params \in Seq(UByte) /\ Len(params) = p
  BY <1>1, <1>4, SMTT(20)
<1>6. identifier \in Str31 /\ params \in Str31
  BY <1>1, <1>5, SMTT(20) DEF Str31
<1>7. IsWhole(RpcSignal(identifier, params)) =>
        OnRpcSignal(RpcSignal(identifier, params)) = <<identifier, params>>
  BY <1>6, SignalsRoundTrip, SMTT(20)
<1> QED
  BY <1>7, SMT DEF identifier, params

\* SignalsSurvive, the round trip of the sample signals, holds in every state.
THEOREM SignalsSurviveHolds == Spec => []SignalsSurvive
BY SignalsSurviveThere, PTL
=============================================================================
