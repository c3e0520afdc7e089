------------------------- MODULE ChannelBuffer_proofs -------------------------
(***************************************************************************)
(* Proofs about ChannelBuffer: it implements OrderedDelivery, for any size *)
(* of the sequence numbers and any number of messages that overtake one    *)
(* another or are lost within the window that the comparisons allow.       *)
(***************************************************************************)
EXTENDS ChannelBuffer, FiniteSetTheorems, WellFoundedInduction, TLAPS

(***************************************************************************)
(* Arithmetic modulo the number of sequence numbers.                       *)
(***************************************************************************)

\* What the remainder is.
LEMMA ModRange ==
  ASSUME NEW n \in Nat, n > 0, NEW a \in Int
  PROVE  a % n \in 0 .. n - 1 /\ a \div n \in Int /\ a = n * (a \div n) + (a % n)
OBVIOUS

\* No multiple of n but 0 lies between -n and n.
LEMMA Multiple ==
  ASSUME NEW n \in Nat, n > 0, NEW d \in Int, - n < n * d, n * d < n
  PROVE  d = 0
<1>1. CASE d >= 1
  <2>1. n * d >= n
    BY <1>1
  <2> QED
    BY <2>1
<1>2. CASE d <= -1
  <2>1. n * d <= - n
    BY <1>2
  <2> QED
    BY <2>1
<1> QED
  BY <1>1, <1>2

\* The remainder is the only one.
LEMMA ModUnique ==
  ASSUME NEW n \in Nat, n > 0, NEW q \in Int, NEW r \in 0 .. n - 1
  PROVE  (n * q + r) % n = r
<1> DEFINE a == n * q + r
           p == a \div n
           s == a % n
<1>1. a \in Int
  OBVIOUS
<1>2. s \in 0 .. n - 1 /\ p \in Int /\ a = n * p + s
  BY <1>1, ModRange, Zenon
<1>3. n * (q - p) = s - r
  <2>1. n * (q - p) = n * q - n * p
    BY <1>2
  <2> QED
    BY <1>2, <2>1
<1> HIDE DEF a, p, s
<1>4. q - p = 0
  <2>1. q - p \in Int /\ - n < n * (q - p) /\ n * (q - p) < n
    BY <1>2, <1>3
  <2> QED
    BY <2>1, Multiple, Zenon
<1>5. n * (q - p) = 0
  BY <1>2, <1>4
<1> QED
  BY <1>2, <1>3, <1>5 DEF s, a

\* Numbers below n are their own remainders.
LEMMA ModSmall ==
  ASSUME NEW n \in Nat, n > 0, NEW a \in 0 .. n - 1
  PROVE  a % n = a
OBVIOUS

\* The remainder of the next number.
LEMMA ModSucc ==
  ASSUME NEW n \in Nat, n > 0, NEW a \in Nat
  PROVE  ((a % n) + 1) % n = (a + 1) % n
<1>0. PICK q \in Int, r \in 0 .. n - 1 : q = a \div n /\ r = a % n /\ a = n * q + r
  BY ModRange
<1>1. CASE r + 1 < n
  <2>1. (n * q + (r + 1)) % n = r + 1
    BY <1>1, ModUnique
  <2>2. (r + 1) % n = r + 1
    BY <1>1, ModSmall
  <2>3. a + 1 = n * q + (r + 1)
    BY <1>0
  <2> QED
    BY <1>0, <2>1, <2>2, <2>3, Zenon
<1>2. CASE r + 1 = n
  <2>1. (n * (q + 1) + 0) % n = 0 /\ (n * 1 + 0) % n = 0
    BY ModUnique
  <2>2. a + 1 = n * (q + 1) + 0 /\ r + 1 = n * 1 + 0
    BY <1>0, <1>2
  <2> QED
    BY <1>0, <2>1, <2>2, Zenon
<1> QED
  BY <1>0, <1>1, <1>2

\* The difference of two numbers that are less than n apart can be told from
\* their remainders.
LEMMA ModDiff ==
  ASSUME NEW n \in Nat, n > 0, NEW a \in Nat, NEW b \in Nat, a - b \in 0 .. n - 1
  PROVE  ((a % n) - (b % n)) % n = a - b
<1>1. PICK q \in Int, r \in 0 .. n - 1 : r = a % n /\ a = n * q + r
  BY ModRange
<1>2. PICK p \in Int, s \in 0 .. n - 1 : s = b % n /\ b = n * p + s
  BY ModRange
<1>3. r - s = n * (p - q) + (a - b)
  <2>1. n * (p - q) = n * p - n * q
    BY <1>1, <1>2
  <2> QED
    BY <1>1, <1>2, <2>1
<1>4. (n * (p - q) + (a - b)) % n = a - b
  <2>1. p - q \in Int
    OBVIOUS
  <2> QED
    BY <2>1, ModUnique, Zenon
<1> QED
  BY <1>1, <1>2, <1>3, <1>4, Zenon

-----------------------------------------------------------------------------
(***************************************************************************)
(* The sets of sequence numbers that Dequeue walks through.                *)
(***************************************************************************)

\* A nonempty set of naturals has a least element.
LEMMA LeastExists ==
  ASSUME NEW S, S \subseteq Nat, S # {}
  PROVE  \E m \in S : \A k \in S : m <= k
<1>1. PICK m \in S : \A k \in S : ~ (<<k, m>> \in OpToRel(<, Nat))
  BY WFMin, NatLessThanWellFounded, Zenon
<1>2. \A k \in S : k \in Nat /\ m \in Nat /\ ~ (k < m)
  BY <1>1, Zenon DEF OpToRel
<1> QED
  BY <1>2

\* The last number of an interval.
LEMMA MaxRun ==
  ASSUME NEW a \in Nat, NEW n \in Nat, a < n
  PROVE  Max(a .. n - 1) = n - 1
<1>1. n - 1 \in a .. n - 1 /\ \A y \in a .. n - 1 : n - 1 >= y
  OBVIOUS
<1>2. \A x \in a .. n - 1 : (\A y \in a .. n - 1 : x >= y) => x = n - 1
  OBVIOUS
<1> QED
  BY <1>1, <1>2, Zenon DEF Max

\* The messages of consecutive entries come in the order of their numbers.
LEMMA PayloadsRun ==
  ASSUME NEW map, NEW a \in Nat, NEW n \in Nat, a <= n,
         \A s \in a .. n - 1 : map[s] = s
  PROVE  Payloads(map, a .. n - 1) = [k \in 1 .. n - a |-> a + k - 1]
<1> DEFINE below(s) == {x \in a .. n - 1 : x < s}
<1>1. Cardinality(a .. n - 1) = n - a
  BY FS_Interval
<1>2. \A s \in a .. n - 1 : Cardinality(below(s)) = s - a
  <2> TAKE s \in a .. n - 1
  <2>1. below(s) = a .. s - 1
    OBVIOUS
  <2>2. Cardinality(a .. s - 1) = s - a
    BY FS_Interval
  <2> QED
    BY <2>1, <2>2, Zenon
<1> HIDE DEF below
<1>3. ASSUME NEW k \in 1 .. n - a
      PROVE  map[CHOOSE s \in a .. n - 1 : Cardinality(below(s)) = k - 1] = a + k - 1
  <2>1. a + k - 1 \in a .. n - 1 /\ Cardinality(below(a + k - 1)) = k - 1
    BY <1>2
  <2>2. \A s \in a .. n - 1 : Cardinality(below(s)) = k - 1 => s = a + k - 1
    BY <1>2
  <2>3. (CHOOSE s \in a .. n - 1 : Cardinality(below(s)) = k - 1) = a + k - 1
    BY <2>1, <2>2, Zenon
  <2> QED
    BY <2>1, <2>3, Zenon
<1>4. Payloads(map, a .. n - 1) =
        [k \in 1 .. n - a |-> map[CHOOSE s \in a .. n - 1 : Cardinality(below(s)) = k - 1]]
  BY <1>1, Zenon DEF Payloads, below
<1> QED
  BY <1>3, <1>4, Zenon

\* The same for a single entry.
LEMMA PayloadsOne ==
  ASSUME NEW map, NEW s \in Nat
  PROVE  Payloads(map, {s}) = [k \in 1 .. 1 |-> map[s]]
<1>1. Cardinality({s}) = 1
  BY FS_Singleton, Zenon
<1>2. {x \in {s} : x < s} = {}
  OBVIOUS
<1>3. ASSUME NEW k \in 1 .. 1
      PROVE  (CHOOSE t \in {s} : Cardinality({x \in {s} : x < t}) = k - 1) = s
  <2>1. k - 1 = 0
    OBVIOUS
  <2>2. Cardinality({x \in {s} : x < s}) = k - 1
    BY <1>2, <2>1, FS_EmptySet, Zenon
  <2> QED
    BY <2>2, Zenon
<1>4. Payloads(map, {s}) =
        [k \in 1 .. 1 |-> map[CHOOSE t \in {s} : Cardinality({x \in {s} : x < t}) = k - 1]]
  BY <1>1, Zenon DEF Payloads
<1> QED
  BY <1>3, <1>4, Zenon

\* Taking nothing hands over nothing.
LEMMA PayloadsNone ==
  ASSUME NEW map
  PROVE  Payloads(map, {}) = <<>>
<1>1. Cardinality({}) = 0
  BY FS_EmptySet, Zenon
<1> QED
  BY <1>1 DEF Payloads

-----------------------------------------------------------------------------
(***************************************************************************)
(* What repeated calls of Dequeue take from the map of an ordered channel. *)
(***************************************************************************)

\* HalfSpan is a natural number below SPAN.
LEMMA HalfSpanType == HalfSpan \in Nat /\ HalfSpan < SPAN
BY SpanAssumption DEF HalfSpan

\* When the entries before x are those from m_nextDequeue to n - 1, m_nextDequeue
\* is n by the time that x is looked at.
LEMMA NextAfterRun ==
  ASSUME NEW map, NEW x, NEW n \in Nat, nextDequeue \in Nat, nextDequeue <= n, n < SPAN,
         {y \in DOMAIN map : y < x} = nextDequeue .. n - 1
  PROVE  NextAt(map, x) = n
<1>1. CASE nextDequeue = n
  <2>1. nextDequeue .. n - 1 = {}
    BY <1>1
  <2> QED
    BY <1>1, <2>1, Zenon DEF NextAt
<1>2. CASE nextDequeue < n
  <2>1. nextDequeue .. n - 1 # {}
    <3>1. n - 1 \in nextDequeue .. n - 1
      BY <1>2
    <3> QED
      BY <3>1, Zenon
  <2>2. Max(nextDequeue .. n - 1) = n - 1
    BY <1>2, MaxRun, Zenon
  <2>3. Succ(n - 1) = n
    <3>1. SPAN \in Nat /\ SPAN > 0 /\ n \in 0 .. SPAN - 1 /\ (n - 1) + 1 = n
      BY SpanAssumption
    <3>2. n % SPAN = n
      BY <3>1, ModSmall, Zenon
    <3> QED
      BY <3>1, <3>2, Zenon DEF Succ
  <2> QED
    BY <2>1, <2>2, <2>3, Zenon DEF NextAt
<1> QED
  BY <1>1, <1>2

\* A number ahead of the next one, by no more than half of all, is not eligible.
LEMMA AheadIsNotEligible ==
  ASSUME mode = "ORDERED", NEW n \in Nat, NEW x \in Nat, n < x, x < SPAN, x - n <= HalfSpan
  PROVE  ~ IsEligible(n, x)
<1>1. (x - n) % SPAN = x - n
  BY SpanAssumption, ModSmall
<1> QED
  BY <1>1, HalfSpanType DEF IsEligible, SequenceGreaterThanOrEqual

\* Dequeue takes the entries from m_nextDequeue up to the first number that the
\* map does not have, provided that no gap in the map is too wide.
LEMMA DequeuedIsRun ==
  ASSUME mode = "ORDERED", NEW map, NEW top \in Nat, top < SPAN,
         nextDequeue \in Nat, nextDequeue <= top,
         DOMAIN map \subseteq nextDequeue .. top - 1,
         \A x \in DOMAIN map : \A lo \in nextDequeue .. x - 1 :
           (\A y \in lo .. x - 1 : y \notin DOMAIN map) => x - lo <= HalfSpan
  PROVE  \E n \in nextDequeue .. top :
           /\ Dequeued(map) = nextDequeue .. n - 1
           /\ nextDequeue .. n - 1 \subseteq DOMAIN map
           /\ n \notin DOMAIN map
<1> DEFINE Free == {k \in nextDequeue .. top : k \notin DOMAIN map}
<1>1. PICK n \in Free : \A k \in Free : n <= k
  <2>1. Free \subseteq Nat /\ top \in Free
    OBVIOUS
  <2> QED
    BY <2>1, LeastExists, Zenon
<1>2. n \in nextDequeue .. top /\ n \notin DOMAIN map /\ n \in Nat
  BY <1>1
<1>3. \A s \in nextDequeue .. n - 1 : s \in DOMAIN map
  BY <1>1, <1>2
<1>4. ASSUME NEW s \in nextDequeue .. n - 1
      PROVE  s \in Dequeued(map)
  <2>1. ASSUME NEW x \in DOMAIN map, x <= s
        PROVE  IsEligible(NextAt(map, x), x)
    <3>1. x \in Nat /\ nextDequeue <= x /\ x < SPAN
      BY <2>1, SpanAssumption
    <3>2. {y \in DOMAIN map : y < x} = nextDequeue .. x - 1
      BY <1>2, <1>3, <2>1, <3>1
    <3>3. NextAt(map, x) = x
      BY <3>1, <3>2, NextAfterRun, Zenon
    <3> QED
      BY <3>3, Zenon DEF IsEligible, SequenceGreaterThanOrEqual
  <2> QED
    BY <1>3, <2>1, Zenon DEF Dequeued
<1>5. ASSUME NEW s \in Dequeued(map)
      PROVE  s \in nextDequeue .. n - 1
  <2>0. s \in DOMAIN map /\ \A x \in DOMAIN map : x <= s => IsEligible(NextAt(map, x), x)
    BY Zenon DEF Dequeued
  <2>1. SUFFICES ASSUME s > n
                 PROVE  FALSE
    BY <1>2, <2>0
  <2> DEFINE Later == {k \in DOMAIN map : k > n}
  <2>2. PICK x \in Later : \A k \in Later : x <= k
    <3>1. Later \subseteq Nat /\ s \in Later
      BY <1>2, <2>0, <2>1
    <3> QED
      BY <3>1, LeastExists, Zenon
  <2>3. x \in Nat /\ x \in DOMAIN map /\ n < x /\ x <= s /\ x < SPAN
    BY <1>2, <2>0, <2>1, <2>2, SpanAssumption
  <2>4. \A y \in n .. x - 1 : y \notin DOMAIN map
    BY <1>2, <2>2, <2>3
  <2>5. {y \in DOMAIN map : y < x} = nextDequeue .. n - 1
    BY <1>2, <1>3, <2>3, <2>4
  <2>6. NextAt(map, x) = n
    <3>1. nextDequeue <= n /\ n < SPAN
      BY <1>2, SpanAssumption
    <3> QED
      BY <1>2, <2>5, <3>1, NextAfterRun, Zenon
  <2>7. x - n <= HalfSpan
    BY <1>2, <2>3, <2>4
  <2>8. ~ IsEligible(n, x)
    BY <1>2, <2>3, <2>7, AheadIsNotEligible, Zenon
  <2> QED
    BY <2>0, <2>3, <2>6, <2>8, Zenon
<1> QED
  BY <1>2, <1>3, <1>4, <1>5, Zenon

-----------------------------------------------------------------------------
(***************************************************************************)
(* Steps of an ordered channel.                                            *)
(***************************************************************************)

\* Missing is finite, whatever the state.
LEMMA MissingFinite ==
  ASSUME Len(inbox) \in Nat, sent \in Nat
  PROVE  IsFiniteSet(Missing) /\ Cardinality(Missing) \in Nat
<1>1. IsFiniteSet(Len(inbox) .. sent - 1) /\ Missing \in SUBSET (Len(inbox) .. sent - 1)
  <2>1. sent - 1 \in Int /\ Len(inbox) \in Int
    OBVIOUS
  <2>2. Missing \subseteq Len(inbox) .. sent - 1
    BY Zenon DEF Missing
  <2> QED
    BY <2>1, <2>2, FS_Interval, Zenon
<1> QED
  BY <1>1, FS_Subset, FS_CardinalityType, Zenon

\* On an ordered channel a message carries its own number, without the wrap.
LEMMA OrderedNumbers ==
  ASSUME ChannelInv, mode = "ORDERED"
  PROVE  /\ sent \in Nat /\ sent < SPAN /\ SPAN \in Nat /\ Len(inbox) \in Nat
         /\ \A m \in transit : m.message \in 0 .. sent - 1 /\ m.sequence = m.message
<1>1. sent \in 0 .. MaxMessages["ORDERED"] /\ MaxMessages["ORDERED"] \in Nat /\ inbox \in Seq(Nat)
  BY BoundAssumption, Zenon DEF ChannelInv, TypeOK, ChannelMode
<1>2. sent \in Nat /\ sent < SPAN /\ SPAN \in Nat /\ SPAN > 0 /\ Len(inbox) \in Nat
  BY <1>1, WindowAssumption, SpanAssumption
<1>3. ASSUME NEW m \in transit
      PROVE  m.message \in 0 .. sent - 1 /\ m.sequence = m.message
  <2>1. m.message \in 0 .. sent - 1 /\ m.sequence = m.message % SPAN
    BY Zenon DEF ChannelInv, TypeOK, TransitOK
  <2>2. m.message \in 0 .. SPAN - 1
    BY <1>2, <2>1
  <2> QED
    BY <1>2, <2>1, <2>2, ModSmall, Zenon
<1> QED
  BY <1>2, <1>3, Zenon

\* A gap in the map is no wider than half of all numbers: the messages that belong
\* there are lost, or in transit and therefore among the last that were sent.
LEMMA GapIsNarrow ==
  ASSUME ChannelInv, mode = "ORDERED", NEW x \in 0 .. sent - 1, NEW lo \in Nat,
         Len(inbox) <= lo, lo < x,
         \A y \in lo .. x - 1 : y \notin DOMAIN backlog
  PROVE  x - lo <= HalfSpan
<1>0. sent \in Nat /\ Len(inbox) \in Nat /\ \A m \in transit : m.message \in 0 .. sent - 1
  BY OrderedNumbers, Zenon
<1>1. lo .. x - Spread \subseteq Missing
  <2> SUFFICES ASSUME NEW y \in lo .. x - Spread
               PROVE  y \in Missing
    BY Zenon
  <2>1. y \in lo .. x - 1 /\ y \in Len(inbox) .. sent - 1 /\ sent - y > Spread
    BY <1>0, BoundAssumption
  <2>2. ASSUME NEW m \in transit
        PROVE  m.message # y
    <3>1. sent - m.message <= Spread
      BY Zenon DEF ChannelInv, TransitOK
    <3> QED
      BY <2>1, <3>1, <1>0, BoundAssumption
  <2> QED
    BY <2>1, <2>2, Zenon DEF Missing
<1>2. Cardinality(lo .. x - Spread) <= Cardinality(Missing)
  BY <1>0, <1>1, MissingFinite, FS_Subset, Zenon
<1>3. Cardinality(Missing) <= MaxLost
  BY <1>0, MissingFinite, BoundAssumption DEF ChannelInv, TypeOK, OrderedOK
<1>4. Cardinality(lo .. x - Spread) = IF lo > x - Spread THEN 0 ELSE x - Spread - lo + 1
  <2>1. lo \in Int /\ x - Spread \in Int
    BY BoundAssumption
  <2> QED
    BY <2>1, FS_Interval, Zenon
<1>5. Cardinality(Missing) \in Nat
  BY <1>0, MissingFinite, Zenon
<1>6. CASE lo > x - Spread
  BY <1>6, BoundAssumption, WindowAssumption, HalfSpanType
<1>7. CASE ~ (lo > x - Spread)
  BY <1>7, <1>2, <1>3, <1>4, <1>5, BoundAssumption, WindowAssumption, HalfSpanType
<1> QED
  BY <1>6, <1>7, Zenon

\* The entry that Enqueue adds.
LEMMA OrderedEnqueue ==
  ASSUME ChannelInv, mode = "ORDERED", NEW m \in transit
  PROVE  /\ DOMAIN Enqueued(m) = DOMAIN backlog \cup {m.message}
         /\ \A s \in DOMAIN Enqueued(m) : Enqueued(m)[s] = s
<1>1. m.sequence = m.message /\ m.message \notin DOMAIN backlog /\ ~ IsStale(m.sequence)
  BY OrderedNumbers, Zenon DEF ChannelInv, OrderedOK, IsStale
<1>2. Enqueued(m) = [s \in DOMAIN backlog \cup {m.message} |->
                       IF s = m.message THEN m.message ELSE backlog[s]]
  BY <1>1, Zenon DEF Enqueued
<1>3. \A s \in DOMAIN backlog : backlog[s] = s
  BY Zenon DEF ChannelInv, OrderedOK
<1> QED
  BY <1>2, <1>3, Zenon

\* What Dequeue takes after that: the messages that are next in order.
LEMMA OrderedDequeue ==
  ASSUME ChannelInv, mode = "ORDERED", NEW m \in transit
  PROVE  \E n \in Len(inbox) .. sent :
           /\ Dequeued(Enqueued(m)) = Len(inbox) .. n - 1
           /\ Len(inbox) .. n - 1 \subseteq DOMAIN Enqueued(m)
           /\ n \notin DOMAIN Enqueued(m)
<1>0. /\ sent \in Nat /\ sent < SPAN /\ SPAN \in Nat /\ Len(inbox) \in Nat
      /\ m.message \in 0 .. sent - 1
  BY OrderedNumbers, Zenon
<1>1. /\ nextDequeue = Len(inbox) /\ Len(inbox) <= sent
      /\ DOMAIN backlog \subseteq Len(inbox) .. sent - 1 /\ m.message >= Len(inbox)
  BY Zenon DEF ChannelInv, OrderedOK
<1>2. DOMAIN Enqueued(m) = DOMAIN backlog \cup {m.message}
  BY OrderedEnqueue, Zenon
<1>3. DOMAIN Enqueued(m) \subseteq Len(inbox) .. sent - 1
  BY <1>0, <1>1, <1>2
<1>4. ASSUME NEW x \in DOMAIN Enqueued(m), NEW lo \in Len(inbox) .. x - 1,
             \A y \in lo .. x - 1 : y \notin DOMAIN Enqueued(m)
      PROVE  x - lo <= HalfSpan
  <2>1. x \in 0 .. sent - 1 /\ lo \in Nat /\ Len(inbox) <= lo /\ lo < x
    BY <1>0, <1>3
  <2>2. \A y \in lo .. x - 1 : y \notin DOMAIN backlog
    BY <1>2, <1>4, Zenon
  <2> QED
    BY <2>1, <2>2, GapIsNarrow, Zenon
<1> QED
  BY <1>0, <1>1, <1>3, <1>4, DequeuedIsRun, Zenon

\* A sequence and a run of numbers behind it.
LEMMA ConcatRun ==
  ASSUME NEW s \in Seq(Nat), NEW n \in Nat, Len(s) <= n
  PROVE  /\ s \o [k \in 1 .. n - Len(s) |-> Len(s) + k - 1] \in Seq(Nat)
         /\ Len(s \o [k \in 1 .. n - Len(s) |-> Len(s) + k - 1]) = n
         /\ n = Len(s) => s \o [k \in 1 .. n - Len(s) |-> Len(s) + k - 1] = s
<1> DEFINE r == [k \in 1 .. n - Len(s) |-> Len(s) + k - 1]
<1>1. r \in Seq(Nat) /\ Len(r) = n - Len(s)
  OBVIOUS
<1>2. n = Len(s) => r = <<>>
  OBVIOUS
<1> HIDE DEF r
<1>3. s \o r \in Seq(Nat) /\ Len(s \o r) = n /\ (n = Len(s) => s \o r = s)
  BY <1>1, <1>2
<1> QED
  BY <1>3, Zenon DEF r

\* What HandleIncomingPacket does to an ordered channel when m arrives, where n is
\* the first message that has not come yet.
OrderedMove(m, n) ==
  /\ transit' = transit \ {m}
  /\ nextEnqueue' = nextEnqueue /\ nextDequeue' = n
  /\ inbox' = inbox \o [k \in 1 .. n - Len(inbox) |-> Len(inbox) + k - 1]
  /\ DOMAIN backlog' = (DOMAIN backlog \cup {m.message}) \ (Len(inbox) .. n - 1)
  /\ backlog' = [s \in DOMAIN backlog' |-> s]
  /\ n \notin DOMAIN backlog'
  /\ Len(inbox) .. n - 1 \subseteq DOMAIN backlog \cup {m.message}
  /\ UNCHANGED <<mode, sent, outgoing, lost>>

\* And it does nothing else.
LEMMA OrderedHandle ==
  ASSUME ChannelInv, mode = "ORDERED", HandleIncomingPacket
  PROVE  \E m \in transit : \E n \in Len(inbox) .. sent : OrderedMove(m, n)
<1>0. /\ sent \in Nat /\ sent < SPAN /\ SPAN \in Nat /\ Len(inbox) \in Nat
      /\ nextDequeue = Len(inbox)
  BY OrderedNumbers, Zenon DEF ChannelInv, OrderedOK
<1>1. PICK m \in transit :
        /\ transit' = transit \ {m}
        /\ nextEnqueue' = nextEnqueue
        /\ nextDequeue' = IF Dequeued(Enqueued(m)) = {} THEN nextDequeue
                          ELSE Succ(Max(Dequeued(Enqueued(m))))
        /\ inbox' = inbox \o Payloads(Enqueued(m), Dequeued(Enqueued(m)))
        /\ backlog' = Restrict(Enqueued(m), DOMAIN Enqueued(m) \ Dequeued(Enqueued(m)))
        /\ UNCHANGED <<mode, sent, outgoing, lost>>
  BY Zenon DEF HandleIncomingPacket
<1> DEFINE map == Enqueued(m)
<1>2. DOMAIN map = DOMAIN backlog \cup {m.message} /\ \A s \in DOMAIN map : map[s] = s
  BY OrderedEnqueue, Zenon
<1>3. PICK n \in Len(inbox) .. sent :
        /\ Dequeued(map) = Len(inbox) .. n - 1
        /\ Len(inbox) .. n - 1 \subseteq DOMAIN map
        /\ n \notin DOMAIN map
  BY OrderedDequeue, Zenon
<1> HIDE DEF map
<1>4. n \in Nat /\ Len(inbox) <= n /\ n < SPAN
  BY <1>0, <1>3
<1>5. nextDequeue' = n
  <2>1. CASE n = Len(inbox)
    <3>1. Len(inbox) .. n - 1 = {}
      BY <1>0, <2>1
    <3> QED
      BY <1>0, <1>1, <1>3, <2>1, <3>1, Zenon DEF map
  <2>2. CASE Len(inbox) < n
    <3>1. n - 1 \in Len(inbox) .. n - 1 /\ n - 1 + 1 = n /\ n \in 0 .. SPAN - 1 /\ SPAN > 0
      BY <1>0, <1>4, <2>2
    <3>2. Max(Len(inbox) .. n - 1) = n - 1
      BY <1>0, <1>4, <2>2, MaxRun, Zenon
    <3>3. n % SPAN = n
      BY <1>0, <3>1, ModSmall, Zenon
    <3>4. Dequeued(map) # {}
      BY <1>3, <3>1, Zenon
    <3> QED
      BY <1>1, <1>3, <3>1, <3>2, <3>3, <3>4, Zenon DEF map, Succ
  <2> QED
    BY <1>0, <1>4, <2>1, <2>2
<1>6. Payloads(map, Dequeued(map)) = [k \in 1 .. n - Len(inbox) |-> Len(inbox) + k - 1]
  <2>1. \A s \in Len(inbox) .. n - 1 : map[s] = s
    BY <1>2, <1>3, Zenon
  <2>2. Payloads(map, Len(inbox) .. n - 1) =
          [k \in 1 .. n - Len(inbox) |-> Len(inbox) + k - 1]
    <3>1. PICK a \in Nat : a = Len(inbox)
      BY <1>0, Zenon
    <3>2. a <= n /\ \A s \in a .. n - 1 : map[s] = s
      BY <1>4, <2>1, <3>1, Zenon
    <3>3. Payloads(map, a .. n - 1) = [k \in 1 .. n - a |-> a + k - 1]
      BY <1>4, <3>2, PayloadsRun, ZenonT(40)
    <3> QED
      BY <3>1, <3>3, Zenon
  <2> QED
    BY <1>3, <2>2, Zenon
<1>7. /\ DOMAIN backlog' = DOMAIN map \ (Len(inbox) .. n - 1)
      /\ backlog' = [s \in DOMAIN backlog' |-> s]
  <2>1. backlog' = [s \in DOMAIN map \ (Len(inbox) .. n - 1) |-> map[s]]
    BY <1>1, <1>3, Zenon DEF map, Restrict
  <2>2. DOMAIN backlog' = DOMAIN map \ (Len(inbox) .. n - 1)
    BY <2>1, Zenon
  <2>3. \A s \in DOMAIN map \ (Len(inbox) .. n - 1) : map[s] = s
    BY <1>2, Zenon
  <2>4. backlog' = [s \in DOMAIN map \ (Len(inbox) .. n - 1) |-> s]
    BY <2>1, <2>3, Zenon
  <2> QED
    BY <2>2, <2>4, Zenon
<1>8. OrderedMove(m, n)
  BY <1>1, <1>2, <1>3, <1>5, <1>6, <1>7, Zenon DEF OrderedMove, map
<1> QED
  BY <1>8, <1>3, Zenon

\* The inductive step for an ordered channel that receives a message.
LEMMA OrderedHandleInv ==
  ASSUME ChannelInv, mode = "ORDERED", HandleIncomingPacket
  PROVE  ChannelInv'
<1>0. /\ sent \in Nat /\ sent < SPAN /\ SPAN \in Nat /\ Len(inbox) \in Nat
      /\ \A k \in transit : k.message \in 0 .. sent - 1 /\ k.sequence = k.message
  BY OrderedNumbers, Zenon
<1>1. PICK m \in transit, n \in Len(inbox) .. sent : OrderedMove(m, n)
  BY OrderedHandle, Zenon
<1>2. n \in Nat /\ Len(inbox) <= n /\ n <= sent /\ n < SPAN
  BY <1>0, <1>1
<1>3. inbox' \in Seq(Nat) /\ Len(inbox') = n
  <2>1. inbox \in Seq(Nat)
    BY Zenon DEF ChannelInv, TypeOK
  <2> QED
    BY <1>1, <1>2, <2>1, ConcatRun, Zenon DEF OrderedMove
<1>4. transit' \subseteq transit /\ m \notin transit' /\ UNCHANGED <<mode, sent, outgoing, lost>>
  BY <1>1, Zenon DEF OrderedMove
<1>5. TypeOK'
  <2>1. nextEnqueue' \in 0 .. SPAN - 1
    BY <1>1, Zenon DEF ChannelInv, TypeOK, OrderedMove
  <2>2. nextDequeue' \in 0 .. SPAN - 1
    BY <1>0, <1>1, <1>2 DEF OrderedMove
  <2> QED
    BY <1>3, <1>4, <2>1, <2>2, Zenon DEF ChannelInv, TypeOK
<1>6. TransitOK'
  BY <1>4, Zenon DEF ChannelInv, TransitOK
<1>7. OrderedOK'
  <2>1. DOMAIN backlog' \subseteq n .. sent - 1
    <3>1. DOMAIN backlog \cup {m.message} \subseteq Len(inbox) .. sent - 1
      BY <1>0, <1>1 DEF ChannelInv, OrderedOK
    <3>2. DOMAIN backlog' = (DOMAIN backlog \cup {m.message}) \ (Len(inbox) .. n - 1)
      BY <1>1, Zenon DEF OrderedMove
    <3> QED
      BY <1>0, <1>2, <3>1, <3>2
  <2>2. ASSUME NEW k \in transit'
        PROVE  k.message # m.message /\ k.message >= n /\ k.message \notin DOMAIN backlog'
    <3>1. k \in transit /\ k # m /\ k.message \in 0 .. sent - 1
      BY <1>0, <1>4, <2>2, Zenon
    <3>2. k.message # m.message
      <4>1. /\ k \in [message : 0 .. sent - 1, sequence : 0 .. SPAN - 1]
            /\ m \in [message : 0 .. sent - 1, sequence : 0 .. SPAN - 1]
        BY <1>1, <3>1, Zenon DEF ChannelInv, TypeOK
      <4>2. k.sequence = k.message /\ m.sequence = m.message
        BY <1>0, <1>1, <3>1, Zenon
      <4> QED
        BY <3>1, <4>1, <4>2
    <3>3. k.message >= Len(inbox) /\ k.message \notin DOMAIN backlog \cup {m.message}
      BY <3>1, <3>2, Zenon DEF ChannelInv, OrderedOK
    <3>4. /\ Len(inbox) .. n - 1 \subseteq DOMAIN backlog \cup {m.message}
          /\ DOMAIN backlog' \subseteq DOMAIN backlog \cup {m.message}
      BY <1>1, Zenon DEF OrderedMove
    <3>5. k.message \notin Len(inbox) .. n - 1
      BY <3>3, <3>4, Zenon
    <3> QED
      BY <1>0, <1>2, <3>1, <3>2, <3>3, <3>4, <3>5
  <2>3. Missing' \subseteq Missing
    <3> SUFFICES ASSUME NEW q \in Missing'
                 PROVE  q \in Missing
      BY Zenon
    <3>1. q \in n .. sent - 1 /\ q \notin DOMAIN backlog' /\ \A k \in transit' : k.message # q
      BY <1>3, <1>4, Zenon DEF Missing
    <3>2. q \in Len(inbox) .. sent - 1 /\ q \notin Len(inbox) .. n - 1
      BY <1>0, <1>2, <3>1
    <3>3. q \notin DOMAIN backlog \cup {m.message}
      BY <1>1, <3>1, <3>2, Zenon DEF OrderedMove
    <3>4. \A k \in transit : k.message # q
      BY <1>1, <3>1, <3>3, Zenon DEF OrderedMove
    <3> QED
      BY <3>2, <3>3, <3>4, Zenon DEF Missing
  <2>4. Cardinality(Missing') <= lost'
    <3>1. IsFiniteSet(Missing) /\ Cardinality(Missing) \in Nat /\ Cardinality(Missing) <= lost
      BY <1>0, MissingFinite, Zenon DEF ChannelInv, OrderedOK
    <3>2. IsFiniteSet(Missing') /\ Cardinality(Missing') <= Cardinality(Missing)
      BY <2>3, <3>1, FS_Subset, Zenon
    <3>3. Cardinality(Missing') \in Nat
      BY <3>2, FS_CardinalityType, Zenon
    <3>4. lost \in Int /\ lost' = lost
      BY <1>4, BoundAssumption DEF ChannelInv, TypeOK
    <3> QED
      BY <3>1, <3>2, <3>3, <3>4
  <2>5. nextDequeue' = n /\ n \notin DOMAIN backlog' /\ backlog' = [s \in DOMAIN backlog' |-> s]
    BY <1>1, Zenon DEF OrderedMove
  <2> QED
    BY <1>2, <1>3, <1>4, <2>1, <2>2, <2>4, <2>5, Zenon DEF OrderedOK
<1> QED
  BY <1>4, <1>5, <1>6, <1>7, Zenon DEF ChannelInv

-----------------------------------------------------------------------------
(***************************************************************************)
(* Steps of a sequenced channel.                                           *)
(***************************************************************************)

\* Latest is a number.
LEMMA LatestType ==
  ASSUME inbox \in Seq(Nat)
  PROVE  Latest \in Nat
<1>1. CASE inbox = <<>>
  BY <1>1, Zenon DEF Latest
<1>2. CASE inbox # <<>>
  <2>1. Len(inbox) \in DOMAIN inbox /\ inbox[Len(inbox)] \in Nat
    BY <1>2
  <2> QED
    BY <1>2, <2>1 DEF Latest
<1> QED
  BY <1>1, <1>2, Zenon

\* Enqueue recognises what is older than the message handed over last.
LEMMA OlderIsStale ==
  ASSUME ChannelInv, mode = "SEQUENCED", NEW m \in transit, m.message < Latest
  PROVE  IsStale(m.sequence)
<1>0. /\ sent \in Nat /\ Latest \in Nat /\ Latest <= sent /\ m.message \in 0 .. sent - 1
      /\ nextEnqueue = Latest % SPAN /\ m.sequence = m.message % SPAN
      /\ sent - m.message <= Spread
  <2>1. MaxMessages["SEQUENCED"] \in Nat
    BY BoundAssumption, Zenon DEF ChannelMode
  <2>2. sent \in 0 .. MaxMessages["SEQUENCED"] /\ inbox \in Seq(Nat) /\ m.message \in 0 .. sent - 1
    BY Zenon DEF ChannelInv, TypeOK
  <2> QED
    BY <2>1, <2>2, LatestType DEF ChannelInv, TransitOK, SequencedOK
<1>1. Latest - m.message \in 1 .. Spread /\ Latest - m.message < HalfSpan
  BY <1>0, BoundAssumption, WindowAssumption, HalfSpanType
<1>2. SPAN \in Nat /\ SPAN > 0 /\ Latest - m.message \in 0 .. SPAN - 1 /\ m.message \in Nat
  BY <1>0, <1>1, HalfSpanType, SpanAssumption, BoundAssumption
<1>3. (nextEnqueue - m.sequence) % SPAN = Latest - m.message
  <2>1. ((Latest % SPAN) - (m.message % SPAN)) % SPAN = Latest - m.message
    BY <1>0, <1>2, ModDiff, Zenon
  <2> QED
    BY <1>0, <2>1, Zenon
<1>4. m.sequence # nextEnqueue
  <2> SUFFICES ASSUME m.sequence = nextEnqueue
               PROVE  FALSE
    BY Zenon
  <2>1. nextEnqueue \in 0 .. SPAN - 1
    BY Zenon DEF ChannelInv, TypeOK
  <2>2. nextEnqueue - m.sequence = 0 /\ 0 % SPAN = 0
    BY <1>2, <2>1, ModSmall
  <2> QED
    BY <1>0, <1>1, <1>3, <2>2
<1> QED
  BY <1>1, <1>3, <1>4, Zenon DEF IsStale, SequenceLessThan

\* What HandleIncomingPacket does to a sequenced channel when m arrives: nothing if
\* it is stale, and otherwise it hands it over.
SequencedMove(m) ==
  /\ transit' = transit \ {m}
  /\ DOMAIN backlog' = {}
  /\ IF IsStale(m.sequence)
     THEN UNCHANGED <<nextEnqueue, nextDequeue, inbox>>
     ELSE /\ nextEnqueue' = Succ(m.sequence) /\ nextDequeue' = Succ(m.sequence)
          /\ inbox' = Append(inbox, m.message)
  /\ UNCHANGED <<mode, sent, outgoing, lost>>

\* And it does nothing else.
LEMMA SequencedHandle ==
  ASSUME ChannelInv, mode = "SEQUENCED", HandleIncomingPacket
  PROVE  \E m \in transit : SequencedMove(m)
<1>0. DOMAIN backlog = {} /\ inbox \in Seq(Nat)
  BY Zenon DEF ChannelInv, SequencedOK, TypeOK
<1>1. PICK m \in transit :
        /\ transit' = transit \ {m}
        /\ nextEnqueue' = IF ~ IsStale(m.sequence) THEN Succ(m.sequence) ELSE nextEnqueue
        /\ nextDequeue' = IF Dequeued(Enqueued(m)) = {} THEN nextDequeue
                          ELSE Succ(Max(Dequeued(Enqueued(m))))
        /\ inbox' = inbox \o Payloads(Enqueued(m), Dequeued(Enqueued(m)))
        /\ backlog' = Restrict(Enqueued(m), DOMAIN Enqueued(m) \ Dequeued(Enqueued(m)))
        /\ UNCHANGED <<mode, sent, outgoing, lost>>
  BY Zenon DEF HandleIncomingPacket
<1> DEFINE map == Enqueued(m)
<1>2. Dequeued(map) = DOMAIN map
  BY Zenon DEF Dequeued, IsEligible
<1>3. DOMAIN backlog' = {}
  BY <1>1, <1>2, Zenon DEF Restrict
<1>4. m \in [message : 0 .. sent - 1, sequence : 0 .. SPAN - 1] /\ m.sequence \in 0 .. SPAN - 1
  BY Zenon DEF ChannelInv, TypeOK
<1>5. CASE IsStale(m.sequence)
  <2>1. Dequeued(map) = {}
    BY <1>0, <1>2, <1>5, Zenon DEF Enqueued
  <2>2. inbox' = inbox \o <<>>
    BY <1>1, <2>1, PayloadsNone, Zenon
  <2>3. inbox' = inbox
    BY <1>0, <2>2
  <2> QED
    BY <1>1, <1>3, <1>5, <2>1, <2>3, Zenon DEF SequencedMove
<1>6. CASE ~ IsStale(m.sequence)
  <2>1. DOMAIN map = {m.sequence} /\ map[m.sequence] = m.message
    BY <1>0, <1>6, Zenon DEF Enqueued
  <2>2. m.sequence \in Nat /\ Max({m.sequence}) = m.sequence
    <3>1. m.sequence \in Nat /\ m.sequence >= m.sequence
      BY <1>4, SpanAssumption
    <3> QED
      BY <3>1, Zenon DEF Max
  <2>3. Payloads(map, Dequeued(map)) = [k \in 1 .. 1 |-> m.message]
    <3>1. Payloads(map, {m.sequence}) = [k \in 1 .. 1 |-> map[m.sequence]]
      BY <2>2, PayloadsOne, Zenon
    <3> QED
      BY <1>2, <2>1, <3>1, Zenon
  <2>4. inbox' = Append(inbox, m.message)
    <3>1. [k \in 1 .. 1 |-> m.message] = <<m.message>>
      OBVIOUS
    <3>2. inbox' = inbox \o <<m.message>>
      BY <1>1, <2>3, <3>1, Zenon
    <3> QED
      BY <1>0, <3>2
  <2>5. nextDequeue' = Succ(m.sequence)
    BY <1>1, <1>2, <2>1, <2>2, Zenon
  <2> QED
    BY <1>1, <1>3, <1>6, <2>4, <2>5, Zenon DEF SequencedMove
<1> QED
  BY <1>5, <1>6, Zenon

\* The inductive step for a sequenced channel that receives a message.
LEMMA SequencedHandleInv ==
  ASSUME ChannelInv, mode = "SEQUENCED", HandleIncomingPacket
  PROVE  ChannelInv'
<1>0. /\ inbox \in Seq(Nat) /\ transit \subseteq [message : 0 .. sent - 1, sequence : 0 .. SPAN - 1]
      /\ \A k \in transit : k.sequence = k.message % SPAN
  BY Zenon DEF ChannelInv, TypeOK, TransitOK
<1>1. sent \in Nat /\ SPAN \in Nat /\ SPAN > 0 /\ Latest \in Nat
  <2>1. sent \in 0 .. MaxMessages["SEQUENCED"] /\ MaxMessages["SEQUENCED"] \in Nat
    BY BoundAssumption, Zenon DEF ChannelInv, TypeOK, ChannelMode
  <2> QED
    BY <1>0, <2>1, SpanAssumption, LatestType
<1>2. PICK m \in transit : SequencedMove(m)
  BY SequencedHandle, Zenon
<1>3. m.message \in 0 .. sent - 1 /\ m.message \in Nat /\ m.sequence = m.message % SPAN
  <2>1. m.message \in 0 .. sent - 1 /\ m.sequence = m.message % SPAN
    BY <1>0, <1>2, Zenon
  <2> QED
    BY <2>1, <1>1
<1>4. /\ transit' \subseteq transit /\ m \notin transit' /\ DOMAIN backlog' = {}
      /\ UNCHANGED <<mode, sent, outgoing, lost>>
  BY <1>2, Zenon DEF SequencedMove
<1>5. TransitOK'
  BY <1>4, Zenon DEF ChannelInv, TransitOK
<1>6. CASE IsStale(m.sequence)
  <2>1. UNCHANGED <<nextEnqueue, nextDequeue, inbox>>
    BY <1>2, <1>6, Zenon DEF SequencedMove
  <2>2. TypeOK'
    BY <1>4, <2>1, Zenon DEF ChannelInv, TypeOK
  <2>3. Latest' = Latest
    BY <2>1, Zenon DEF Latest
  <2>4. SequencedOK'
    BY <1>4, <2>1, <2>3, Zenon DEF ChannelInv, SequencedOK
  <2> QED
    BY <1>4, <1>5, <2>2, <2>4, Zenon DEF ChannelInv
<1>7. CASE ~ IsStale(m.sequence)
  <2>1. /\ nextEnqueue' = Succ(m.sequence) /\ nextDequeue' = Succ(m.sequence)
        /\ inbox' = Append(inbox, m.message)
    BY <1>2, <1>7, Zenon DEF SequencedMove
  <2>2. m.message >= Latest
    BY <1>1, <1>3, <1>7, OlderIsStale
  <2>3. Succ(m.sequence) = (m.message + 1) % SPAN /\ Succ(m.sequence) \in 0 .. SPAN - 1
    <3>1. Succ(m.sequence) = (m.message + 1) % SPAN
      BY <1>1, <1>3, ModSucc, Zenon DEF Succ
    <3>2. m.message + 1 \in Int
      BY <1>3
    <3> QED
      BY <1>1, <3>1, <3>2, ModRange, Zenon
  <2>4. inbox' \in Seq(Nat) /\ inbox' # <<>> /\ inbox'[Len(inbox')] = m.message
    BY <1>0, <1>3, <2>1
  <2>5. TypeOK'
    BY <1>4, <2>1, <2>3, <2>4, Zenon DEF ChannelInv, TypeOK
  <2>6. Latest' = m.message + 1
    BY <2>4, Zenon DEF Latest
  <2>7. \A k \in DOMAIN inbox' : inbox'[k] < m.message + 1
    <3>1. \A k \in DOMAIN inbox : inbox[k] \in Nat /\ inbox[k] < Latest
      BY <1>0 DEF ChannelInv, SequencedOK
    <3> QED
      BY <1>0, <1>1, <1>3, <2>1, <2>2, <3>1, SMTT(30)
  <2>8. ASSUME NEW k \in transit'
        PROVE  k.message + 1 # m.message + 1
    <3>1. /\ k \in transit /\ k # m
          /\ k \in [message : 0 .. sent - 1, sequence : 0 .. SPAN - 1]
          /\ m \in [message : 0 .. sent - 1, sequence : 0 .. SPAN - 1]
      BY <1>0, <1>2, <1>4, <2>8, Zenon
    <3>2. k.message # m.message
      BY <1>0, <1>3, <3>1
    <3>3. k.message \in Int
      BY <1>1, <3>1
    <3> QED
      BY <1>3, <3>2, <3>3
  <2>9. m.message + 1 <= sent
    BY <1>1, <1>3
  <2>10. SequencedOK'
    BY <1>4, <2>1, <2>3, <2>6, <2>7, <2>8, <2>9, Zenon DEF SequencedOK
  <2> QED
    BY <1>4, <1>5, <2>5, <2>10, Zenon DEF ChannelInv
<1> QED
  BY <1>6, <1>7, Zenon

-----------------------------------------------------------------------------
(***************************************************************************)
(* The steps that both modes share.                                        *)
(***************************************************************************)

\* The inductive step for Send.
LEMMA SendInv ==
  ASSUME ChannelInv, Send
  PROVE  ChannelInv'
<1> DEFINE new == [message |-> sent, sequence |-> outgoing]
<1>0. /\ sent \in Nat /\ SPAN \in Nat /\ SPAN > 0 /\ inbox \in Seq(Nat)
      /\ MaxMessages[mode] \in Nat /\ outgoing = sent % SPAN
      /\ transit \subseteq [message : 0 .. sent - 1, sequence : 0 .. SPAN - 1]
  <2>1. mode \in ChannelMode /\ sent \in 0 .. MaxMessages[mode] /\ MaxMessages[mode] \in Nat
    BY BoundAssumption, Zenon DEF ChannelInv, TypeOK
  <2> QED
    BY <2>1, SpanAssumption DEF ChannelInv, TypeOK
<1>1. /\ sent < MaxMessages[mode] /\ sent' = sent + 1
      /\ transit' = transit \cup {new} /\ outgoing' = Succ(outgoing)
      /\ \A m \in transit : sent - m.message < Spread
      /\ UNCHANGED <<mode, nextEnqueue, nextDequeue, backlog, inbox, lost>>
  BY Zenon DEF Send
<1>2. new.message = sent /\ new.sequence = sent % SPAN /\ new.sequence \in 0 .. SPAN - 1
  BY <1>0, ModRange
<1>3. \A m \in transit : m.message \in 0 .. sent - 1 /\ m.sequence \in 0 .. SPAN - 1
  BY <1>0, Zenon
<1>4. TypeOK'
  <2>1. sent' \in 0 .. MaxMessages[mode]
    BY <1>0, <1>1
  <2>2. outgoing' = sent' % SPAN
    BY <1>0, <1>1, ModSucc, Zenon DEF Succ
  <2>3. transit' \subseteq [message : 0 .. sent' - 1, sequence : 0 .. SPAN - 1]
    <3>1. 0 .. sent - 1 \subseteq 0 .. sent' - 1 /\ sent \in 0 .. sent' - 1
      BY <1>0, <1>1
    <3>2. transit \subseteq [message : 0 .. sent' - 1, sequence : 0 .. SPAN - 1]
      BY <1>0, <3>1, Zenon
    <3>3. new \in [message : 0 .. sent' - 1, sequence : 0 .. SPAN - 1]
      BY <1>2, <3>1, Zenon
    <3> QED
      BY <1>1, <3>2, <3>3, Zenon
  <2> QED
    BY <1>1, <2>1, <2>2, <2>3, Zenon DEF ChannelInv, TypeOK
<1>5. TransitOK'
  <2>1. ASSUME NEW m \in transit
        PROVE  m.sequence = m.message % SPAN /\ sent' - m.message <= Spread
    <3>1. m.sequence = m.message % SPAN /\ sent - m.message < Spread
      BY <1>1, Zenon DEF ChannelInv, TransitOK
    <3>2. sent' - m.message <= Spread
      <4>1. sent' = sent + 1 /\ m.message \in 0 .. sent - 1
        BY <1>1, <1>3, Zenon
      <4> QED
        BY <1>0, <3>1, <4>1, BoundAssumption
    <3> QED
      BY <3>1, <3>2, Zenon
  <2>2. sent' - new.message <= Spread
    BY <1>0, <1>1, <1>2, BoundAssumption
  <2> QED
    BY <1>1, <1>2, <2>1, <2>2, Zenon DEF TransitOK
<1> HIDE DEF new
<1>6. ASSUME mode = "ORDERED"
      PROVE  OrderedOK'
  <2>1. OrderedOK /\ Len(inbox) \in Nat
    BY <1>0, <1>6 DEF ChannelInv
  <2>2. DOMAIN backlog' \subseteq Len(inbox') .. sent' - 1 /\ Len(inbox') <= sent'
    BY <1>0, <1>1, <2>1 DEF OrderedOK
  <2>3. sent >= Len(inbox) /\ sent \notin DOMAIN backlog
    BY <1>0, <2>1 DEF OrderedOK
  <2>4. Missing' \subseteq Missing
    <3> SUFFICES ASSUME NEW q \in Missing'
                 PROVE  q \in Missing
      BY Zenon
    <3>1. /\ q \in Len(inbox) .. sent' - 1 /\ q \notin DOMAIN backlog
          /\ \A m \in transit' : m.message # q
      BY <1>1, Zenon DEF Missing
    <3>2. q # sent /\ \A m \in transit : m.message # q
      BY <1>1, <1>2, <3>1, Zenon
    <3>3. q \in Len(inbox) .. sent - 1
      BY <1>0, <1>1, <2>1, <3>1, <3>2
    <3> QED
      BY <3>1, <3>2, <3>3, Zenon DEF Missing
  <2>5. Cardinality(Missing') <= lost'
    <3>1. IsFiniteSet(Missing) /\ Cardinality(Missing) \in Nat /\ Cardinality(Missing) <= lost
      BY <1>0, <2>1, MissingFinite, Zenon DEF OrderedOK
    <3>2. IsFiniteSet(Missing') /\ Cardinality(Missing') <= Cardinality(Missing)
      BY <2>4, <3>1, FS_Subset, Zenon
    <3>3. Cardinality(Missing') \in Nat
      BY <3>2, FS_CardinalityType, Zenon
    <3>4. lost \in Int /\ lost' = lost
      <4>1. lost \in 0 .. MaxLost /\ lost' = lost
        BY <1>1, Zenon DEF ChannelInv, TypeOK
      <4> QED
        BY <4>1, BoundAssumption
    <3> QED
      BY <3>1, <3>2, <3>3, <3>4
  <2> QED
    BY <1>1, <1>2, <2>1, <2>2, <2>3, <2>5, Zenon DEF OrderedOK
<1>7. ASSUME mode = "SEQUENCED"
      PROVE  SequencedOK'
  <2>1. SequencedOK /\ Latest \in Nat /\ Latest' = Latest /\ Latest <= sent
    BY <1>0, <1>1, <1>7, LatestType, Zenon DEF ChannelInv, Latest, SequencedOK
  <2>2. Latest <= sent + 1 /\ sent + 1 # Latest
    BY <1>0, <2>1
  <2> QED
    BY <1>1, <1>2, <2>1, <2>2, Zenon DEF SequencedOK
<1> QED
  BY <1>1, <1>4, <1>5, <1>6, <1>7, Zenon DEF ChannelInv

\* The inductive step for Lose.
LEMMA LoseInv ==
  ASSUME ChannelInv, Lose
  PROVE  ChannelInv'
<1>0. /\ inbox \in Seq(Nat) /\ sent \in Nat /\ lost \in 0 .. MaxLost /\ MaxLost \in Nat
  <2>1. mode \in ChannelMode /\ sent \in 0 .. MaxMessages[mode] /\ MaxMessages[mode] \in Nat
    BY BoundAssumption, Zenon DEF ChannelInv, TypeOK
  <2> QED
    BY <2>1, BoundAssumption DEF ChannelInv, TypeOK
<1>1. lost < MaxLost /\ lost' = lost + 1
      /\ UNCHANGED <<mode, sent, outgoing, nextEnqueue, nextDequeue, backlog, inbox>>
  BY Zenon DEF Lose
<1>2. PICK m \in transit : transit' = transit \ {m}
  BY Zenon DEF Lose
<1>3. lost' \in 0 .. MaxLost
  BY <1>0, <1>1
<1>4. TypeOK' /\ TransitOK'
  BY <1>1, <1>2, <1>3, Zenon DEF ChannelInv, TypeOK, TransitOK
<1>5. ASSUME mode = "ORDERED"
      PROVE  OrderedOK'
  <2>1. OrderedOK /\ Len(inbox) \in Nat
    BY <1>0, <1>5 DEF ChannelInv
  <2>2. Missing' \subseteq Missing \cup {m.message}
    BY <1>1, <1>2, Zenon DEF Missing
  <2>3. IsFiniteSet(Missing) /\ Cardinality(Missing) \in Nat /\ Cardinality(Missing) <= lost
    BY <1>0, <2>1, MissingFinite, Zenon DEF OrderedOK
  <2>4. /\ IsFiniteSet(Missing \cup {m.message})
        /\ Cardinality(Missing \cup {m.message}) =
             IF m.message \in Missing THEN Cardinality(Missing) ELSE Cardinality(Missing) + 1
    BY <2>3, FS_AddElement, Zenon
  <2>5. IsFiniteSet(Missing') /\ Cardinality(Missing') <= Cardinality(Missing \cup {m.message})
    BY <2>2, <2>4, FS_Subset, Zenon
  <2>6. Cardinality(Missing') \in Nat
    BY <2>5, FS_CardinalityType, Zenon
  <2>7. Cardinality(Missing') <= lost'
    BY <1>0, <1>1, <2>3, <2>4, <2>5, <2>6
  <2> QED
    BY <1>1, <1>2, <2>1, <2>7, Zenon DEF OrderedOK
<1>6. ASSUME mode = "SEQUENCED"
      PROVE  SequencedOK'
  BY <1>1, <1>2, <1>6, Zenon DEF ChannelInv, SequencedOK, Latest
<1> QED
  BY <1>1, <1>4, <1>5, <1>6, Zenon DEF ChannelInv

\* The channel starts in the invariant.
LEMMA ChannelInit ==
  ASSUME Init
  PROVE  ChannelInv
<1>1. /\ mode \in ChannelMode /\ sent = 0 /\ outgoing = 0 /\ transit = {}
      /\ nextEnqueue = 0 /\ nextDequeue = 0 /\ DOMAIN backlog = {}
      /\ backlog = [s \in DOMAIN backlog |-> s] /\ inbox = <<>> /\ lost = 0
  BY Zenon DEF Init
<1>2. SPAN \in Nat /\ SPAN > 0 /\ 0 \in 0 .. SPAN - 1 /\ 0 % SPAN = 0
  <2>1. SPAN \in Nat /\ SPAN > 0 /\ 0 \in 0 .. SPAN - 1
    BY SpanAssumption
  <2> QED
    BY <2>1, ModSmall, Zenon
<1>3. 0 \in 0 .. MaxMessages[mode] /\ 0 \in 0 .. MaxLost
  <2>1. MaxMessages[mode] \in Nat /\ MaxLost \in Nat
    BY <1>1, BoundAssumption, Zenon
  <2> QED
    BY <2>1
<1>4. Len(inbox) = 0 /\ inbox \in Seq(Nat) /\ DOMAIN inbox = {}
  BY <1>1
<1>5. TypeOK /\ TransitOK
  BY <1>1, <1>2, <1>3, <1>4, Zenon DEF TypeOK, TransitOK
<1>6. OrderedOK
  <2>1. Missing = {} /\ 0 <= 0
    BY <1>1, <1>4 DEF Missing
  <2>2. Cardinality(Missing) <= lost
    BY <1>1, <2>1, FS_EmptySet, Zenon
  <2> QED
    BY <1>1, <1>4, <2>1, <2>2, Zenon DEF OrderedOK
<1>7. SequencedOK
  <2>1. Latest = 0 /\ 0 <= 0
    BY <1>1 DEF Latest
  <2> QED
    BY <1>1, <1>2, <1>4, <2>1, Zenon DEF SequencedOK
<1> QED
  BY <1>5, <1>6, <1>7, Zenon DEF ChannelInv

\* A step that changes nothing.
LEMMA ChannelStutter ==
  ASSUME ChannelInv, UNCHANGED vars
  PROVE  ChannelInv'
<1>1. /\ mode' = mode /\ sent' = sent /\ outgoing' = outgoing /\ transit' = transit
      /\ nextEnqueue' = nextEnqueue /\ nextDequeue' = nextDequeue
      /\ backlog' = backlog /\ inbox' = inbox /\ lost' = lost
  BY Zenon DEF vars
<1>2. TypeOK' = TypeOK /\ TransitOK' = TransitOK
  BY <1>1, Zenon DEF TypeOK, TransitOK
<1>3. OrderedOK' = OrderedOK /\ SequencedOK' = SequencedOK
  <2>1. Missing' = Missing /\ Latest' = Latest
    BY <1>1, Zenon DEF Missing, Latest
  <2> QED
    BY <1>1, <2>1, Zenon DEF OrderedOK, SequencedOK
<1> QED
  BY <1>1, <1>2, <1>3, Zenon DEF ChannelInv

-----------------------------------------------------------------------------
\* ChannelInv holds in every state: m_nextDequeue is the number of messages handed
\* over in order, the map only has later ones, and as many numbers are without a
\* message as messages were lost; a sequenced channel remembers the latest message.
THEOREM ChannelInvariant == Spec => []ChannelInv
<1>1. Init => ChannelInv
  BY ChannelInit, Zenon
<1>2. ChannelInv /\ [Next]_vars => ChannelInv'
  <2> SUFFICES ASSUME ChannelInv, [Next]_vars
               PROVE  ChannelInv'
    BY Zenon
  <2>1. mode = "ORDERED" \/ mode = "SEQUENCED"
    BY Zenon DEF ChannelInv, TypeOK, ChannelMode
  <2>2. CASE Send
    BY <2>2, SendInv, Zenon
  <2>3. CASE Lose
    BY <2>3, LoseInv, Zenon
  <2>4. CASE HandleIncomingPacket
    BY <2>1, <2>4, OrderedHandleInv, SequencedHandleInv, Zenon
  <2>5. CASE UNCHANGED vars
    BY <2>5, ChannelStutter, Zenon
  <2> QED
    BY <2>2, <2>3, <2>4, <2>5, Zenon DEF Next
<1> QED
  BY <1>1, <1>2, PTL DEF Spec

\* A message that is next in order is never left in the map of an ordered channel:
\* looking at the first entry only, as Dequeue does, never withholds one.
THEOREM NothingIsWithheld == Spec => []NothingWithheld
<1>1. ChannelInv => NothingWithheld
  BY Zenon DEF ChannelInv, OrderedOK, NothingWithheld
<1> QED
  BY <1>1, ChannelInvariant, PTL

-----------------------------------------------------------------------------
(***************************************************************************)
(* The channel implements OrderedDelivery.                                 *)
(***************************************************************************)

\* Handling a message on an ordered channel hands over a run of messages, or none.
LEMMA OrderedHandleRefines ==
  ASSUME ChannelInv, mode = "ORDERED", HandleIncomingPacket
  PROVE  Promise!DeliverOrdered \/ UNCHANGED Promise!vars
<1>0. /\ sent \in Nat /\ Len(inbox) \in Nat /\ inbox \in Seq(Nat)
  BY OrderedNumbers, Zenon DEF ChannelInv, TypeOK
<1>1. PICK m \in transit, n \in Len(inbox) .. sent : OrderedMove(m, n)
  BY OrderedHandle, Zenon
<1>2. /\ inbox' = inbox \o [k \in 1 .. n - Len(inbox) |-> Len(inbox) + k - 1]
      /\ UNCHANGED <<mode, sent>>
  BY <1>1, Zenon DEF OrderedMove
<1>3. n \in Nat /\ Len(inbox) <= n
  BY <1>0, <1>1
<1>4. CASE n = Len(inbox)
  <2>1. inbox' = inbox
    BY <1>0, <1>2, <1>3, <1>4, ConcatRun, Zenon
  <2> QED
    BY <1>2, <2>1, Zenon DEF Promise!vars
<1>5. CASE n # Len(inbox)
  <2>1. n \in Len(inbox) + 1 .. sent
    BY <1>0, <1>1, <1>3, <1>5
  <2> QED
    BY <1>2, <2>1, Zenon DEF Promise!DeliverOrdered
<1> QED
  BY <1>4, <1>5, Zenon

\* Handling one on a sequenced channel hands it over if it is later than all that
\* were handed over, or discards it.
LEMMA SequencedHandleRefines ==
  ASSUME ChannelInv, mode = "SEQUENCED", HandleIncomingPacket
  PROVE  Promise!DeliverSequenced \/ UNCHANGED Promise!vars
<1>0. /\ inbox \in Seq(Nat) /\ Latest \in Nat /\ \A k \in transit : k.message \in 0 .. sent - 1
      /\ \A k \in DOMAIN inbox : inbox[k] < Latest
  BY LatestType, Zenon DEF ChannelInv, TypeOK, SequencedOK
<1>1. PICK m \in transit : SequencedMove(m)
  BY SequencedHandle, Zenon
<1>2. UNCHANGED <<mode, sent>>
  BY <1>1, Zenon DEF SequencedMove
<1>3. CASE IsStale(m.sequence)
  BY <1>1, <1>2, <1>3, Zenon DEF SequencedMove, Promise!vars
<1>4. CASE ~ IsStale(m.sequence)
  <2>1. inbox' = Append(inbox, m.message) /\ m.message \in 0 .. sent - 1
    BY <1>0, <1>1, <1>4, Zenon DEF SequencedMove
  <2>2. ~ (m.message < Latest)
    BY <1>1, <1>4, OlderIsStale, Zenon
  <2>3. m.message \in Nat
    <3>1. mode \in ChannelMode /\ sent \in 0 .. MaxMessages[mode] /\ MaxMessages[mode] \in Nat
      BY BoundAssumption, Zenon DEF ChannelInv, TypeOK
    <3> QED
      BY <2>1, <3>1
  <2>4. \A k \in DOMAIN inbox : inbox[k] < m.message
    <3>1. \A k \in DOMAIN inbox : inbox[k] \in Nat
      BY <1>0
    <3> QED
      BY <1>0, <2>2, <2>3, <3>1
  <2> QED
    BY <1>2, <2>1, <2>4, Zenon DEF Promise!DeliverSequenced
<1> QED
  BY <1>3, <1>4, Zenon

\* The receiving ChannelBuffer keeps the promise of its mode: an ordered channel
\* hands over every message in the order of sending, a sequenced one never a
\* message older than one before it, across the wrap of the sequence numbers.
THEOREM ChannelImplementsPromise == Spec => DeliversInOrder
<1>1. Init => Promise!Init
  BY Zenon DEF Init, Promise!Init, ChannelMode
<1>2. ChannelInv /\ [Next]_vars => [Promise!Next]_(Promise!vars)
  <2> SUFFICES ASSUME ChannelInv, [Next]_vars
               PROVE  Promise!Next \/ UNCHANGED Promise!vars
    BY Zenon DEF Promise!vars
  <2>1. mode = "ORDERED" \/ mode = "SEQUENCED"
    BY Zenon DEF ChannelInv, TypeOK, ChannelMode
  <2>2. CASE Send
    BY <2>2, Zenon DEF Send, Promise!Next, Promise!Send
  <2>3. CASE Lose
    BY <2>3, Zenon DEF Lose, Promise!vars
  <2>4. CASE HandleIncomingPacket
    BY <2>1, <2>4, OrderedHandleRefines, SequencedHandleRefines, Zenon DEF Promise!Next
  <2>5. CASE UNCHANGED vars
    BY <2>5, Zenon DEF vars, Promise!vars
  <2> QED
    BY <2>2, <2>3, <2>4, <2>5, Zenon DEF Next
<1> QED
  BY <1>1, <1>2, ChannelInvariant, PTL DEF Spec, DeliversInOrder, Promise!Spec
=============================================================================
