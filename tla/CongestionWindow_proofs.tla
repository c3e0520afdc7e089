----------------------- MODULE CongestionWindow_proofs -----------------------
(***************************************************************************)
(* Proofs about CongestionWindow for any MTU of at least eight bytes, any  *)
(* slow start threshold and any traffic.  What the sums over m_outgoing    *)
(* and over the round trip times amount to is shown by induction over the  *)
(* positions of a sequence, in the form of a least position that fails.    *)
(***************************************************************************)
EXTENDS CongestionWindow, WellFoundedInduction, TLAPS

\* The part of the state the window's arithmetic rests on.  The bytes in flight
\* may be any integer here.
WindowInv ==
  /\ window \in Nat /\ threshold \in Nat /\ bytesInFlight \in Int
  /\ window >= MTU
  /\ outgoing \in Seq(Lengths)

\* The quotient in Growth is a natural number.
LEMMA QuotientNat ==
  ASSUME NEW a \in Nat, NEW b \in Nat, b > 0
  PROVE  a \div b \in Nat
OBVIOUS

\* After slow start the window still opens with every ack.
LEMMA GrowthPositive ==
  ASSUME WindowInv
  PROVE  Growth \in Nat /\ Growth >= 1
<1>1. MTU * MTU \in Nat /\ window \in Nat /\ window > 0
  BY WindowAssumption DEF WindowInv
<1>2. (MTU * MTU) \div window \in Nat
  BY <1>1, QuotientNat, Zenon
<1>3. MTU \div 8 \in Nat /\ MTU \div 8 >= 1
  BY WindowAssumption
<1> DEFINE q == (MTU * MTU) \div window
<1>4. q \in Nat /\ Growth = q + MTU \div 8
  BY <1>2, Zenon DEF Growth
<1> HIDE DEF q
<1> QED
  BY <1>3, <1>4

\* WindowInv is inductive.
THEOREM WindowInvariant == Spec => []WindowInv
<1>0. Lengths \subseteq Int /\ MTU \in Nat
  BY BoundAssumption, WindowAssumption
<1>1. Init => WindowInv
  BY WindowAssumption DEF Init, WindowInv
<1>2. WindowInv /\ [Next]_vars => WindowInv'
  <2> SUFFICES ASSUME WindowInv, [Next]_vars PROVE WindowInv'
    BY Zenon
  <2>1. CASE NotifySendingBytes
    BY <1>0, <2>1 DEF WindowInv, NotifySendingBytes
  <2>2. CASE NotifyReceivedAck
    <3>1. window' = window + MTU \/ window' = window + Growth
      BY <2>2, Zenon DEF NotifyReceivedAck
    <3>2. window' \in Nat /\ window' >= MTU
      BY <1>0, <3>1, GrowthPositive DEF WindowInv
    <3>3. bytesInFlight' \in Int /\ outgoing' \in Seq(Lengths)
      <4>1. CASE UNCHANGED <<flightVars, rttVars>>
        BY <4>1, Zenon DEF flightVars, WindowInv
      <4>2. ASSUME NEW k \in DOMAIN outgoing,
                   bytesInFlight' = bytesInFlight - outgoing[k],
                   outgoing' = Without(outgoing, k)
            PROVE  bytesInFlight' \in Int /\ outgoing' \in Seq(Lengths)
        <5>1. outgoing[k] \in Lengths
          BY DEF WindowInv
        <5>2. Without(outgoing, k) \in Seq(Lengths)
          BY DEF WindowInv, Without
        <5> QED
          BY <1>0, <4>2, <5>1, <5>2 DEF WindowInv
      <4> QED
        BY <2>2, <4>1, <4>2, Zenon DEF NotifyReceivedAck
    <3> QED
      BY <2>2, <3>2, <3>3, Zenon DEF NotifyReceivedAck, WindowInv
  <2>3. CASE NotifyReceivedNakGroup
    <3>1. window \div 2 \in Nat
      BY DEF WindowInv
    <3> QED
      BY <1>0, <2>3, <3>1 DEF NotifyReceivedNakGroup, NakThreshold, NakWindow, Greatest,
         flightVars, WindowInv
  <2>4. CASE Update
    BY <1>0, <2>4 DEF WindowInv, Update
  <2>5. CASE UNCHANGED vars
    BY <2>5, Zenon DEF WindowInv, vars, flightVars
  <2> QED
    BY <2>1, <2>2, <2>3, <2>4, <2>5, Zenon DEF Next
<1> QED
  BY <1>1, <1>2, PTL DEF Spec

\* The budgets of MakeDatagram always add up to one MTU: the assertion at its
\* head holds, and the congestion window plays no part in what is sent.
THEOREM BudgetsShareMTU == Spec => []WindowNeverLimits
<1>1. WindowInv => WindowNeverLimits
  BY WindowAssumption DEF WindowInv, WindowNeverLimits, GetTransmissionBudget,
     GetRetransmissionBudget, Least
<1> QED
  BY <1>1, WindowInvariant, PTL

\* NotifyReceivedAck always opens the window and NotifyReceivedNakGroup always
\* returns to slow start, as its comment has it.
THEOREM FeedbackFollowed == Spec => WindowFollowsFeedback
<1>1. WindowInv /\ [Next]_vars =>
        [/\ NotifyReceivedAck => window' > window
         /\ NotifyReceivedNakGroup => GetIsSlowStart']_vars
  <2> SUFFICES ASSUME WindowInv
               PROVE  /\ NotifyReceivedAck => window' > window
                      /\ NotifyReceivedNakGroup => GetIsSlowStart'
    BY Zenon
  <2>1. NotifyReceivedAck => window' > window
    BY GrowthPositive, WindowAssumption DEF NotifyReceivedAck, WindowInv
  <2>2. NotifyReceivedNakGroup => GetIsSlowStart'
    <3>1. window \div 2 \in Nat /\ MTU * 2 >= MTU
      BY WindowAssumption DEF WindowInv
    <3> QED
      BY <3>1, WindowAssumption DEF NotifyReceivedNakGroup, GetIsSlowStart, NakWindow,
         NakThreshold, Greatest
  <2> QED
    BY <2>1, <2>2, Zenon
<1> QED
  BY <1>1, WindowInvariant, PTL DEF Spec, WindowFollowsFeedback

-----------------------------------------------------------------------------
(***************************************************************************)
(* The sum of a sequence.                                                  *)
(***************************************************************************)

\* A nonempty set of naturals has a least element.
LEMMA LeastExists ==
  ASSUME NEW S, S \subseteq Nat, S # {}
  PROVE  \E m \in S : \A k \in S : m <= k
<1>1. PICK m \in S : \A k \in S : ~ (<<k, m>> \in OpToRel(<, Nat))
  BY WFMin, NatLessThanWellFounded, Zenon
<1>2. \A k \in S : k \in Nat /\ m \in Nat /\ ~ (k < m)
  BY <1>1, Zenon DEF OpToRel
<1> QED
  BY <1>2

\* Induction over the positions of a sequence of length n, for a set of positions.
LEMMA Positions ==
  ASSUME NEW n \in Nat, NEW T, 0 \in T, \A k \in 1 .. n : k - 1 \in T => k \in T
  PROVE  \A k \in 0 .. n : k \in T
<1> DEFINE S == {k \in 0 .. n : k \notin T}
<1> SUFFICES ASSUME S # {}
             PROVE  FALSE
  BY Zenon
<1>0. S \subseteq Nat
  OBVIOUS
<1>1. PICK m \in S : \A k \in S : m <= k
  <2> HIDE DEF S
  <2> QED
    BY <1>0, LeastExists, Zenon
<1>2. m \in 1 .. n /\ m \notin T
  BY <1>1
<1>3. m - 1 \in 0 .. n /\ ~ (m <= m - 1)
  BY <1>2
<1>4. m - 1 \in T
  BY <1>1, <1>3, Zenon
<1> QED
  BY <1>2, <1>4, Zenon

\* The partial sums of s up to position n.
Partial(s, n, g) ==
  /\ g \in [0 .. n -> Int] /\ g[0] = 0
  /\ \A k \in 1 .. n : g[k] = g[k - 1] + s[k]

\* There are partial sums up to any position.
LEMMA PartialExists ==
  ASSUME NEW s \in Seq(Int)
  PROVE  \E g : Partial(s, Len(s), g)
<1> DEFINE T == {n \in 0 .. Len(s) : \E g : Partial(s, n, g)}
<1>0. Len(s) \in Nat
  OBVIOUS
<1>1. 0 \in T
  <2>1. Partial(s, 0, [k \in 0 .. 0 |-> 0])
    BY DEF Partial
  <2>2. 0 \in 0 .. Len(s)
    BY <1>0
  <2> QED
    BY <2>1, <2>2, Zenon
<1>2. ASSUME NEW n \in 1 .. Len(s), n - 1 \in T
      PROVE  n \in T
  <2>1. PICK g : Partial(s, n - 1, g)
    BY <1>2, Zenon
  <2> DEFINE h == [k \in 0 .. n |-> IF k = n THEN g[n - 1] + s[n] ELSE g[k]]
  <2>2. /\ g \in [0 .. n - 1 -> Int] /\ g[0] = 0 /\ s[n] \in Int
        /\ \A k \in 1 .. n - 1 : g[k] = g[k - 1] + s[k]
    BY <2>1 DEF Partial
  <2>3. h \in [0 .. n -> Int]
    <3>1. \A k \in 0 .. n : k # n => k \in 0 .. n - 1
      OBVIOUS
    <3>2. n - 1 \in 0 .. n - 1
      OBVIOUS
    <3>3. g[n - 1] + s[n] \in Int
      BY <2>2, <3>2
    <3> QED
      BY <2>2, <3>1, <3>3, Zenon
  <2>4. h[0] = 0
    BY <2>2
  <2>5. ASSUME NEW k \in 1 .. n
        PROVE  h[k] = h[k - 1] + s[k]
    <3>1. k \in 0 .. n /\ k - 1 \in 0 .. n /\ k - 1 # n /\ (k # n => k \in 1 .. n - 1)
      OBVIOUS
    <3>2. h[k - 1] = g[k - 1] /\ h[k] = IF k = n THEN g[n - 1] + s[n] ELSE g[k]
      BY <3>1, Zenon
    <3> QED
      BY <2>2, <3>1, <3>2, Zenon
  <2>6. Partial(s, n, h)
    BY <2>3, <2>4, <2>5, Zenon DEF Partial
  <2>7. n \in 0 .. Len(s)
    BY <1>0
  <2> QED
    BY <2>6, <2>7, Zenon
<1>3. Len(s) \in T
  <2>1. Len(s) \in 0 .. Len(s)
    BY <1>0
  <2> HIDE DEF T
  <2> QED
    BY <1>0, <1>1, <1>2, <2>1, Positions, Zenon
<1> QED
  BY <1>3, Zenon

\* They are the only ones, and the last of them is the sum.
LEMMA SumIsPartial ==
  ASSUME NEW s \in Seq(Int), NEW h, Partial(s, Len(s), h)
  PROVE  Sum(s) = h[Len(s)]
<1> DEFINE Rec(g) == [k \in 0 .. Len(s) |-> IF k = 0 THEN 0 ELSE g[k - 1] + s[k]]
           sum == CHOOSE g : g = Rec(g)
<1>0. Len(s) \in Nat
  OBVIOUS
<1>1. h = Rec(h)
  <2>1. /\ h \in [0 .. Len(s) -> Int] /\ h[0] = 0
        /\ \A k \in 1 .. Len(s) : h[k] = h[k - 1] + s[k]
    BY Zenon DEF Partial
  <2>2. \A k \in 0 .. Len(s) : k = 0 \/ k \in 1 .. Len(s)
    BY <1>0
  <2>3. \A k \in 0 .. Len(s) : h[k] = IF k = 0 THEN 0 ELSE h[k - 1] + s[k]
    BY <2>1, <2>2, Zenon
  <2> QED
    BY <2>1, <2>3, Zenon
<1>2. sum = Rec(sum)
  BY <1>1, Zenon
<1>3. Sum(s) = sum[Len(s)]
  BY Zenon DEF Sum
<1> HIDE DEF sum
<1> DEFINE T == {k \in 0 .. Len(s) : sum[k] = h[k]}
<1>4. ASSUME NEW k \in 0 .. Len(s)
      PROVE  /\ sum[k] = IF k = 0 THEN 0 ELSE sum[k - 1] + s[k]
             /\ h[k] = IF k = 0 THEN 0 ELSE h[k - 1] + s[k]
  BY <1>1, <1>2, Zenon
<1>5. 0 \in T
  <2>1. 0 \in 0 .. Len(s)
    BY <1>0
  <2> QED
    BY <1>4, <2>1, Zenon
<1>6. ASSUME NEW k \in 1 .. Len(s), k - 1 \in T
      PROVE  k \in T
  <2>1. k \in 0 .. Len(s) /\ k # 0
    BY <1>0
  <2> QED
    BY <1>4, <1>6, <2>1, Zenon
<1>7. Len(s) \in T
  <2>1. Len(s) \in 0 .. Len(s)
    BY <1>0
  <2> HIDE DEF T
  <2> QED
    BY <1>0, <1>5, <1>6, <2>1, Positions, Zenon
<1> QED
  BY <1>3, <1>7, Zenon

\* The sum is an integer, at least n times a lower bound of the n elements.
LEMMA SumAtLeast ==
  ASSUME NEW s \in Seq(Int), NEW lo \in Int, \A k \in 1 .. Len(s) : s[k] >= lo
  PROVE  Sum(s) \in Int /\ Sum(s) >= Len(s) * lo
<1>0. Len(s) \in Nat /\ \A k \in 1 .. Len(s) : s[k] \in Int
  OBVIOUS
<1>1. PICK g : Partial(s, Len(s), g)
  BY PartialExists, Zenon
<1>2. /\ Sum(s) = g[Len(s)] /\ g \in [0 .. Len(s) -> Int] /\ g[0] = 0
      /\ \A k \in 1 .. Len(s) : g[k] = g[k - 1] + s[k]
  BY <1>1, SumIsPartial, Zenon DEF Partial
<1> DEFINE T == {k \in 0 .. Len(s) : g[k] >= k * lo}
<1>3. 0 \in T
  BY <1>0, <1>2
<1>4. ASSUME NEW k \in 1 .. Len(s), k - 1 \in T
      PROVE  k \in T
  <2>1. k \in 0 .. Len(s) /\ k - 1 \in 0 .. Len(s) /\ s[k] \in Int /\ s[k] >= lo
    BY <1>0
  <2>2. g[k - 1] >= (k - 1) * lo /\ g[k] = g[k - 1] + s[k] /\ g[k - 1] \in Int
    BY <1>2, <1>4, <2>1, Zenon
  <2>3. (k - 1) * lo + lo = k * lo
    BY <2>1
  <2>4. (k - 1) * lo \in Int
    BY <2>1
  <2>5. g[k] >= (k - 1) * lo + lo
    <3> DEFINE c == (k - 1) * lo
    <3>1. c \in Int /\ g[k - 1] >= c
      BY <2>2, <2>4, Zenon
    <3> HIDE DEF c
    <3>2. g[k] >= c + lo
      <4>1. PICK a \in Int, x \in Int : a = g[k - 1] /\ x = s[k]
        BY <2>1, <2>2, Zenon
      <4>2. g[k] = a + x /\ a >= c /\ x >= lo
        BY <2>1, <2>2, <3>1, <4>1, Zenon
      <4>3. a + x >= c + lo
        BY <3>1, <4>2
      <4> QED
        BY <4>2, <4>3, Zenon
    <3> QED
      BY <3>2, Zenon DEF c
  <2> QED
    BY <2>1, <2>3, <2>5, Zenon
<1>5. Len(s) \in 0 .. Len(s)
  BY <1>0
<1>6. Len(s) \in T
  <2> HIDE DEF T
  <2> QED
    BY <1>0, <1>3, <1>4, <1>5, Positions, Zenon
<1> QED
  BY <1>2, <1>5, <1>6, Zenon

\* The elements of a concatenation.
LEMMA Concat ==
  ASSUME NEW a \in Seq(Int), NEW b \in Seq(Int)
  PROVE  /\ a \o b \in Seq(Int) /\ Len(a \o b) = Len(a) + Len(b)
         /\ \A k \in 1 .. Len(a) + Len(b) :
              (a \o b)[k] = IF k <= Len(a) THEN a[k] ELSE b[k - Len(a)]
OBVIOUS

\* The sum of a sequence t that is s without its element at position i.
LEMMA SumWithout ==
  ASSUME NEW s \in Seq(Int), NEW t \in Seq(Int), NEW i \in 1 .. Len(s),
         Len(t) = Len(s) - 1,
         \A k \in 1 .. Len(t) : t[k] = IF k < i THEN s[k] ELSE s[k + 1]
  PROVE  Sum(t) = Sum(s) - s[i]
<1>0. Len(s) \in Nat /\ Len(t) \in Nat /\ i \in Int /\ \A k \in 1 .. Len(s) : s[k] \in Int
  OBVIOUS
<1>1. PICK g : Partial(s, Len(s), g)
  BY PartialExists, Zenon
<1>2. /\ Sum(s) = g[Len(s)] /\ g \in [0 .. Len(s) -> Int] /\ g[0] = 0
      /\ \A k \in 1 .. Len(s) : g[k] = g[k - 1] + s[k]
  BY <1>1, SumIsPartial, Zenon DEF Partial
<1>3. \A k \in 0 .. Len(s) : g[k] \in Int
  BY <1>2, Zenon
<1> DEFINE h == [k \in 0 .. Len(t) |-> IF k < i THEN g[k] ELSE g[k + 1] - s[i]]
<1>4. h \in [0 .. Len(t) -> Int]
  <2>1. \A k \in 0 .. Len(t) : k \in 0 .. Len(s) /\ k + 1 \in 0 .. Len(s)
    BY <1>0
  <2>2. \A k \in 0 .. Len(t) : (IF k < i THEN g[k] ELSE g[k + 1] - s[i]) \in Int
    <3>1. \A a, b \in Int : a - b \in Int
      OBVIOUS
    <3>2. s[i] \in Int /\ \A k \in 0 .. Len(t) : g[k] \in Int /\ g[k + 1] \in Int
      BY <1>0, <1>3, <2>1, Zenon
    <3> QED
      BY <3>1, <3>2, Zenon
  <2> QED
    BY <2>2, Zenon
<1>5. h[0] = 0
  BY <1>0, <1>2
<1>6. ASSUME NEW k \in 1 .. Len(t)
      PROVE  h[k] = h[k - 1] + t[k]
  <2>1. /\ k \in 0 .. Len(t) /\ k - 1 \in 0 .. Len(t) /\ k \in 1 .. Len(s)
        /\ k + 1 \in 1 .. Len(s) /\ (k - 1) + 1 = k /\ (k + 1) - 1 = k
        /\ k \in 0 .. Len(s) /\ k + 1 \in 0 .. Len(s) /\ k - 1 \in 0 .. Len(s)
    <3>1. PICK m, n \in Nat : m = Len(t) /\ n = Len(s)
      BY <1>0, Zenon
    <3>2. m = n - 1 /\ k \in 1 .. m
      BY <3>1, Zenon
    <3>3. /\ k \in 0 .. m /\ k - 1 \in 0 .. m /\ k \in 1 .. n
          /\ k + 1 \in 1 .. n /\ (k - 1) + 1 = k /\ (k + 1) - 1 = k
          /\ k \in 0 .. n /\ k + 1 \in 0 .. n /\ k - 1 \in 0 .. n
      BY ONLY m \in Nat, n \in Nat, <3>2, SMT
    <3> QED
      BY <3>1, <3>3, Zenon
  <2>2. /\ h[k] = (IF k < i THEN g[k] ELSE g[k + 1] - s[i])
        /\ h[k - 1] = (IF k - 1 < i THEN g[k - 1] ELSE g[k] - s[i])
        /\ t[k] = (IF k < i THEN s[k] ELSE s[k + 1])
    BY <1>2, <2>1, Zenon
  <2>3. /\ g[k] \in Int /\ g[k + 1] \in Int /\ g[k - 1] \in Int
        /\ s[k] \in Int /\ s[k + 1] \in Int /\ s[i] \in Int
    BY <1>0, <1>3, <2>1, Zenon
  <2>g. g[k] = g[k - 1] + s[k] /\ g[k + 1] = g[k] + s[k + 1]
    BY <1>2, <2>1, Zenon
  <2>h. /\ g[k + 1] - s[k] = g[k - 1] + s[k + 1]
        /\ g[k + 1] - s[i] = (g[k] - s[i]) + s[k + 1]
    <3>1. PICK a \in Int, b \in Int, c \in Int : a = g[k - 1] /\ b = g[k] /\ c = g[k + 1]
      BY <2>3, Zenon
    <3>2. PICK x \in Int, y \in Int, z \in Int : x = s[k] /\ y = s[k + 1] /\ z = s[i]
      BY <2>3, Zenon
    <3>3. b = a + x /\ c = b + y
      BY <2>g, <3>1, <3>2, Zenon
    <3>4. c - x = a + y /\ c - z = (b - z) + y
      BY <3>3
    <3> QED
      BY <3>1, <3>2, <3>4, Zenon
  <2> HIDE DEF h
  <2>4. CASE k < i
    <3>1. k - 1 < i
      BY <1>0, <2>4
    <3> QED
      BY <2>2, <2>g, <2>4, <3>1, Zenon
  <2>5. CASE k = i
    <3>1. k - 1 < i /\ ~ (k < i)
      BY <1>0, <2>5
    <3>2. h[k] = g[k + 1] - s[k] /\ h[k - 1] = g[k - 1] /\ t[k] = s[k + 1]
      BY <2>2, <2>5, <3>1, Zenon
    <3> QED
      BY <2>h, <3>2, Zenon
  <2>6. CASE k > i
    <3>1. ~ (k - 1 < i) /\ ~ (k < i)
      BY <1>0, <2>6
    <3>2. h[k] = g[k + 1] - s[i] /\ h[k - 1] = g[k] - s[i] /\ t[k] = s[k + 1]
      BY <2>2, <3>1, Zenon
    <3> QED
      BY <2>h, <3>2, Zenon
  <2> QED
    BY <1>0, <2>4, <2>5, <2>6
<1>7. Sum(t) = h[Len(t)]
  <2>1. Partial(t, Len(t), h)
    BY <1>4, <1>5, <1>6, Zenon DEF Partial
  <2> HIDE DEF h
  <2> QED
    BY <2>1, SumIsPartial, Zenon
<1>8. h[Len(t)] = IF Len(t) < i THEN g[Len(t)] ELSE g[Len(s)] - s[i]
  BY <1>0
<1>9. CASE Len(t) < i
  <2>1. i = Len(s) /\ Len(s) \in 1 .. Len(s) /\ Len(t) \in 0 .. Len(s)
    <3>1. PICK m, n \in Nat : m = Len(t) /\ n = Len(s)
      BY <1>0, Zenon
    <3>2. m = n - 1 /\ i \in 1 .. n /\ m < i
      BY <1>9, <3>1, Zenon
    <3>3. i = n /\ n \in 1 .. n /\ m \in 0 .. n
      BY ONLY m \in Nat, n \in Nat, <3>2, SMT
    <3> QED
      BY <3>1, <3>3, Zenon
  <2>2. g[Len(s)] = g[Len(t)] + s[i]
    BY <1>2, <2>1, Zenon
  <2>3. g[Len(t)] \in Int /\ s[i] \in Int
    BY <1>0, <1>3, <2>1, Zenon
  <2> QED
    <3>1. PICK a \in Int, x \in Int : a = g[Len(t)] /\ x = s[i]
      BY <2>3, Zenon
    <3>2. Sum(t) = a /\ Sum(s) = a + x
      BY <1>2, <1>7, <1>8, <1>9, <2>2, <3>1, Zenon
    <3>3. a = (a + x) - x
      OBVIOUS
    <3> QED
      BY <3>1, <3>2, <3>3, Zenon
<1>10. CASE ~ (Len(t) < i)
  BY <1>2, <1>7, <1>8, <1>10, Zenon
<1> QED
  BY <1>9, <1>10, Zenon

\* What the steps of the window do to the sum of m_outgoing.
LEMMA SumSteps ==
  ASSUME NEW s \in Seq(Nat)
  PROVE  /\ Sum(<<>>) = 0
         /\ \A x \in Nat : Sum(Append(s, x)) = Sum(s) + x
         /\ \A i \in 1 .. Len(s) : Sum(Without(s, i)) = Sum(s) - s[i]
         /\ s # <<>> => Sum(Tail(s)) = Sum(s) - Head(s)
<1>0. s \in Seq(Int)
  OBVIOUS
<1>1. Sum(<<>>) = 0
  <2>1. <<>> \in Seq(Int) /\ Len(<<>>) = 0
    OBVIOUS
  <2>2. Partial(<<>>, 0, [k \in 0 .. 0 |-> 0])
    BY DEF Partial
  <2>3. Sum(<<>>) = [k \in 0 .. 0 |-> 0][0]
    BY <2>1, <2>2, SumIsPartial, Zenon
  <2> QED
    BY <2>3
<1>2. ASSUME NEW x \in Nat
      PROVE  Sum(Append(s, x)) = Sum(s) + x
  <2> DEFINE t == Append(s, x)
  <2>0. \A k \in 1 .. Len(t) : t[k] >= 0
    OBVIOUS
  <2>1. /\ t \in Seq(Int) /\ Len(t) = Len(s) + 1 /\ Len(s) = Len(t) - 1 /\ Len(t) \in 1 .. Len(t)
        /\ t[Len(t)] = x
        /\ \A k \in 1 .. Len(s) : k < Len(t) /\ t[k] = s[k]
    BY <1>0
  <2>2. \A k \in 1 .. Len(s) : s[k] = IF k < Len(t) THEN t[k] ELSE t[k + 1]
    BY <2>1, Zenon
  <2> HIDE DEF t
  <2>3. Sum(s) = Sum(t) - t[Len(t)]
    BY <1>0, <2>1, <2>2, SumWithout, Zenon
  <2>4. Sum(t) \in Int
    <3>1. 0 \in Int
      OBVIOUS
    <3> QED
      BY <2>0, <2>1, <3>1, SumAtLeast, Zenon
  <2>5. Sum(t) = Sum(s) + x
    BY <2>1, <2>3, <2>4
  <2> QED
    BY <2>5, Zenon DEF t
<1>3. ASSUME NEW i \in 1 .. Len(s)
      PROVE  Sum(Without(s, i)) = Sum(s) - s[i]
  <2> DEFINE t == Without(s, i)
             a == SubSeq(s, 1, i - 1)
             b == SubSeq(s, i + 1, Len(s))
  <2>a. /\ a \in Seq(Int) /\ Len(a) = i - 1 /\ \A k \in 1 .. i - 1 : a[k] = s[k]
    <3>1. PICK n \in Nat : n = Len(s)
      BY <1>0
    <3>2. n = Len(s) /\ i \in 1 .. n /\ s \in Seq(Int)
      BY <1>0, <3>1, Zenon
    <3> QED
      BY ONLY n \in Nat, <3>2, SMT
  <2>b. /\ b \in Seq(Int) /\ Len(b) = Len(s) - i
        /\ \A k \in 1 .. Len(s) - i : b[k] = s[i + k]
    <3>1. PICK n \in Nat : n = Len(s)
      BY <1>0
    <3>2. PICK m, c : m = i + 1 /\ c = SubSeq(s, m, n)
      BY Zenon
    <3>3. n \in Nat /\ i \in 1 .. n /\ b = c
      BY <3>1, <3>2, Zenon
    <3>4. m \in 1 .. n + 1 /\ n - m + 1 = n - i /\ \A k \in 1 .. n - i : m + k - 1 = i + k
      BY ONLY <3>2, <3>3, SMT
    <3>5. n \in Nat /\ m \in 1 .. n + 1 /\ s \in Seq(Int) /\ n = Len(s) /\ c = SubSeq(s, m, n)
      BY <1>0, <3>1, <3>2, <3>4, Zenon
    <3>6. c \in Seq(Int) /\ Len(c) = n - m + 1 /\ \A k \in 1 .. n - m + 1 : c[k] = s[m + k - 1]
      BY ONLY <3>5, SMTT(20)
    <3> QED
      BY <3>1, <3>3, <3>4, <3>6, Zenon
  <2>t. t = a \o b
    BY Zenon DEF Without
  <2> HIDE DEF a, b, t
  <2>1. t \in Seq(Int) /\ Len(t) = Len(s) - 1
    <3>1. t \in Seq(Int) /\ Len(t) = Len(a) + Len(b)
      BY <2>a, <2>b, <2>t, Concat, Zenon
    <3> QED
      BY <1>0, <2>a, <2>b, <3>1
  <2>2. \A k \in 1 .. Len(t) : t[k] = IF k < i THEN s[k] ELSE s[k + 1]
    <3> TAKE k \in 1 .. Len(t)
    <3>1. k \in 1 .. Len(a) + Len(b) /\ (k <= Len(a) <=> k < i)
      <4>1. Len(a) = i - 1 /\ Len(b) = Len(s) - i /\ Len(t) = Len(s) - 1
        BY <2>a, <2>b, <2>1, Zenon
      <4>2. Len(s) \in Nat /\ i \in Nat /\ k \in Int /\ k >= 1 /\ k <= Len(s) - 1
        BY <1>0, <4>1
      <4> QED
        BY <4>1, <4>2
    <3>2. t[k] = IF k < i THEN a[k] ELSE b[k - Len(a)]
      BY <2>a, <2>b, <2>t, <3>1, Concat, Zenon
    <3>3. CASE k < i
      <4>1. k \in 1 .. i - 1
        BY <1>0, <3>3
      <4> QED
        BY <2>a, <3>2, <3>3, <4>1, Zenon
    <3>4. CASE ~ (k < i)
      <4>1. k - Len(a) \in 1 .. Len(s) - i /\ i + (k - Len(a)) = k + 1
        <5>1. Len(a) = i - 1 /\ k \in 1 .. Len(s) - 1 /\ Len(s) \in Nat
          BY <1>0, <2>a, <2>1
        <5> QED
          BY <3>4, <5>1
      <4> QED
        BY <2>b, <3>2, <3>4, <4>1, Zenon
    <3> QED
      BY <3>3, <3>4, Zenon
  <2>3. Sum(t) = Sum(s) - s[i]
    BY <1>0, <2>1, <2>2, SumWithout, Zenon
  <2> QED
    BY <2>3, Zenon DEF t
<1>4. ASSUME s # <<>>
      PROVE  Sum(Tail(s)) = Sum(s) - Head(s)
  <2> DEFINE t == Tail(s)
  <2>1. t \in Seq(Int) /\ Len(t) = Len(s) - 1 /\ 1 \in 1 .. Len(s) /\ Head(s) = s[1]
    BY <1>0, <1>4
  <2>2. \A k \in 1 .. Len(t) : t[k] = IF k < 1 THEN s[k] ELSE s[k + 1]
    BY <1>0, <1>4
  <2> HIDE DEF t
  <2>3. Sum(t) = Sum(s) - s[1]
    BY <1>0, <2>1, <2>2, SumWithout, Zenon
  <2> QED
    BY <2>1, <2>3, Zenon DEF t
<1> QED
  BY <1>1, <1>2, <1>3, <1>4, Zenon

-----------------------------------------------------------------------------
(***************************************************************************)
(* RecalculateRTT.                                                         *)
(***************************************************************************)

\* The elements of a sequence of naturals are bounded.
LEMMA Bounded ==
  ASSUME NEW h \in Seq(Nat)
  PROVE  \E b \in Nat : \A k \in 1 .. Len(h) : h[k] <= b
<1> DEFINE Upto(n) == \E b \in Nat : \A k \in 1 .. n : h[k] <= b
           T == {n \in 0 .. Len(h) : Upto(n)}
<1>0. Len(h) \in Nat /\ \A k \in 1 .. Len(h) : h[k] \in Nat
  OBVIOUS
<1>1. 0 \in T
  <2>1. 0 \in Nat /\ \A k \in 1 .. 0 : h[k] <= 0
    OBVIOUS
  <2>2. 0 \in 0 .. Len(h)
    BY <1>0
  <2> QED
    BY <2>1, <2>2, Zenon
<1>2. ASSUME NEW n \in 1 .. Len(h), n - 1 \in T
      PROVE  n \in T
  <2>1. PICK b \in Nat : \A k \in 1 .. n - 1 : h[k] <= b
    BY <1>2, Zenon
  <2>2. PICK x \in Nat : x = h[n]
    BY <1>0, Zenon
  <2>3. b + x \in Nat /\ \A k \in 1 .. n : h[k] <= b + x
    <3>1. \A k \in 1 .. n : k = n \/ k \in 1 .. n - 1
      OBVIOUS
    <3>2. \A k \in 1 .. n : h[k] \in Nat
      BY <1>0
    <3>3. x <= b + x /\ \A a \in Nat : a <= b => a <= b + x
      OBVIOUS
    <3>4. \A k \in 1 .. n : h[k] <= b + x
      BY <2>1, <2>2, <3>1, <3>2, <3>3, Zenon
    <3> QED
      BY <3>4
  <2>4. n \in 0 .. Len(h)
    BY <1>0
  <2> QED
    BY <2>3, <2>4, Zenon
<1>3. Len(h) \in T
  <2>1. Len(h) \in 0 .. Len(h)
    BY <1>0
  <2> HIDE DEF T
  <2> QED
    BY <1>0, <1>1, <1>2, <2>1, Positions, Zenon
<1> QED
  BY <1>3, Zenon

\* A quotient is at least b when the dividend is at least b times the divisor.
LEMMA QuotientAtLeast ==
  ASSUME NEW a \in Int, NEW n \in Nat, n > 0, NEW b \in Int, a >= n * b
  PROVE  a \div n \in Int /\ a \div n >= b
<1>1. PICK q \in Int, r \in 0 .. n - 1 : q = a \div n /\ a = n * q + r
  <2>1. a % n \in 0 .. n - 1 /\ a \div n \in Int /\ a = n * (a \div n) + (a % n)
    OBVIOUS
  <2> QED
    BY <2>1, Zenon
<1>2. q >= b
  <2> SUFFICES ASSUME q <= b - 1
               PROVE  FALSE
    OBVIOUS
  <2>1. n * q <= n * (b - 1)
    OBVIOUS
  <2>2. n * (b - 1) = n * b - n
    OBVIOUS
  <2> QED
    BY <1>1, <2>1, <2>2
<1> QED
  BY <1>1, <1>2, Zenon

\* The measures of a history that is not empty: all its round trips, and the average,
\* lie between the least and the greatest.
LEMMA Measures ==
  ASSUME NEW h \in Seq(Nat), h # <<>>
  PROVE  /\ Sum(h) \div Len(h) \in Nat /\ Max(Range(h) \cup {0}) \in Nat /\ Min(Range(h)) \in Nat
         /\ \A k \in DOMAIN h : Min(Range(h)) <= h[k] /\ h[k] <= Max(Range(h) \cup {0})
         /\ Min(Range(h)) <= Sum(h) \div Len(h)
<1>0. /\ Len(h) \in Nat /\ Len(h) > 0 /\ DOMAIN h = 1 .. Len(h) /\ 1 \in 1 .. Len(h)
      /\ \A k \in 1 .. Len(h) : h[k] \in Nat
  OBVIOUS
<1>1. Range(h) \subseteq Nat /\ Range(h) # {} /\ \A k \in DOMAIN h : h[k] \in Range(h)
  BY <1>0, Zenon DEF Range
<1>2. /\ Min(Range(h)) \in Range(h)
      /\ \A y \in Range(h) : Min(Range(h)) <= y
  <2>1. \E x \in Range(h) : \A y \in Range(h) : x <= y
    BY <1>1, LeastExists, Zenon
  <2> QED
    BY <2>1, Zenon DEF Min
<1>3. /\ Max(Range(h) \cup {0}) \in Range(h) \cup {0}
      /\ \A y \in Range(h) \cup {0} : Max(Range(h) \cup {0}) >= y
  <2> DEFINE R == Range(h) \cup {0}
             B == {b \in Nat : \A y \in R : y <= b}
  <2>1. R \subseteq Nat /\ 0 \in R
    BY <1>1
  <2>2. B # {}
    <3>1. PICK b \in Nat : \A k \in 1 .. Len(h) : h[k] <= b
      BY Bounded, Zenon
    <3>2. \A y \in Range(h) : y <= b
      BY <1>0, <3>1, Zenon DEF Range
    <3>3. 0 <= b
      OBVIOUS
    <3> QED
      BY <3>2, <3>3, Zenon
  <2>3. PICK b \in B : \A c \in B : b <= c
    <3>1. B \subseteq Nat
      BY Zenon
    <3> HIDE DEF B
    <3> QED
      BY <2>2, <3>1, LeastExists, Zenon
  <2> HIDE DEF R
  <2>4. b \in Nat /\ \A y \in R : y <= b /\ y \in Nat
    BY <2>1, <2>3, Zenon
  <2>5. b \in R
    <3> SUFFICES ASSUME b \notin R
                 PROVE  FALSE
      BY Zenon
    <3>1. b # 0 /\ b - 1 \in Nat /\ ~ (b <= b - 1)
      BY <2>1, <2>4
    <3>2. \A y \in R : y <= b - 1
      BY <2>4, <3>1
    <3>3. b - 1 \in B
      BY <3>1, <3>2, Zenon
    <3> QED
      BY <2>3, <3>1, <3>3, Zenon
  <2>6. \A y \in R : b >= y
    BY <2>4, Zenon
  <2>7. Max(R) \in R /\ \A y \in R : Max(R) >= y
    BY <2>5, <2>6, Zenon DEF Max
  <2> QED
    BY <2>7, Zenon DEF R
<1> DEFINE mn == Min(Range(h))
           mx == Max(Range(h) \cup {0})
<1>4. mn \in Nat /\ mx \in Nat
  BY <1>1, <1>2, <1>3
<1>5. \A k \in DOMAIN h : mn <= h[k] /\ h[k] <= mx
  <2>1. \A k \in DOMAIN h : mn <= h[k] /\ mx >= h[k]
    BY <1>1, <1>2, <1>3, Zenon
  <2> HIDE DEF mn, mx
  <2> QED
    BY <1>0, <1>4, <2>1, Zenon
<1> HIDE DEF mn, mx
<1>6. Sum(h) \in Int /\ Sum(h) >= Len(h) * mn
  <2>1. h \in Seq(Int) /\ mn \in Int
    BY <1>4
  <2>2. \A k \in 1 .. Len(h) : h[k] >= mn
    BY <1>0, <1>4, <1>5, Zenon
  <2> QED
    BY <2>1, <2>2, SumAtLeast, Zenon
<1>7. Sum(h) \div Len(h) \in Int /\ Sum(h) \div Len(h) >= mn
  <2>1. mn \in Int
    BY <1>4
  <2> QED
    BY <1>0, <1>6, <2>1, QuotientAtLeast, Zenon
<1>8. Sum(h) \div Len(h) \in Nat /\ mn <= Sum(h) \div Len(h)
  <2>1. PICK q \in Int : q = Sum(h) \div Len(h)
    BY <1>7, Zenon
  <2>2. q \in Nat /\ mn <= q
    BY <1>4, <1>7, <2>1
  <2> QED
    BY <2>1, <2>2, Zenon
<1> QED
  BY <1>4, <1>5, <1>8, Zenon DEF mn, mx

-----------------------------------------------------------------------------
\* The bytes in flight are those of the datagrams in m_outgoing, and the measures
\* are those of the history.
RecordsInv ==
  /\ outgoing \in Seq(Lengths) /\ bytesInFlight = Sum(outgoing)
  /\ rttHistory \in Seq(Rtts) /\ Len(rttHistory) <= RTT_HISTORY_LEN
  /\ rttMin \in Nat /\ rttMax \in Nat /\ rttAvg \in Nat
  /\ rttHistory # <<>> =>
       /\ rttMin <= rttAvg
       /\ \A k \in DOMAIN rttHistory : rttMin <= rttHistory[k] /\ rttHistory[k] <= rttMax

\* A sequence over a set is one over any larger set.
LEMMA SeqWider ==
  ASSUME NEW S, NEW T, S \subseteq T, NEW s \in Seq(S)
  PROVE  s \in Seq(T)
OBVIOUS

\* A sequence of some naturals is a sequence of naturals.
LEMMA SeqOfNat ==
  ASSUME NEW S, S \subseteq Nat, NEW s \in Seq(S)
  PROVE  s \in Seq(Nat) /\ DOMAIN s = 1 .. Len(s) /\ \A k \in DOMAIN s : s[k] \in Nat
<1>1. s \in Seq(Nat)
  BY SeqWider, Zenon
<1>2. DOMAIN s = 1 .. Len(s) /\ \A k \in DOMAIN s : s[k] \in Nat
  BY <1>1
<1> QED
  BY <1>1, <1>2, Zenon

\* A datagram leaves the records: the ack or the expiry of the one at position k.
LEMMA LeaveRecords ==
  ASSUME outgoing \in Seq(Lengths), bytesInFlight = Sum(outgoing)
  PROVE  /\ \A k \in DOMAIN outgoing :
              /\ Without(outgoing, k) \in Seq(Lengths)
              /\ bytesInFlight - outgoing[k] = Sum(Without(outgoing, k))
         /\ outgoing # <<>> =>
              /\ Tail(outgoing) \in Seq(Lengths)
              /\ bytesInFlight - Head(outgoing) = Sum(Tail(outgoing))
<1>1. outgoing \in Seq(Nat) /\ DOMAIN outgoing = 1 .. Len(outgoing)
  BY BoundAssumption, SeqOfNat, Zenon
<1>2. /\ \A k \in DOMAIN outgoing : Without(outgoing, k) \in Seq(Lengths)
      /\ outgoing # <<>> => Tail(outgoing) \in Seq(Lengths)
  BY DEF Without
<1> QED
  BY <1>1, <1>2, SumSteps, Zenon

\* RecordsInv is inductive.
THEOREM RecordsInvariant == Spec => []RecordsInv
<1>1. Init => RecordsInv
  <2> SUFFICES ASSUME Init
               PROVE  RecordsInv
    BY Zenon
  <2>1. Sum(<<>>) = 0
    <3>1. <<>> \in Seq(Nat)
      OBVIOUS
    <3> QED
      BY <3>1, SumSteps, Zenon
  <2> QED
    BY <2>1, TimeAssumption DEF Init, RecordsInv
<1>2. RecordsInv /\ [Next]_vars => RecordsInv'
  <2> SUFFICES ASSUME RecordsInv, [Next]_vars
               PROVE  RecordsInv'
    BY Zenon
  <2>0. outgoing \in Seq(Lengths) /\ bytesInFlight = Sum(outgoing)
    BY Zenon DEF RecordsInv
  <2>a. ASSUME UNCHANGED rttVars, outgoing' \in Seq(Lengths), bytesInFlight' = Sum(outgoing')
        PROVE  RecordsInv'
    BY <2>a, Zenon DEF rttVars, RecordsInv
  <2>1. CASE NotifySendingBytes
    <3>1. PICK bytes \in Lengths :
            outgoing' = Append(outgoing, bytes) /\ bytesInFlight' = bytesInFlight + bytes
      BY <2>1, Zenon DEF NotifySendingBytes
    <3>2. outgoing \in Seq(Nat) /\ bytes \in Nat /\ outgoing' \in Seq(Lengths)
      <4>1. outgoing \in Seq(Nat) /\ bytes \in Nat
        BY <2>0, BoundAssumption, SeqOfNat, Zenon
      <4>2. outgoing' \in Seq(Lengths)
        BY <2>0, <3>1
      <4> QED
        BY <4>1, <4>2, Zenon
    <3>3. bytesInFlight' = Sum(outgoing')
      BY <2>0, <3>1, <3>2, SumSteps, Zenon
    <3>4. UNCHANGED rttVars
      BY <2>1, Zenon DEF NotifySendingBytes
    <3> QED
      BY <2>a, <3>2, <3>3, <3>4, Zenon
  <2>2. CASE NotifyReceivedAck
    <3>1. CASE UNCHANGED <<flightVars, rttVars>>
      <4>1. UNCHANGED <<outgoing, bytesInFlight>> /\ UNCHANGED rttVars
        BY <3>1, Zenon DEF flightVars
      <4>2. Sum(outgoing') = Sum(outgoing)
        BY <4>1, Zenon
      <4> QED
        BY <2>0, <2>a, <4>1, <4>2, Zenon
    <3>2. ASSUME NEW k \in DOMAIN outgoing, NEW rtt \in Rtts, NEW kept,
                 kept = IF Len(Append(rttHistory, rtt)) > RTT_HISTORY_LEN
                        THEN Tail(Append(rttHistory, rtt)) ELSE Append(rttHistory, rtt),
                 rttHistory' = kept, RecalculateRTT(kept),
                 bytesInFlight' = bytesInFlight - outgoing[k],
                 outgoing' = Without(outgoing, k)
          PROVE  RecordsInv'
      <4>1. outgoing' \in Seq(Lengths) /\ bytesInFlight' = Sum(outgoing')
        BY <2>0, <3>2, LeaveRecords, Zenon
      <4>2. kept \in Seq(Rtts) /\ Len(kept) <= RTT_HISTORY_LEN /\ kept # <<>>
        <5>1. rttHistory \in Seq(Rtts) /\ Len(rttHistory) <= RTT_HISTORY_LEN
          BY Zenon DEF RecordsInv
        <5>2. /\ Append(rttHistory, rtt) \in Seq(Rtts)
              /\ Len(Append(rttHistory, rtt)) = Len(rttHistory) + 1 /\ Len(rttHistory) \in Nat
          BY <5>1
        <5>3. CASE Len(rttHistory) + 1 > RTT_HISTORY_LEN
          BY <3>2, <5>1, <5>2, <5>3, TimeAssumption
        <5>4. CASE ~ (Len(rttHistory) + 1 > RTT_HISTORY_LEN)
          BY <3>2, <5>1, <5>2, <5>4, TimeAssumption
        <5> QED
          BY <5>3, <5>4, Zenon
      <4>3. kept \in Seq(Nat)
        BY <4>2, TimeAssumption, SeqOfNat, Zenon
      <4>4. /\ rttAvg' = Sum(kept) \div Len(kept) /\ rttMax' = Max(Range(kept) \cup {0})
            /\ rttMin' = Min(Range(kept))
        BY <3>2, Zenon DEF RecalculateRTT
      <4>5. /\ rttAvg' \in Nat /\ rttMax' \in Nat /\ rttMin' \in Nat /\ rttMin' <= rttAvg'
            /\ \A i \in DOMAIN kept : rttMin' <= kept[i] /\ kept[i] <= rttMax'
        BY <4>2, <4>3, <4>4, Measures, Zenon
      <4> QED
        BY <3>2, <4>1, <4>2, <4>5, Zenon DEF RecordsInv
    <3> QED
      BY <2>2, <3>1, <3>2, Zenon DEF NotifyReceivedAck
  <2>3. CASE NotifyReceivedNakGroup
    <3>1. UNCHANGED <<outgoing, bytesInFlight>> /\ UNCHANGED rttVars
      BY <2>3, Zenon DEF NotifyReceivedNakGroup, flightVars
    <3> QED
      BY <2>0, <2>a, <3>1, Zenon
  <2>4. CASE Update
    <3>1. outgoing' \in Seq(Lengths) /\ bytesInFlight' = Sum(outgoing')
      BY <2>0, <2>4, LeaveRecords, Zenon DEF Update
    <3> QED
      BY <2>4, <2>a, <3>1, Zenon DEF Update
  <2>5. CASE UNCHANGED vars
    <3>1. UNCHANGED <<outgoing, bytesInFlight>> /\ UNCHANGED rttVars
      BY <2>5, Zenon DEF vars, flightVars
    <3> QED
      BY <2>0, <2>a, <3>1, Zenon
  <2> QED
    BY <2>1, <2>2, <2>3, <2>4, <2>5, Zenon DEF Next
<1> QED
  BY <1>1, <1>2, PTL DEF Spec

\* m_bytesInFlight, which is unsigned, is always the sum over m_outgoing, so that
\* neither an ack nor Update takes it below zero.
THEOREM BytesAreSummed == Spec => []TypeOK
<1>1. WindowInv /\ RecordsInv => TypeOK
  BY Zenon DEF WindowInv, RecordsInv, TypeOK
<1> QED
  BY <1>1, WindowInvariant, RecordsInvariant, PTL

\* The retransmission delay exceeds every round trip on record, whatever they are
\* and however many the history keeps.
THEOREM RtoCoversRoundTrips == Spec => []RtoCoversHistory
<1>1. RecordsInv => RtoCoversHistory
  <2> SUFFICES ASSUME RecordsInv, GetRTTHistoryAvailable,
                      NEW k \in DOMAIN rttHistory, NEW retries \in 0 .. 1
               PROVE  GetRetransmissionRTO(retries) > rttHistory[k]
    BY Zenon DEF RtoCoversHistory
  <2>1. rttHistory # <<>> /\ rttHistory[k] \in Nat
    <3>1. rttHistory \in Seq(Rtts)
      BY Zenon DEF RecordsInv
    <3>2. rttHistory[k] \in Nat
      BY <3>1, TimeAssumption, SeqOfNat, Zenon
    <3>3. rttHistory # <<>>
      BY <3>1
    <3> QED
      BY <3>2, <3>3, Zenon
  <2>2. /\ rttMin \in Nat /\ rttMax \in Nat /\ rttAvg \in Nat /\ rttMin <= rttAvg
        /\ rttMin <= rttHistory[k] /\ rttHistory[k] <= rttMax
    BY <2>1, Zenon DEF RecordsInv
  <2> DEFINE base == 2 * rttAvg + 4 * (rttMax - rttMin) + TICK
  <2>3. base \in Nat /\ base > rttHistory[k]
    BY <2>1, <2>2, TimeAssumption
  <2>4. GetRetransmissionRTO(retries) = base * (retries + 1)
    BY Zenon DEF GetRetransmissionRTO
  <2> HIDE DEF base
  <2>5. base * (retries + 1) >= base
    <3>1. retries = 0 \/ retries = 1
      OBVIOUS
    <3> QED
      BY <2>3, <3>1
  <2>6. base * (retries + 1) \in Int
    BY <2>3
  <2> QED
    BY <2>1, <2>3, <2>4, <2>5, <2>6
<1> QED
  BY <1>1, RecordsInvariant, PTL
=============================================================================
