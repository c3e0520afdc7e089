------------------------ MODULE SocketThreads_proofs ------------------------
(***************************************************************************)
(* Proof that the threads of a Peer never have two reads, or two writes,   *)
(* under way on their socket.                                              *)
(*                                                                         *)
(* The first lemmas say what asio's queues hold after each thing that can  *)
(* happen to them; the steps of the threads then only concern the flags.   *)
(***************************************************************************)
EXTENDS SocketThreads, FiniteSetTheorems, TLAPS

-----------------------------------------------------------------------------
(***************************************************************************)
(* Sequences.                                                              *)
(***************************************************************************)

\* What Append, used for every operation that begins and every handler that gets
\* ready, adds to a queue.
LEMMA Appended ==
  ASSUME NEW S, NEW s \in Seq(S), NEW x \in S, NEW t, t = Append(s, x)
  PROVE  /\ t \in Seq(S)
         /\ DOMAIN t = DOMAIN s \cup {Len(s) + 1}
         /\ Len(s) + 1 \notin DOMAIN s
         /\ t[Len(s) + 1] = x
         /\ \A k \in DOMAIN s : t[k] = s[k]
  OBVIOUS

\* What concatenation, used when the socket closes, makes of two queues.
LEMMA Joined ==
  ASSUME NEW S, NEW s \in Seq(S), NEW t \in Seq(S), NEW u, u = s \o t
  PROVE  /\ u \in Seq(S)
         /\ DOMAIN u = 1 .. Len(s) + Len(t)
         /\ \A k \in DOMAIN s : u[k] = s[k]
         /\ \A k \in DOMAIN t : u[Len(s) + k] = t[k]
  OBVIOUS

\* t is s without its member k.
IsWithout(S, s, k, t) ==
  /\ t \in Seq(S) /\ DOMAIN t = 1 .. Len(s) - 1
  /\ \A j \in 1 .. Len(s) - 1 : j < k => t[j] = s[j]
  /\ \A j \in 1 .. Len(s) - 1 : ~ (j < k) => t[j] = s[j + 1]

\* What is left of a queue when an operation completes.
LEMMA Removed ==
  ASSUME NEW S, NEW s \in Seq(S), NEW k \in 1 .. Len(s),
         NEW t, t = SubSeq(s, 1, k - 1) \o SubSeq(s, k + 1, Len(s))
  PROVE  IsWithout(S, s, k, t)
  <1>1. PICK n \in Nat : n = Len(s)
    OBVIOUS
  <1>2. n \in Nat /\ k \in 1 .. n
    BY <1>1, Zenon
  <1>3. PICK a, b : a = SubSeq(s, 1, k - 1) /\ b = SubSeq(s, k + 1, n)
    BY Zenon
  <1>4. a \in Seq(S) /\ Len(a) = k - 1 /\ \A j \in 1 .. k - 1 : a[j] = s[j]
    <2>1. s \in Seq(S) /\ n = Len(s) /\ a = SubSeq(s, 1, k - 1)
      BY <1>1, <1>3, Zenon
    <2>2. QED
      BY ONLY <1>2, <2>1, SMT
  <1>5. b \in Seq(S) /\ Len(b) = n - k /\ \A j \in 1 .. n - k : b[j] = s[k + j]
    <2>1. PICK m : m = k + 1
      BY Zenon
    <2>2. m \in 1 .. n + 1 /\ n - m + 1 = n - k /\ \A j \in 1 .. n - k : m + j - 1 = k + j
      BY ONLY <1>2, <2>1, SMT
    <2>3. n \in Nat /\ m \in 1 .. n + 1 /\ s \in Seq(S) /\ n = Len(s) /\ b = SubSeq(s, m, n)
      BY <1>1, <1>3, <2>1, <2>2, Zenon
    <2>4. b \in Seq(S) /\ Len(b) = n - m + 1 /\ \A j \in 1 .. n - m + 1 : b[j] = s[m + j - 1]
      BY ONLY <2>3, SMT
    <2>5. QED
      BY ONLY <2>2, <2>4, Zenon
  <1>6. /\ t \in Seq(S) /\ DOMAIN t = 1 .. n - 1
        /\ \A j \in 1 .. k - 1 : t[j] = s[j]
        /\ \A j \in 1 .. n - k : t[k - 1 + j] = s[k + j]
    <2>1. a \in Seq(S) /\ b \in Seq(S) /\ t = a \o b
      BY <1>1, <1>3, <1>4, <1>5, Zenon
    <2>2. /\ t \in Seq(S) /\ DOMAIN t = 1 .. Len(a) + Len(b)
          /\ \A j \in 1 .. Len(a) : t[j] = a[j]
          /\ \A j \in 1 .. Len(b) : t[Len(a) + j] = b[j]
      BY ONLY <2>1, SMT
    <2>3. (k - 1) + (n - k) = n - 1
      BY ONLY <1>2, SMT
    <2>4. QED
      BY ONLY <1>4, <1>5, <2>2, <2>3, Zenon
  <1>7. ASSUME NEW j \in 1 .. n - 1, ~ (j < k)
        PROVE  t[j] = s[j + 1]
    <2>1. PICK i : i = j - k + 1
      BY Zenon
    <2>2. j \in 1 .. n - 1 /\ ~ (j < k)
      BY <1>7, Zenon
    <2>3. i \in 1 .. n - k /\ k - 1 + i = j /\ k + i = j + 1
      BY ONLY <2>1, <1>2, <2>2, SMT
    <2>4. QED
      BY <2>3, <1>6, Zenon
  <1>8. ASSUME NEW j \in 1 .. n - 1, j < k
        PROVE  t[j] = s[j]
    <2>1. j \in 1 .. n - 1 /\ j < k
      BY <1>8, Zenon
    <2>2. j \in 1 .. k - 1
      BY ONLY <1>2, <2>1, SMT
    <2>3. QED
      BY <2>2, <1>6, Zenon
  <1>9. QED
    BY <1>1, <1>6, <1>7, <1>8, Zenon DEF IsWithout

-----------------------------------------------------------------------------
(***************************************************************************)
(* The queues.                                                             *)
(***************************************************************************)

\* What leaves every kind with at most one operation or handler, and with none
\* where there was none before.
Settled(kind) == (Alone(kind) => Alone(kind)') /\ (Pending(kind)' => Pending(kind))

\* Queues that nothing touches stay as they are.
LEMMA QueuesLeft ==
  ASSUME UNCHANGED <<waiting, ready>>, NEW kind \in Kind
  PROVE  Settled(kind)
  BY DEF Settled, Alone, Pending, Operations, Handlers

\* Beginning an operation adds it to those of its kind and leaves the other kinds
\* alone.
LEMMA BeginAdds ==
  ASSUME QueuesOK, NEW kind \in Kind, Begin(kind)
  PROVE  /\ waiting' \in Seq(Kind) /\ ready' \in Seq(Kind \X BOOLEAN)
         /\ ~ Pending(kind) => Alone(kind)'
         /\ \A other \in Kind \ {kind} : Settled(other)
  <1>1. CASE open
    <2>1. waiting' = Append(waiting, kind) /\ ready' = ready
      BY <1>1, Zenon DEF Begin
    <2>2. /\ waiting' \in Seq(Kind)
          /\ DOMAIN waiting' = DOMAIN waiting \cup {Len(waiting) + 1}
          /\ Len(waiting) + 1 \notin DOMAIN waiting
          /\ waiting'[Len(waiting) + 1] = kind
          /\ \A k \in DOMAIN waiting : waiting'[k] = waiting[k]
      BY <2>1 DEF QueuesOK
    <2>3. ASSUME NEW other \in Kind
          PROVE  /\ Handlers(other)' = Handlers(other)
                 /\ Operations(other)' = Operations(other) \cup
                      (IF other = kind THEN {Len(waiting) + 1} ELSE {})
      BY <2>1, <2>2, Zenon DEF Handlers, Operations
    <2>4. QED
      BY <2>1, <2>2, <2>3 DEF Settled, Alone, Pending, QueuesOK
  <1>2. CASE ~ open
    <2>1. ready' = Append(ready, <<kind, TRUE>>) /\ waiting' = waiting
      BY <1>2, Zenon DEF Begin
    <2>2. /\ ready' \in Seq(Kind \X BOOLEAN)
          /\ DOMAIN ready' = DOMAIN ready \cup {Len(ready) + 1}
          /\ Len(ready) + 1 \notin DOMAIN ready
          /\ ready'[Len(ready) + 1] = <<kind, TRUE>>
          /\ \A k \in DOMAIN ready : ready'[k] = ready[k]
      <3>1. <<kind, TRUE>> \in Kind \X BOOLEAN
        BY Zenon
      <3>2. PICK P, x : P = Kind \X BOOLEAN /\ x = <<kind, TRUE>>
        BY Zenon
      <3>3. ready \in Seq(P) /\ x \in P /\ ready' = Append(ready, x)
        BY <3>1, <3>2, <2>1, Zenon DEF QueuesOK
      <3>4. /\ ready' \in Seq(P)
            /\ DOMAIN ready' = DOMAIN ready \cup {Len(ready) + 1}
            /\ Len(ready) + 1 \notin DOMAIN ready
            /\ ready'[Len(ready) + 1] = x
            /\ \A k \in DOMAIN ready : ready'[k] = ready[k]
        BY ONLY <3>3, Appended, SMT
      <3>5. QED
        BY <3>2, <3>4, Zenon
    <2>3. ASSUME NEW other \in Kind
          PROVE  /\ Operations(other)' = Operations(other)
                 /\ Handlers(other)' = Handlers(other) \cup
                      (IF other = kind THEN {Len(ready) + 1} ELSE {})
      BY <2>1, <2>2 DEF Handlers, Operations
    <2>4. QED
      BY <2>1, <2>2, <2>3, Zenon DEF Settled, Alone, Pending, QueuesOK
  <1>3. QED
    BY <1>1, <1>2, Zenon

\* Posting the callback of Connect concerns neither reads nor writes.
LEMMA PostAdds ==
  ASSUME QueuesOK, ready' = Append(ready, <<"connect", FALSE>>), UNCHANGED waiting
  PROVE  /\ waiting' \in Seq(Kind) /\ ready' \in Seq(Kind \X BOOLEAN)
         /\ \A kind \in {"read", "write"} : Settled(kind)
  <1>1. /\ ready' \in Seq(Kind \X BOOLEAN)
        /\ DOMAIN ready' = DOMAIN ready \cup {Len(ready) + 1}
        /\ ready'[Len(ready) + 1] = <<"connect", FALSE>>
        /\ \A k \in DOMAIN ready : ready'[k] = ready[k]
    <2>1. <<"connect", FALSE>> \in Kind \X BOOLEAN
      BY Zenon DEF Kind
    <2>2. PICK P, x : P = Kind \X BOOLEAN /\ x = <<"connect", FALSE>>
      BY Zenon
    <2>3. ready \in Seq(P) /\ x \in P /\ ready' = Append(ready, x)
      BY <2>1, <2>2, Zenon DEF QueuesOK
    <2>4. /\ ready' \in Seq(P)
          /\ DOMAIN ready' = DOMAIN ready \cup {Len(ready) + 1}
          /\ ready'[Len(ready) + 1] = x
          /\ \A k \in DOMAIN ready : ready'[k] = ready[k]
      BY ONLY <2>3, Appended, SMT
    <2>5. QED
      BY <2>2, <2>4, Zenon
  <1>2. ASSUME NEW kind \in {"read", "write"}
        PROVE  Handlers(kind)' = Handlers(kind) /\ Operations(kind)' = Operations(kind)
    BY <1>1 DEF Handlers, Operations
  <1>3. QED
    BY <1>1, <1>2, Zenon DEF Settled, Alone, Pending, QueuesOK

\* Closing the socket turns operations into handlers.
LEMMA CancelMoves ==
  ASSUME QueuesOK, Cancel
  PROVE  /\ waiting' \in Seq(Kind) /\ ready' \in Seq(Kind \X BOOLEAN)
         /\ \A kind \in Kind : Settled(kind)
  <1> DEFINE n == Len(ready)
             moved == [k \in DOMAIN waiting |-> <<waiting[k], TRUE>>]
  <1>1. /\ moved \in Seq(Kind \X BOOLEAN) /\ DOMAIN moved = DOMAIN waiting
        /\ Len(moved) = Len(waiting) /\ DOMAIN waiting = 1 .. Len(waiting)
        /\ Len(waiting) \in Nat /\ n \in Nat /\ DOMAIN ready = 1 .. n
    <2>1. /\ DOMAIN waiting = 1 .. Len(waiting) /\ Len(waiting) \in Nat
          /\ \A k \in DOMAIN waiting : waiting[k] \in Kind
      BY DEF QueuesOK
    <2>2. n \in Nat /\ DOMAIN ready = 1 .. n
      BY DEF QueuesOK
    <2>3. \A k \in DOMAIN waiting : <<waiting[k], TRUE>> \in Kind \X BOOLEAN
      BY <2>1, Zenon
    <2>4. PICK P : P = Kind \X BOOLEAN
      BY Zenon
    <2>5. moved \in [1 .. Len(waiting) -> P]
      BY <2>1, <2>3, <2>4, Zenon
    <2>6. moved \in Seq(P) /\ Len(moved) = Len(waiting)
      <3> HIDE DEF moved
      <3> QED BY <2>1, <2>5
    <2>7. QED
      BY <2>1, <2>2, <2>4, <2>5, <2>6, Zenon
  <1>2. waiting' = <<>> /\ ready' = ready \o moved
    BY Zenon DEF Cancel
  <1>3. /\ ready' \in Seq(Kind \X BOOLEAN)
        /\ DOMAIN ready' = 1 .. n + Len(waiting)
        /\ \A k \in DOMAIN ready : ready'[k] = ready[k]
        /\ \A k \in DOMAIN waiting : ready'[n + k] = <<waiting[k], TRUE>>
    <2> HIDE DEF moved
    <2>1. PICK P : P = Kind \X BOOLEAN
      BY Zenon
    <2>2. /\ ready' \in Seq(P)
          /\ DOMAIN ready' = 1 .. n + Len(waiting)
          /\ \A k \in DOMAIN ready : ready'[k] = ready[k]
          /\ \A k \in DOMAIN waiting : ready'[n + k] = moved[k]
      <3>1. ready \in Seq(P) /\ moved \in Seq(P) /\ ready' = ready \o moved
        BY <1>1, <1>2, <2>1, Zenon DEF QueuesOK
      <3>2. /\ ready' \in Seq(P)
            /\ DOMAIN ready' = 1 .. Len(ready) + Len(moved)
            /\ \A k \in DOMAIN ready : ready'[k] = ready[k]
            /\ \A k \in DOMAIN moved : ready'[Len(ready) + k] = moved[k]
        BY ONLY <3>1, Joined, SMT
      <3>3. QED
        BY <3>2, <1>1, Zenon
    <2>3. \A k \in DOMAIN waiting : moved[k] = <<waiting[k], TRUE>>
      BY Zenon DEF moved
    <2>4. QED
      BY <2>1, <2>2, <2>3, Zenon
  <1>4. ASSUME NEW kind \in Kind
        PROVE  /\ Operations(kind)' = {}
               /\ Handlers(kind)' = Handlers(kind) \cup {n + k : k \in Operations(kind)}
    <2>1. Operations(kind)' = {}
      BY <1>2 DEF Operations
    <2>2. ASSUME NEW j \in Handlers(kind)'
          PROVE  j \in Handlers(kind) \cup {n + k : k \in Operations(kind)}
      <3>1. CASE j \in DOMAIN ready
        BY <3>1, <1>3, Zenon DEF Handlers
      <3>2. CASE j \notin DOMAIN ready
        <4>1. j \in 1 .. n + Len(waiting) /\ j > n
          BY <3>2, <1>1, <1>3 DEF Handlers
        <4>2. j - n \in DOMAIN waiting /\ j = n + (j - n)
          BY <4>1, <1>1
        <4>3. j - n \in Operations(kind)
          <5>1. PICK k : k = j - n
            BY Zenon
          <5>2. k \in DOMAIN waiting /\ j = n + k
            BY <4>2, <5>1, Zenon
          <5>3. ready'[j] = <<waiting[k], TRUE>> /\ ready'[j][1] = kind
            BY <5>2, <1>3, Zenon DEF Handlers
          <5>4. waiting[k] = kind
            BY <5>3
          <5>5. QED
            BY <5>1, <5>2, <5>4, Zenon DEF Operations
        <4>4. QED
          BY <4>2, <4>3, Zenon
      <3>3. QED
        BY <3>1, <3>2, Zenon
    <2>3. ASSUME NEW j \in Handlers(kind) \cup {n + k : k \in Operations(kind)}
          PROVE  j \in Handlers(kind)'
      <3>1. CASE j \in Handlers(kind)
        BY <3>1, <1>1, <1>3 DEF Handlers
      <3>2. ASSUME NEW k \in Operations(kind), j = n + k
            PROVE  j \in Handlers(kind)'
        <4>1. k \in DOMAIN waiting /\ waiting[k] = kind
          BY <3>2, Zenon DEF Operations
        <4>2. ready'[j] = <<kind, TRUE>>
          BY <4>1, <3>2, <1>3, Zenon
        <4>3. j \in DOMAIN ready'
          BY <4>1, <3>2, <1>1, <1>3
        <4>4. ready'[j][1] = kind
          BY <4>2
        <4>5. QED
          BY <4>3, <4>4, Zenon DEF Handlers
      <3>3. QED
        BY <3>1, <3>2, Zenon
    <2>4. QED
      BY <2>1, <2>2, <2>3, Zenon
  <1>5. ASSUME NEW kind \in Kind, Alone(kind)
        PROVE  Alone(kind)'
    BY <1>4, <1>5, Zenon DEF Alone
  <1>6. ASSUME NEW kind \in Kind, Pending(kind)'
        PROVE  Pending(kind)
    BY <1>4, <1>6, Zenon DEF Pending
  <1>7. QED
    BY <1>2, <1>3, <1>5, <1>6 DEF Settled

\* The system completes an operation: its handler takes its place.
LEMMA CompletesMoves ==
  ASSUME QueuesOK, NEW k \in DOMAIN waiting, NEW error \in BOOLEAN, Completes(k, error)
  PROVE  /\ waiting' \in Seq(Kind) /\ ready' \in Seq(Kind \X BOOLEAN)
         /\ \A kind \in Kind : Settled(kind)
  <1>1. /\ DOMAIN waiting = 1 .. Len(waiting) /\ Len(waiting) \in Nat
        /\ k \in 1 .. Len(waiting) /\ waiting[k] \in Kind
    BY DEF QueuesOK
  <1>2. /\ waiting' \in Seq(Kind) /\ DOMAIN waiting' = 1 .. Len(waiting) - 1
        /\ \A j \in 1 .. Len(waiting) - 1 : j < k => waiting'[j] = waiting[j]
        /\ \A j \in 1 .. Len(waiting) - 1 : ~ (j < k) => waiting'[j] = waiting[j + 1]
    <2>1. /\ waiting \in Seq(Kind)
          /\ waiting' = SubSeq(waiting, 1, k - 1) \o SubSeq(waiting, k + 1, Len(waiting))
      BY Zenon DEF QueuesOK, Completes
    <2>2. IsWithout(Kind, waiting, k, waiting')
      BY <1>1, <2>1, Removed, Zenon
    <2>3. QED
      BY <2>2, Zenon DEF IsWithout
  <1>3. /\ ready' \in Seq(Kind \X BOOLEAN)
        /\ DOMAIN ready' = DOMAIN ready \cup {Len(ready) + 1}
        /\ Len(ready) + 1 \notin DOMAIN ready
        /\ ready'[Len(ready) + 1] = <<waiting[k], error>>
        /\ \A j \in DOMAIN ready : ready'[j] = ready[j]
    <2>1. <<waiting[k], error>> \in Kind \X BOOLEAN
      BY <1>1, Zenon
    <2>2. PICK P, x : P = Kind \X BOOLEAN /\ x = <<waiting[k], error>>
      BY Zenon
    <2>3. ready \in Seq(P) /\ x \in P /\ ready' = Append(ready, x)
      BY <2>1, <2>2, Zenon DEF QueuesOK, Completes
    <2>4. /\ ready' \in Seq(P)
          /\ DOMAIN ready' = DOMAIN ready \cup {Len(ready) + 1}
          /\ Len(ready) + 1 \notin DOMAIN ready
          /\ ready'[Len(ready) + 1] = x
          /\ \A j \in DOMAIN ready : ready'[j] = ready[j]
      BY ONLY <2>3, Appended, SMT
    <2>5. QED
      BY <2>2, <2>4, Zenon
  <1>4. PICK n : n = Len(ready) + 1
    BY Zenon
  <1>5. ASSUME NEW kind \in Kind
        PROVE  Handlers(kind)' = Handlers(kind) \cup
                 (IF kind = waiting[k] THEN {n} ELSE {})
    <2>1. ready'[n][1] = waiting[k]
      BY <1>3, <1>4
    <2>2. /\ DOMAIN ready' = DOMAIN ready \cup {n} /\ n \notin DOMAIN ready
          /\ \A j \in DOMAIN ready : ready'[j][1] = ready[j][1]
      BY <1>3, <1>4, Zenon
    <2>3. QED
      BY <2>1, <2>2, Zenon DEF Handlers
  <1>6. ASSUME NEW kind \in Kind, NEW j \in Operations(kind)'
        PROVE  IF j < k THEN j \in Operations(kind) ELSE j + 1 \in Operations(kind) /\ j + 1 # k
    BY <1>1, <1>2 DEF Operations
  <1>7. waiting[k] \in Kind /\ k \in Operations(waiting[k])
    BY <1>1, Zenon DEF Operations
  <1>8. ASSUME NEW kind \in Kind
        PROVE  Pending(kind)' => Pending(kind)
    BY <1>5, <1>6, <1>7, Zenon DEF Pending
  <1>9. ASSUME NEW kind \in Kind, Alone(kind)
        PROVE  Alone(kind)'
    <2>1. CASE kind = waiting[k]
      <3>1. Operations(kind) = {k} /\ Handlers(kind) = {}
        BY <2>1, <1>7, <1>9, Zenon DEF Alone
      <3>2. Handlers(kind)' = {n}
        BY <2>1, <3>1, <1>5, Zenon
      <3>3. Operations(kind)' = {}
        <4>1. ASSUME NEW j \in Operations(kind)'
              PROVE  FALSE
          <5>1. j \in Int
            BY <1>1, <1>2 DEF Operations
          <5>2. QED
            BY <3>1, <1>1, <1>6, <5>1
        <4>2. QED
          BY <4>1, Zenon
      <3>4. QED
        BY <3>2, <3>3, Zenon DEF Alone
    <2>2. CASE kind # waiting[k]
      <3>1. Handlers(kind)' = Handlers(kind)
        BY <2>2, <1>5, Zenon
      <3>2. Operations(kind) = {} => Operations(kind)' = {}
        BY <1>6, Zenon
      <3>3. ASSUME NEW i \in Operations(kind)', NEW j \in Operations(kind)'
            PROVE  i = j
        <4>1. i \in Int /\ j \in Int /\ k \in Int
          BY <1>1, <1>2 DEF Operations
        <4>2. \A a, b \in Operations(kind) : a = b
          BY <1>9, Zenon DEF Alone
        <4>3. k \notin Operations(kind)
          BY <2>2, Zenon DEF Operations
        <4>4. QED
          BY <1>6, <4>1, <4>2, <4>3
      <3>4. QED
        BY <3>1, <3>2, <3>3, <1>9, Zenon DEF Alone
    <2>3. QED
      BY <2>1, <2>2, Zenon
  <1>10. QED
    BY <1>2, <1>3, <1>8, <1>9, Zenon DEF Settled

\* run() takes a handler: it was the only one of its kind, if there was only one.
LEMMA HandlerTaken ==
  ASSUME QueuesOK, ready # <<>>, ready' = Tail(ready), UNCHANGED waiting
  PROVE  /\ waiting' \in Seq(Kind) /\ ready' \in Seq(Kind \X BOOLEAN)
         /\ \A kind \in Kind : Settled(kind)
         /\ \E kind \in Kind : /\ kind = Head(ready)[1] /\ Pending(kind)
                               /\ Alone(kind) => ~ Pending(kind)'
  <1>1. PICK P : P = Kind \X BOOLEAN
    BY Zenon
  <1>2. PICK n \in Nat \ {0} :
          /\ n = Len(ready) /\ DOMAIN ready = 1 .. n
          /\ Head(ready) = ready[1] /\ ready[1] \in P
          /\ ready' \in Seq(P) /\ DOMAIN ready' = 1 .. n - 1
          /\ \A j \in 1 .. n - 1 : ready'[j] = ready[j + 1]
    <2>1. ready \in Seq(P) /\ ready # <<>> /\ ready' = Tail(ready)
      BY <1>1, Zenon DEF QueuesOK
    <2>2. QED
      BY ONLY <2>1, SMT
  <1>3. PICK first : first = ready[1][1]
    BY Zenon
  <1>4. first \in Kind /\ Head(ready)[1] = first
    BY <1>1, <1>2, <1>3, Zenon
  <1>5. 1 \in Handlers(first)
    BY <1>2, <1>3 DEF Handlers
  <1>6. ASSUME NEW kind \in Kind
        PROVE  /\ Operations(kind)' = Operations(kind)
               /\ \A j \in Handlers(kind)' : j \in Int /\ j + 1 \in Handlers(kind) /\ j + 1 # 1
    <2>1. ASSUME NEW j \in 1 .. n - 1
          PROVE  j \in Int /\ j + 1 \in 1 .. n /\ j + 1 # 1
      BY <1>2
    <2>2. QED
      BY <1>2, <2>1, Zenon DEF Operations, Handlers
  <1>7. ASSUME NEW kind \in Kind
        PROVE  Settled(kind)
    <2>1. ASSUME Alone(kind)
          PROVE  Alone(kind)'
      <3>1. ASSUME NEW i \in Handlers(kind)', NEW j \in Handlers(kind)'
            PROVE  i = j
        <4>1. i + 1 = j + 1 /\ i \in Int /\ j \in Int
          BY <1>6, <2>1, Zenon DEF Alone
        <4>2. QED
          BY ONLY <4>1, SMT
      <3>2. QED
        BY <1>6, <2>1, <3>1, Zenon DEF Alone
    <2>2. Pending(kind)' => Pending(kind)
      BY <1>6, Zenon DEF Pending
    <2>3. QED
      BY <2>1, <2>2, Zenon DEF Settled
  <1>8. ASSUME Alone(first)
        PROVE  ~ Pending(first)'
    BY <1>4, <1>5, <1>6, <1>8, Zenon DEF Alone, Pending
  <1>9. Pending(first)
    BY <1>5, Zenon DEF Pending
  <1>10. QED
    BY <1>1, <1>2, <1>4, <1>7, <1>8, <1>9, Zenon DEF QueuesOK

-----------------------------------------------------------------------------
(***************************************************************************)
(* The steps.                                                              *)
(***************************************************************************)

\* What ThreadsInv says of the reads: the flag, the queues and the threads.
ReadsOK ==
  /\ Alone("read")
  /\ Pending("read") => reading /\ thread \notin InRead
  /\ thread \in InRead => reading
  /\ worker = "beginread" => ~ reading

\* What it says of the writes.
WritesOK ==
  /\ Alone("write")
  /\ Pending("write") => sending /\ thread # "sent"
  /\ thread = "sent" => sending
  /\ worker = "beginwrite" => ~ sending

\* The two parts, with the types, are all of it.
LEMMA Parts == ThreadsInv <=> QueuesOK /\ ReadsOK /\ WritesOK
  BY Zenon DEF ThreadsInv, ReadsOK, WritesOK

\* A step that begins nothing, sets no flag and takes no thread into a handler, or
\* out of one whose flag it clears, keeps both parts.
LEMMA Quiet ==
  ASSUME ThreadsInv,
         waiting' \in Seq(Kind) /\ ready' \in Seq(Kind \X BOOLEAN) /\ open' \in BOOLEAN,
         Settled("read") /\ Settled("write"),
         UNCHANGED flags,
         thread' = thread \/ thread' \notin InRead \cup {"sent"}
           \/ (thread \in InRead /\ thread' \in InRead),
         worker' = worker \/ worker' \notin {"beginread", "beginwrite"}
           \/ (worker' = "beginread" /\ ~ reading)
           \/ (worker' = "beginwrite" /\ ~ sending)
  PROVE  ThreadsInv'
  <1>1. reading' = reading /\ sending' = sending
    BY Zenon DEF flags
  <1>2. QueuesOK'
    BY <1>1, Zenon DEF ThreadsInv, QueuesOK
  <1>3. "sent" \notin InRead
    BY Zenon DEF InRead
  <1>4. ReadsOK'
    BY <1>1, <1>3, Zenon DEF ThreadsInv, ReadsOK, Settled
  <1>5. WritesOK'
    BY <1>1, <1>3, Zenon DEF ThreadsInv, WritesOK, Settled
  <1>6. QED
    BY <1>2, <1>4, <1>5, Parts, PTL

\* The steps of the application begin nothing: Bind and Unbind at most close the
\* socket, and a new socket thread is in no handler.
LEMMA ApplicationKeeps ==
  ASSUME ThreadsInv, BindOpen \/ Connect \/ Unbind \/ ApplicationStep
  PROVE  ThreadsInv'
  <1> USE DEF App, AppRest, socket
  <1>1. QueuesOK
    BY Zenon DEF ThreadsInv
  <1>2. "read" \in Kind /\ "write" \in Kind
    BY Zenon DEF Kind
  <1>3. CASE Cancel /\ open' \in BOOLEAN /\ UNCHANGED <<thread, flags, worker>>
    BY <1>1, <1>2, <1>3, CancelMoves, Quiet, Zenon
  <1>4. CASE UNCHANGED <<waiting, ready, flags>> /\ open' \in BOOLEAN
             /\ (thread' = thread \/ thread' \in {"none", "check"})
             /\ (worker' = worker \/ worker' = "check")
    <2>1. waiting' \in Seq(Kind) /\ ready' \in Seq(Kind \X BOOLEAN)
      BY <1>1, <1>4, Zenon DEF QueuesOK
    <2>2. Settled("read") /\ Settled("write")
      BY <1>2, <1>4, QueuesLeft, Zenon
    <2>3. /\ thread' = thread \/ thread' \notin InRead \cup {"sent"}
          /\ worker' = worker \/ worker' \notin {"beginread", "beginwrite"}
      BY <1>4, Zenon DEF InRead
    <2>4. QED
      BY <1>4, <2>1, <2>2, <2>3, Quiet, Zenon
  <1>5. CASE BindOpen
    BY <1>3, <1>5, Zenon DEF BindOpen
  <1>6. CASE Connect
    BY <1>1, <1>6, PostAdds, Quiet, Zenon DEF Connect, QueuesOK
  <1>7. CASE Unbind
    BY <1>1, <1>4, <1>7, Zenon DEF Unbind, QueuesOK
  <1>8. CASE ApplicationStep
    <2>1. CASE UnbindClose
      BY <1>3, <1>4, <2>1, Zenon DEF UnbindClose
    <2>2. CASE UnbindAbort
      BY <1>1, <1>4, <2>2, Zenon DEF UnbindAbort, QueuesOK
    <2>3. CASE UnbindStop
      BY <1>1, <1>4, <2>3, Zenon DEF UnbindStop, QueuesOK
    <2>4. CASE UnbindJoin
      BY <1>1, <1>4, <2>4, Zenon DEF UnbindJoin, QueuesOK
    <2>5. CASE QueueAbort
      BY <1>1, <1>4, <2>5, Zenon DEF QueueAbort, QueuesOK
    <2>6. CASE QueueSignal
      BY <1>1, <1>4, <2>6, Zenon DEF QueueSignal, QueuesOK
    <2>7. CASE QueueJoin
      BY <1>1, <1>4, <2>7, Zenon DEF QueueJoin, QueuesOK
    <2>8. CASE BindEnd
      BY <1>1, <1>4, <2>8, Zenon DEF BindEnd, QueuesOK
    <2>9. QED
      BY <1>8, <2>1, <2>2, <2>3, <2>4, <2>5, <2>6, <2>7, <2>8, Zenon DEF ApplicationStep
  <1>9. QED
    BY <1>5, <1>6, <1>7, <1>8, Zenon

\* The socket thread: a handler holds what its operation held until it is done,
\* and begins the next read only after it.
LEMMA ThreadKeeps ==
  ASSUME ThreadsInv, ThreadStep
  PROVE  ThreadsInv'
  <1> USE DEF Run, RunRest, socket
  <1>1. QueuesOK /\ ReadsOK /\ WritesOK
    BY Parts, Zenon
  <1>2. "read" \in Kind /\ "write" \in Kind
    BY Zenon DEF Kind
  <1>3. CASE UNCHANGED <<waiting, ready, flags, open, worker>>
             /\ (thread' \notin InRead \cup {"sent"} \/ (thread \in InRead /\ thread' \in InRead))
    BY <1>1, <1>2, <1>3, QueuesLeft, Quiet, Zenon DEF QueuesOK
  <1>4. CASE ThreadCheck
    BY <1>3, <1>4, Zenon DEF ThreadCheck, InRead
  <1>5. CASE ThreadRestart
    BY <1>3, <1>5, Zenon DEF ThreadRestart, InRead
  <1>6. CASE ThreadReturn
    BY <1>3, <1>6, Zenon DEF ThreadReturn, InRead
  <1>7. CASE ReadCallback
    BY <1>3, <1>7, Zenon DEF ReadCallback, InRead
  <1>8. CASE ThreadHandler
    <2>1. PICK kind \in Kind : /\ kind = Head(ready)[1] /\ Pending(kind)
                               /\ Alone(kind) => ~ Pending(kind)'
      BY <1>1, <1>8, HandlerTaken, Zenon DEF ThreadHandler
    <2>2. /\ waiting' \in Seq(Kind) /\ ready' \in Seq(Kind \X BOOLEAN)
          /\ Settled("read") /\ Settled("write")
      BY <1>1, <1>2, <1>8, HandlerTaken, Zenon DEF ThreadHandler
    <2>3. /\ UNCHANGED <<open, reading, sending, worker>>
          /\ thread' = CASE kind = "read" -> "received" [] kind = "write" -> "sent"
                         [] OTHER -> "run"
      BY <1>8, <2>1, Zenon DEF ThreadHandler, flags
    <2>4. QueuesOK'
      BY <1>1, <2>2, <2>3, Zenon DEF QueuesOK
    <2>5. /\ kind = "read" <=> thread' \in InRead
          /\ kind = "write" <=> thread' = "sent"
      BY <2>3, Zenon DEF InRead
    <2>6. ReadsOK'
      BY <1>1, <2>1, <2>2, <2>3, <2>5, Zenon DEF ReadsOK, Settled
    <2>7. WritesOK'
      BY <1>1, <2>1, <2>2, <2>3, <2>5, Zenon DEF WritesOK, Settled
    <2>8. QED
      BY <2>4, <2>6, <2>7, Parts, PTL
  <1>9. CASE ReadAgain
    <2>1. /\ thread = "reread" /\ thread' = IF ~ failed /\ open THEN "restart" ELSE "run"
          /\ reading' = (~ failed /\ open) /\ UNCHANGED <<waiting, ready, open, sending, worker>>
      BY <1>9, Zenon DEF ReadAgain
    <2>2. Settled("read") /\ Settled("write")
      BY <1>2, <2>1, QueuesLeft, Zenon
    <2>3. QueuesOK'
      BY <1>1, <2>1, Zenon DEF QueuesOK
    <2>4. thread \in InRead /\ (thread' \in InRead <=> ~ failed /\ open) /\ thread' # "sent"
      BY <2>1, Zenon DEF InRead
    <2>5. ReadsOK'
      BY <1>1, <2>1, <2>2, <2>4, Zenon DEF ReadsOK, Settled
    <2>6. WritesOK'
      BY <1>1, <2>1, <2>2, <2>4, Zenon DEF WritesOK, Settled
    <2>7. QED
      BY <2>3, <2>5, <2>6, Parts, PTL
  <1>10. CASE ReadBegin
    <2>1. /\ thread = "restart" /\ thread' = "run" /\ Begin("read")
          /\ UNCHANGED <<open, reading, sending, worker>>
      BY <1>10, Zenon DEF ReadBegin, flags
    <2>2. thread \in InRead /\ thread' \notin InRead /\ thread' # "sent"
      BY <2>1, Zenon DEF InRead
    <2>3. /\ waiting' \in Seq(Kind) /\ ready' \in Seq(Kind \X BOOLEAN)
          /\ ~ Pending("read") => Alone("read")'
      BY <1>1, <1>2, <2>1, BeginAdds, Zenon
    <2>4. Settled("write")
      <3>1. "write" \in Kind \ {"read"}
        BY Zenon DEF Kind
      <3>2. QED
        BY <1>1, <1>2, <2>1, <3>1, BeginAdds, Zenon
    <2>5. QueuesOK'
      BY <1>1, <2>1, <2>3, Zenon DEF QueuesOK
    <2>6. ReadsOK'
      BY <1>1, <2>1, <2>2, <2>3, Zenon DEF ReadsOK
    <2>7. WritesOK'
      BY <1>1, <2>1, <2>2, <2>4, Zenon DEF WritesOK, Settled
    <2>8. QED
      BY <2>5, <2>6, <2>7, Parts, PTL
  <1>11. CASE WriteDone
    <2>1. /\ thread = "sent" /\ thread' = "run" /\ sending' = FALSE
          /\ UNCHANGED <<waiting, ready, open, reading, worker>>
      BY <1>11, Zenon DEF WriteDone
    <2>2. Settled("read") /\ Settled("write") /\ thread' \notin InRead /\ thread' # "sent"
      BY <1>2, <2>1, QueuesLeft, Zenon DEF InRead
    <2>3. QueuesOK'
      BY <1>1, <2>1, Zenon DEF QueuesOK
    <2>4. ReadsOK'
      BY <1>1, <2>1, <2>2, Zenon DEF ReadsOK, Settled
    <2>5. WritesOK'
      BY <1>1, <2>1, <2>2, Zenon DEF WritesOK, Settled
    <2>6. QED
      BY <2>3, <2>4, <2>5, Parts, PTL
  <1>12. QED
    BY <1>4, <1>5, <1>6, <1>7, <1>8, <1>9, <1>10, <1>11, Zenon DEF ThreadStep

\* The worker begins an operation only when it has found the flag clear, and
\* nothing can set the flag in between: only the worker does when no operation is
\* pending and no handler runs.
LEMMA WorkerKeeps ==
  ASSUME ThreadsInv, WorkerStep
  PROVE  ThreadsInv'
  <1> USE DEF Turn, TurnRest, socket
  <1>1. QueuesOK /\ ReadsOK /\ WritesOK
    BY Parts, Zenon
  <1>2. "read" \in Kind /\ "write" \in Kind
    BY Zenon DEF Kind
  <1>3. CASE UNCHANGED <<waiting, ready, flags, open, thread>>
             /\ (\/ worker' \notin {"beginread", "beginwrite"}
                 \/ worker' = "beginread" /\ ~ reading
                 \/ worker' = "beginwrite" /\ ~ sending)
    BY <1>1, <1>2, <1>3, QueuesLeft, Quiet, Zenon DEF QueuesOK
  <1>4. CASE WorkerCheck
    BY <1>3, <1>4, Zenon DEF WorkerCheck
  <1>5. CASE WorkerTurn
    BY <1>3, <1>5, Zenon DEF WorkerTurn
  <1>6. CASE DoReadCycle
    BY <1>3, <1>6, Zenon DEF DoReadCycle
  <1>7. CASE DoWriteCycle
    BY <1>3, <1>7, Zenon DEF DoWriteCycle
  <1>8. CASE OtherTurns \/ DisconnectTimeout \/ WaitFor
    BY <1>3, <1>8, Zenon DEF OtherTurns, DisconnectTimeout, WaitFor
  <1>9. CASE BeginRead
    <2>1. /\ worker = "beginread" /\ worker' = "write" /\ reading' = TRUE /\ Begin("read")
          /\ UNCHANGED <<open, sending, thread>>
      BY <1>9, Zenon DEF BeginRead
    <2>2. /\ waiting' \in Seq(Kind) /\ ready' \in Seq(Kind \X BOOLEAN)
          /\ ~ Pending("read") => Alone("read")'
      BY <1>1, <1>2, <2>1, BeginAdds, Zenon
    <2>3. Settled("write") /\ worker' # "beginread" /\ worker' # "beginwrite"
      <3>1. "write" \in Kind \ {"read"}
        BY Zenon DEF Kind
      <3>2. Settled("write")
        BY <1>1, <1>2, <2>1, <3>1, BeginAdds, Zenon
      <3>3. QED
        BY <2>1, <3>2, Zenon
    <2>4. QueuesOK'
      BY <1>1, <2>1, <2>2, Zenon DEF QueuesOK
    <2>5. ReadsOK'
      BY <1>1, <2>1, <2>2, <2>3, Zenon DEF ReadsOK
    <2>6. WritesOK'
      BY <1>1, <2>1, <2>3, Zenon DEF WritesOK, Settled
    <2>7. QED
      BY <2>4, <2>5, <2>6, Parts, PTL
  <1>10. CASE BeginWrite
    <2>1. /\ worker = "beginwrite" /\ worker' = "others" /\ sending' = TRUE /\ Begin("write")
          /\ UNCHANGED <<open, reading, thread>>
      BY <1>10, Zenon DEF BeginWrite
    <2>2. /\ waiting' \in Seq(Kind) /\ ready' \in Seq(Kind \X BOOLEAN)
          /\ ~ Pending("write") => Alone("write")'
      BY <1>1, <1>2, <2>1, BeginAdds, Zenon
    <2>3. Settled("read") /\ worker' # "beginread" /\ worker' # "beginwrite"
      <3>1. "read" \in Kind \ {"write"}
        BY Zenon DEF Kind
      <3>2. Settled("read")
        BY <1>1, <1>2, <2>1, <3>1, BeginAdds, Zenon
      <3>3. QED
        BY <2>1, <3>2, Zenon
    <2>4. QueuesOK'
      BY <1>1, <2>1, <2>2, Zenon DEF QueuesOK
    <2>5. WritesOK'
      BY <1>1, <2>1, <2>2, <2>3, Zenon DEF WritesOK
    <2>6. ReadsOK'
      BY <1>1, <2>1, <2>3, Zenon DEF ReadsOK, Settled
    <2>7. QED
      BY <2>4, <2>5, <2>6, Parts, PTL
  <1>11. QED
    BY <1>4, <1>5, <1>6, <1>7, <1>8, <1>9, <1>10, Zenon DEF WorkerStep

-----------------------------------------------------------------------------
(***************************************************************************)
(* The theorems.                                                           *)
(***************************************************************************)

\* The invariant: m_reading and m_sending are set for as long as an operation or
\* its handler needs them, whatever the three threads and the system do.
THEOREM ThreadsInvariant == Spec => []ThreadsInv
  <1>1. Init => ThreadsInv
    <2> SUFFICES ASSUME Init
                 PROVE  ThreadsInv
      BY Zenon
    <2>1. \A S : <<>> \in Seq(S)
      OBVIOUS
    <2>2. QueuesOK
      BY <2>1, Zenon DEF Init, QueuesOK
    <2>3. \A kind : Operations(kind) = {} /\ Handlers(kind) = {}
      BY DEF Init, Operations, Handlers
    <2>4. thread \notin InRead /\ thread # "sent" /\ worker # "beginread" /\ worker # "beginwrite"
      BY Zenon DEF Init, InRead
    <2>5. QED
      BY <2>2, <2>3, <2>4, Zenon DEF ThreadsInv, Alone, Pending
  <1>2. ThreadsInv /\ [Next]_vars => ThreadsInv'
    <2> SUFFICES ASSUME ThreadsInv, [Next]_vars
                 PROVE  ThreadsInv'
      BY Zenon
    <2>1. QueuesOK /\ "read" \in Kind /\ "write" \in Kind
      BY Zenon DEF ThreadsInv, Kind
    <2>2. ASSUME NEW k \in DOMAIN waiting, NEW error \in BOOLEAN, Completes(k, error)
          PROVE  ThreadsInv'
      <3>1. /\ waiting' \in Seq(Kind) /\ ready' \in Seq(Kind \X BOOLEAN)
            /\ Settled("read") /\ Settled("write")
        BY <2>1, <2>2, CompletesMoves, Zenon
      <3>2. open' \in BOOLEAN /\ UNCHANGED <<flags, thread, worker>>
        BY <2>1, <2>2, Zenon DEF Completes, QueuesOK, socket
      <3>3. QED
        BY <3>1, <3>2, Quiet, Zenon
    <2>3. CASE UNCHANGED vars
      <3>1. UNCHANGED <<waiting, ready, open, flags, thread, worker>>
        BY <2>3, Zenon DEF vars, socket
      <3>2. Settled("read") /\ Settled("write")
        BY <2>1, <3>1, QueuesLeft, Zenon
      <3>3. QED
        BY <2>1, <3>1, <3>2, Quiet, Zenon DEF QueuesOK
    <2>4. QED
      BY <2>2, <2>3, ApplicationKeeps, ThreadKeeps, WorkerKeeps, Zenon DEF Next
  <1>3. QED
    BY <1>1, <1>2, PTL DEF Spec

\* A kind with at most one operation or handler counts at most one, and one that
\* is not pending counts none.
LEMMA CountOfAlone ==
  ASSUME NEW kind, Alone(kind)
  PROVE  Count(kind) \in {0, 1} /\ (~ Pending(kind) => Count(kind) = 0)
  <1>1. ASSUME NEW S, \A j, k \in S : j = k
        PROVE  Cardinality(S) \in {0, 1} /\ (S = {} => Cardinality(S) = 0)
    <2>1. CASE S = {}
      BY <2>1, FS_EmptySet, Zenon
    <2>2. CASE S # {}
      <3>1. PICK x \in S : TRUE
        BY <2>2, Zenon
      <3>2. S = {x}
        BY <1>1, Zenon
      <3>3. QED
        BY <2>2, <3>2, FS_Singleton, Zenon
    <2>3. QED
      BY <2>1, <2>2, Zenon
  <1>2. PICK m, n : m = Cardinality(Operations(kind)) /\ n = Cardinality(Handlers(kind))
    BY Zenon
  <1>3. /\ m \in {0, 1} /\ n \in {0, 1} /\ (m = 0 \/ n = 0)
        /\ ~ Pending(kind) => m = 0 /\ n = 0
    BY <1>1, <1>2, Zenon DEF Alone, Pending
  <1>4. Count(kind) = m + n
    BY <1>2, Zenon DEF Count
  <1>5. QED
    <2>1. m + n \in {0, 1} /\ (m = 0 /\ n = 0 => m + n = 0)
      BY ONLY <1>3, SMT
    <2>2. QED
      BY <1>3, <1>4, <2>1, Zenon

\* m_readbuf has one user at a time, and no write begins before the last one is
\* done: BeginRead, BeginWrite and the completion handlers of SocketUDP.
THEOREM OneOperation == Spec => []OneOperationAtATime
  <1>1. ThreadsInv => OneOperationAtATime
    <2> SUFFICES ASSUME ThreadsInv
                 PROVE  OneOperationAtATime
      BY Zenon
    <2>1. /\ Count("read") \in {0, 1} /\ (~ Pending("read") => Count("read") = 0)
          /\ Count("write") \in {0, 1} /\ (~ Pending("write") => Count("write") = 0)
      BY CountOfAlone, Zenon DEF ThreadsInv
    <2>2. /\ Pending("read") => thread \notin InRead /\ worker # "beginread"
          /\ thread \in InRead => worker # "beginread"
          /\ Pending("write") => worker # "beginwrite"
      BY Zenon DEF ThreadsInv
    <2>3. QED
      BY <2>1, <2>2 DEF OneOperationAtATime, InRead
  <1>2. QED
    BY <1>1, ThreadsInvariant, PTL
=============================================================================
