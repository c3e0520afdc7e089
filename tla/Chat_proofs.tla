----------------------------- MODULE Chat_proofs -----------------------------
(***************************************************************************)
(* Proofs about Chat, for any number of clients, connections and messages. *)
(* UsersInv is about the server's inbox: between two messages of a client  *)
(* that belong to different connections there is the notice that the       *)
(* client left.  ConversationInv is about all that a client has read or is *)
(* about to read.                                                          *)
(***************************************************************************)
EXTENDS Chat, WellFoundedInduction, TLAPS

IsSeq(s) == s \in Seq({s[k] : k \in DOMAIN s})

\* The j-th message is that a client joins, the k-th that it does again, or it
\* came over another connection of the client.
Returns(q, j, k) ==
  /\ j < k /\ IsJoin(q[j]) /\ q[k].from = q[j].from
  /\ IsJoin(q[k]) \/ q[k].session # q[j].session

\* Between them is a notice that the client who joined leaves.
LeavesBetween(q, j, k) ==
  \E i \in DOMAIN q : j < i /\ i < k /\ IsLeave(q[i]) /\ q[i].from = q[j].from

\* A client who joined leaves before joining again, and before anything arrives
\* over another connection.
Alternates(q) == \A j, k \in DOMAIN q : Returns(q, j, k) => LeavesBetween(q, j, k)

\* Once all is read a client is a user by the connection that the slot belongs to.
Follows(q, c) ==
  IF link[c].server = "up" THEN \E k \in Stays(q, c) : q[k].session = link[c].accepted
  ELSE Stays(q, c) = {}

\* The socket thread holds a message of the slot's connection, which may have ended.
HeldOK(m) ==
  /\ IsOrdered(m) /\ m.from \in Client
  /\ m.session = link[m.from].accepted /\ link[m.from].server \in {"up", "free"}

ClientState == {"free", "connecting", "greeted", "up", "closing", "gone"}
ServerState == {"free", "pending", "awaited", "up"}
Slots == [client : ClientState, server : ServerState, session : Nat, accepted : Nat]

LinkType == link \in [Client -> Slots]

\* A user, and the client's own nick.
IsUser(user) == user = [id |-> user.id, nick |-> user.nick] /\ user.nick[1] = user.id

UsersInv ==
  /\ LinkType
  /\ inbox = [p \in Process |-> inbox[p]]
  /\ IsSeq(m_users) /\ IsSeq(inbox[Server]) /\ IsSeq(log)
  /\ \A k \in DOMAIN m_users : IsUser(m_users[k])
  /\ Alternates(History)
  /\ \A c \in Client : Follows(History, c)
  /\ held = <<>> \/ (held = <<held[1]>> /\ HeldOK(held[1]))
  /\ SaidByNick

\* All that a client has read, and what it will read if the connection lasts.
Pipeline(c) == received[c] \o inbox[c] \o down[c]

\* Since the last welcome the client was sent all of the log.
UpToDate(s, session, length) ==
  \A i \in DOMAIN s :
    (IsWelcome(s[i], session) /\ \A j \in DOMAIN s : i < j => ~ IsWelcome(s[j], session))
    => \A n \in s[i].n + 1 .. length :
         \E j \in DOMAIN s : i < j /\ IsNews(s[j], session) /\ s[j].n = n

\* The last connection of which the client may have been told something.
LastSession(c) == IF link[c].client = "connecting" THEN link[c].session - 1 ELSE link[c].session

\* What there is to read is of the log so far, and of the connections so far.
IsDated(m, length, session) ==
  m.n \in Nat /\ m.n <= length /\ m.session \in Nat /\ m.session <= session

Sound(s, length, session) ==
  InOrder(s) /\ WithoutGaps(s) /\ \A k \in DOMAIN s : IsDated(s[k], length, session)

Reads(s, c) ==
  /\ Sound(s, Len(log), LastSession(c))
  /\ Reaches(c) /\ c \in Ids(m_users) => UpToDate(s, link[c].session, Len(log))

IsReader(c) ==
  IsSeq(received[c]) /\ IsSeq(inbox[c]) /\ IsSeq(down[c]) /\ Reads(Pipeline(c), c)

ConversationInv ==
  /\ received = [c \in Client |-> received[c]] /\ down = [c \in Client |-> down[c]]
  /\ \A i \in DOMAIN rpc : IsSeq(rpc[i])
  /\ \A c \in Client : IsReader(c)

-----------------------------------------------------------------------------
(***************************************************************************)
(* Sequences, whatever their elements.                                     *)
(***************************************************************************)

\* A function on 1 .. n is a sequence.
LEMMA MadeSeq ==
  ASSUME NEW n \in Nat, NEW s, s = [k \in 1 .. n |-> s[k]]
  PROVE  IsSeq(s) /\ Len(s) = n /\ DOMAIN s = 1 .. n
<1>1. PICK S : S = {s[k] : k \in DOMAIN s}
  BY Zenon
<1>2. DOMAIN s = 1 .. n /\ s \in [1 .. n -> S]
  BY <1>1, Zenon
<1> QED
  BY <1>1, <1>2 DEF IsSeq

\* The domain of a sequence.
LEMMA SeqFacts ==
  ASSUME NEW s, IsSeq(s)
  PROVE  Len(s) \in Nat /\ DOMAIN s = 1 .. Len(s) /\ s = [k \in 1 .. Len(s) |-> s[k]]
<1>1. PICK S : S = {s[k] : k \in DOMAIN s}
  BY Zenon
<1>2. s \in Seq(S)
  BY <1>1, Zenon DEF IsSeq
<1> QED
  BY <1>2

\* The empty sequence.
LEMMA EmptyIsSeq ==
  ASSUME NEW e, e = <<>>
  PROVE  IsSeq(e) /\ Len(e) = 0
<1>1. e \in Seq({}) /\ Len(e) = 0
  OBVIOUS
<1>2. e = [k \in 1 .. 0 |-> e[k]]
  BY <1>1
<1>3. 0 \in Nat
  OBVIOUS
<1> QED
  BY <1>2, <1>3, MadeSeq, Zenon

\* The sequence t is s, and then m.
IsAppend(s, m, t) ==
  /\ IsSeq(t) /\ Len(t) = Len(s) + 1
  /\ t[Len(s) + 1] = m /\ \A k \in 1 .. Len(s) : t[k] = s[k]

\* Append adds its element at the end.
LEMMA Appended ==
  ASSUME NEW s, IsSeq(s), NEW m
  PROVE  IsAppend(s, m, Append(s, m))
<1>1. PICK S : S = {s[k] : k \in DOMAIN s} \cup {m}
  BY Zenon
<1>2. s \in Seq(S) /\ m \in S
  BY <1>1, SeqFacts
<1>3. PICK t : t = Append(s, m)
  BY Zenon
<1>4. /\ t \in Seq(S) /\ Len(t) = Len(s) + 1 /\ Len(s) \in Nat
      /\ t[Len(s) + 1] = m /\ \A k \in 1 .. Len(s) : t[k] = s[k]
  BY <1>2, <1>3
<1>5. t = [k \in 1 .. Len(t) |-> t[k]] /\ Len(t) \in Nat
  BY <1>4
<1> QED
  BY <1>3, <1>4, <1>5, MadeSeq, Zenon DEF IsAppend

\* The sequence u is s, and then t.
IsConcat(s, t, u) ==
  /\ IsSeq(u) /\ Len(u) = Len(s) + Len(t)
  /\ \A k \in 1 .. Len(s) : u[k] = s[k]
  /\ \A k \in 1 .. Len(t) : u[Len(s) + k] = t[k]

\* Where the elements of a concatenation are.
LEMMA Concatenated ==
  ASSUME NEW s, IsSeq(s), NEW t, IsSeq(t)
  PROVE  IsConcat(s, t, s \o t)
<1>1. PICK S : S = {s[k] : k \in DOMAIN s} \cup {t[k] : k \in DOMAIN t}
  BY Zenon
<1>2. s \in Seq(S) /\ t \in Seq(S)
  BY <1>1, SeqFacts
<1>3. PICK u : u = s \o t
  BY Zenon
<1>4. /\ u \in Seq(S) /\ Len(u) = Len(s) + Len(t)
      /\ \A k \in 1 .. Len(s) : u[k] = s[k]
      /\ \A k \in 1 .. Len(t) : u[Len(s) + k] = t[k]
  BY <1>2, <1>3
<1>5. u = [k \in 1 .. Len(u) |-> u[k]] /\ Len(u) \in Nat
  BY <1>4
<1> QED
  BY <1>3, <1>4, <1>5, MadeSeq, Zenon DEF IsConcat

\* The sequence t is s without its first element.
IsTail(s, t) ==
  /\ IsSeq(t) /\ Len(s) = Len(t) + 1
  /\ \A k \in 1 .. Len(t) : t[k] = s[k + 1]

\* Tail takes the first element away.
LEMMA Tailed ==
  ASSUME NEW s, IsSeq(s), s # <<>>
  PROVE  IsTail(s, Tail(s)) /\ Head(s) = s[1]
<1>1. PICK S : S = {s[k] : k \in DOMAIN s}
  BY Zenon
<1>2. s \in Seq(S)
  BY <1>1, Zenon DEF IsSeq
<1>3. PICK t : t = Tail(s)
  BY Zenon
<1>4. /\ t \in Seq(S) /\ Len(s) = Len(t) + 1
      /\ \A k \in 1 .. Len(t) : t[k] = s[k + 1]
  BY <1>2, <1>3
<1>5. t = [k \in 1 .. Len(t) |-> t[k]] /\ Len(t) \in Nat
  BY <1>4
<1>6. Head(s) = s[1]
  BY <1>2
<1> QED
  BY <1>3, <1>4, <1>5, <1>6, MadeSeq, Zenon DEF IsTail

\* The sequence t is s without its i-th element.
IsRemoval(s, i, t) ==
  /\ IsSeq(t) /\ Len(s) = Len(t) + 1
  /\ \A k \in 1 .. Len(t) : t[k] = s[IF k < i THEN k ELSE k + 1]

\* Erase takes one element away and moves up those behind it.
LEMMA Removed ==
  ASSUME NEW s, IsSeq(s), NEW i \in DOMAIN s
  PROVE  IsRemoval(s, i, Erase(s, i))
<1>1. PICK S : S = {s[k] : k \in DOMAIN s}
  BY Zenon
<1>2. s \in Seq(S) /\ i \in 1 .. Len(s)
  BY <1>1 DEF IsSeq
<1>3. PICK a, b : a = SubSeq(s, 1, i - 1) /\ b = SubSeq(s, i + 1, Len(s))
  BY Zenon
<1>4. a \in Seq(S) /\ Len(a) = i - 1 /\ \A k \in 1 .. i - 1 : a[k] = s[k]
  BY <1>2, <1>3
<1>5. b \in Seq(S) /\ Len(b) = Len(s) - i /\ \A k \in 1 .. Len(s) - i : b[k] = s[i + k]
  BY <1>2, <1>3
<1>6. IsSeq(a) /\ IsSeq(b)
  <2>1. \A u : u \in Seq(S) => Len(u) \in Nat /\ u = [k \in 1 .. Len(u) |-> u[k]]
    OBVIOUS
  <2> QED
    BY <1>4, <1>5, <2>1, MadeSeq, Zenon
<1>7. PICK t : t = a \o b /\ IsConcat(a, b, t)
  BY <1>6, Concatenated, Zenon
<1>8. PICK n, m \in Nat : n = Len(s) /\ m = Len(t)
  BY <1>2, <1>6, <1>7, SeqFacts, Zenon DEF IsConcat
<1>9. n = m + 1 /\ i \in 1 .. n
  <2>1. m = Len(a) + Len(b) /\ Len(b) = n - i /\ i \in 1 .. n
    BY <1>2, <1>5, <1>7, <1>8, Zenon DEF IsConcat
  <2> QED
    BY ONLY <1>4, <2>1, n \in Nat, m \in Nat
<1>10. \A k \in 1 .. m : t[k] = s[IF k < i THEN k ELSE k + 1]
  <2> TAKE k \in 1 .. m
  <2>1. CASE k < i
    <3>1. k \in 1 .. Len(a) /\ k \in 1 .. i - 1
      BY <2>1, <1>4, <1>9
    <3> QED
      BY <2>1, <3>1, <1>4, <1>7, Zenon DEF IsConcat
  <2>2. CASE ~ (k < i)
    <3>1. PICK x : x = k - (i - 1)
      BY Zenon
    <3>2. x \in 1 .. Len(b) /\ x \in 1 .. Len(s) - i
      BY <2>2, <3>1, <1>5, <1>8, <1>9
    <3>3. t[Len(a) + x] = b[x] /\ b[x] = s[i + x]
      BY <3>2, <1>5, <1>7, Zenon DEF IsConcat
    <3>4. Len(a) + x = k /\ i + x = k + 1
      BY <3>1, <1>4, <1>9
    <3> QED
      BY <2>2, <3>3, <3>4, Zenon
  <2> QED
    BY <2>1, <2>2, Zenon
<1> QED
  BY <1>3, <1>7, <1>8, <1>9, <1>10, Zenon DEF IsRemoval, Erase, IsConcat

-----------------------------------------------------------------------------
(***************************************************************************)
(* Histories: what joins them at the end, and what is read at the front.   *)
(***************************************************************************)

\* No one stays twice.
LEMMA OneStays ==
  ASSUME NEW q, IsSeq(q), Alternates(q), NEW c, NEW j \in Stays(q, c), NEW k \in Stays(q, c)
  PROVE  j = k
<1>1. \A x, y \in Stays(q, c) : ~ (x < y)
  <2> SUFFICES ASSUME NEW x \in Stays(q, c), NEW y \in Stays(q, c), x < y PROVE FALSE
    BY Zenon
  <2>1. /\ x \in DOMAIN q /\ y \in DOMAIN q /\ IsJoin(q[x]) /\ IsJoin(q[y])
        /\ q[x].from = c /\ q[y].from = c
        /\ \A i \in DOMAIN q : i > x /\ IsLeave(q[i]) => q[i].from # c
    BY Zenon DEF Stays
  <2>2. PICK i \in DOMAIN q : x < i /\ IsLeave(q[i]) /\ q[i].from = c
    <3>1. Returns(q, x, y)
      BY <2>1, Zenon DEF Returns
    <3>2. LeavesBetween(q, x, y)
      BY <2>1, <3>1, Zenon DEF Alternates
    <3> QED
      BY <2>1, <3>2, Zenon DEF LeavesBetween
  <2>3. i > x
    BY <2>1, <2>2, SeqFacts, Zenon
  <2> QED
    BY <2>1, <2>2, <2>3, Zenon
<1>2. j \in Nat /\ k \in Nat
  <2>1. j \in DOMAIN q /\ k \in DOMAIN q
    BY Zenon DEF Stays
  <2> QED
    BY <2>1, SeqFacts
<1>3. j < k \/ k < j \/ j = k
  BY <1>2
<1> QED
  BY <1>1, <1>3, Zenon

\* After a message at the end, everyone else stays as before.
LEMMA OthersStay ==
  ASSUME NEW q, IsSeq(q), NEW m, NEW r, IsAppend(q, m, r), NEW c, c # m.from
  PROVE  Stays(r, c) = Stays(q, c)
<1>1. PICK n \in Nat : n = Len(q) /\ DOMAIN q = 1 .. n /\ DOMAIN r = 1 .. n + 1
  BY SeqFacts, Zenon DEF IsAppend
<1>2. r[n + 1] = m /\ \A k \in 1 .. n : r[k] = q[k]
  BY <1>1, Zenon DEF IsAppend
<1>3. \A k : k \in Stays(r, c) => k \in Stays(q, c)
  <2> TAKE k
  <2> HAVE k \in Stays(r, c)
  <2>1. k \in 1 .. n + 1 /\ IsJoin(r[k]) /\ r[k].from = c
        /\ \A j \in 1 .. n + 1 : j > k /\ IsLeave(r[j]) => r[j].from # c
    BY <1>1, Zenon DEF Stays
  <2>2. k # n + 1
    BY <1>2, <2>1, Zenon
  <2>3. k \in 1 .. n /\ 1 .. n \subseteq 1 .. n + 1
    BY <2>1, <2>2
  <2> QED
    BY <1>1, <1>2, <2>1, <2>3, Zenon DEF Stays
<1>4. \A k : k \in Stays(q, c) => k \in Stays(r, c)
  <2> TAKE k
  <2> HAVE k \in Stays(q, c)
  <2>1. k \in 1 .. n /\ IsJoin(q[k]) /\ q[k].from = c
        /\ \A j \in 1 .. n : j > k /\ IsLeave(q[j]) => q[j].from # c
    BY <1>1, Zenon DEF Stays
  <2>2. k \in 1 .. n + 1 /\ \A j \in 1 .. n + 1 : j = n + 1 \/ j \in 1 .. n
    BY <2>1
  <2> QED
    BY <1>1, <1>2, <2>1, <2>2, Zenon DEF Stays
<1> QED
  BY <1>3, <1>4, Zenon

\* Who does not stay may join.
LEMMA JoinAtEnd ==
  ASSUME NEW q, IsSeq(q), Alternates(q), NEW m, NEW r, IsAppend(q, m, r),
         IsJoin(m), Stays(q, m.from) = {}
  PROVE  Alternates(r) /\ Len(q) + 1 \in Stays(r, m.from) /\ r[Len(q) + 1] = m
<1>1. PICK n \in Nat : n = Len(q) /\ DOMAIN q = 1 .. n /\ DOMAIN r = 1 .. n + 1
  BY SeqFacts, Zenon DEF IsAppend
<1>2. r[n + 1] = m /\ \A k \in 1 .. n : r[k] = q[k]
  BY <1>1, Zenon DEF IsAppend
<1>3. \A k \in 1 .. n + 1 : k = n + 1 \/ k \in 1 .. n
  OBVIOUS
<1>4. \A i, j \in 1 .. n + 1 : i < j /\ j # n + 1 => i \in 1 .. n /\ j \in 1 .. n
  OBVIOUS
<1>5. \A j \in 1 .. n + 1 : j < n + 1 => j \in 1 .. n
  OBVIOUS
<1>6. \A i \in 1 .. n : i < n + 1 /\ i \in 1 .. n + 1
  OBVIOUS
<1>7. \A j, k \in 1 .. n : j > k <=> k < j
  BY Zenon
<1>8. ASSUME NEW j \in 1 .. n + 1, NEW k \in 1 .. n + 1, Returns(r, j, k)
      PROVE  LeavesBetween(r, j, k)
  <2>0. j < k /\ IsJoin(r[j]) /\ r[k].from = r[j].from
    BY <1>8, Zenon DEF Returns
  <2>1. CASE k = n + 1
    <3>1. j \in 1 .. n /\ IsJoin(q[j]) /\ q[j].from = m.from
      BY <1>2, <1>5, <2>0, <2>1, Zenon
    <3>2. j \notin Stays(q, m.from)
      BY Zenon
    <3>3. PICK i \in 1 .. n : i > j /\ IsLeave(q[i]) /\ q[i].from = m.from
      BY <1>1, <3>1, <3>2, Zenon DEF Stays
    <3> QED
      BY <1>1, <1>2, <1>6, <1>7, <2>0, <2>1, <3>1, <3>3, Zenon DEF LeavesBetween
  <2>2. CASE k # n + 1
    <3>1. j \in 1 .. n /\ k \in 1 .. n /\ r[j] = q[j] /\ r[k] = q[k]
      BY <1>2, <1>4, <2>0, <2>2, Zenon
    <3>2. Returns(q, j, k)
      BY <1>8, <3>1, Zenon DEF Returns
    <3>3. PICK i \in 1 .. n : j < i /\ i < k /\ IsLeave(q[i]) /\ q[i].from = q[j].from
      BY <1>1, <3>1, <3>2, Zenon DEF Alternates, LeavesBetween
    <3> QED
      BY <1>1, <1>2, <1>6, <3>1, <3>3, Zenon DEF LeavesBetween
  <2> QED
    BY <2>1, <2>2, Zenon
<1>9. Alternates(r)
  BY <1>1, <1>8, Zenon DEF Alternates
<1>10. \A j \in 1 .. n + 1 : ~ (j > n + 1)
  OBVIOUS
<1>11. n + 1 \in 1 .. n + 1
  OBVIOUS
<1>12. n + 1 \in Stays(r, m.from)
  BY <1>1, <1>2, <1>10, <1>11, Zenon DEF Stays
<1> QED
  BY <1>1, <1>2, <1>9, <1>12, Zenon

\* What is not about joining may follow if it is of the connection by which the
\* client stays, or if the client does not stay.
LEMMA MessageAtEnd ==
  ASSUME NEW q, IsSeq(q), Alternates(q), NEW m, NEW r, IsAppend(q, m, r), ~ IsJoin(m),
         \A k \in Stays(q, m.from) : q[k].session = m.session
  PROVE  Alternates(r)
<1>1. PICK n \in Nat : n = Len(q) /\ DOMAIN q = 1 .. n /\ DOMAIN r = 1 .. n + 1
  BY SeqFacts, Zenon DEF IsAppend
<1>2. r[n + 1] = m /\ \A k \in 1 .. n : r[k] = q[k]
  BY <1>1, Zenon DEF IsAppend
<1>3. \A i, j \in 1 .. n + 1 : i < j /\ j # n + 1 => i \in 1 .. n /\ j \in 1 .. n
  OBVIOUS
<1>4. \A j \in 1 .. n + 1 : j < n + 1 => j \in 1 .. n
  OBVIOUS
<1>5. \A i \in 1 .. n : i < n + 1 /\ i \in 1 .. n + 1
  OBVIOUS
<1>6. \A j, k \in 1 .. n : j > k <=> k < j
  OBVIOUS
<1>7. ASSUME NEW j \in 1 .. n + 1, NEW k \in 1 .. n + 1, Returns(r, j, k)
      PROVE  LeavesBetween(r, j, k)
  <2>0. /\ j < k /\ IsJoin(r[j]) /\ r[k].from = r[j].from
        /\ IsJoin(r[k]) \/ r[k].session # r[j].session
    BY <1>7, Zenon DEF Returns
  <2>1. CASE k = n + 1
    <3>1. j \in 1 .. n /\ IsJoin(q[j]) /\ q[j].from = m.from /\ q[j].session # m.session
      BY <1>2, <1>4, <2>0, <2>1, Zenon
    <3>2. j \notin Stays(q, m.from)
      BY <3>1, Zenon
    <3>3. PICK i \in 1 .. n : i > j /\ IsLeave(q[i]) /\ q[i].from = m.from
      BY <1>1, <3>1, <3>2, Zenon DEF Stays
    <3> QED
      BY <1>1, <1>2, <1>5, <1>6, <2>0, <2>1, <3>1, <3>3, Zenon DEF LeavesBetween
  <2>2. CASE k # n + 1
    <3>1. j \in 1 .. n /\ k \in 1 .. n /\ r[j] = q[j] /\ r[k] = q[k]
      BY <1>2, <1>3, <2>0, <2>2, Zenon
    <3>2. Returns(q, j, k)
      BY <1>7, <3>1, Zenon DEF Returns
    <3>3. PICK i \in 1 .. n : j < i /\ i < k /\ IsLeave(q[i]) /\ q[i].from = q[j].from
      BY <1>1, <3>1, <3>2, Zenon DEF Alternates, LeavesBetween
    <3> QED
      BY <1>1, <1>2, <1>5, <3>1, <3>3, Zenon DEF LeavesBetween
  <2> QED
    BY <2>1, <2>2, Zenon
<1> QED
  BY <1>1, <1>7, Zenon DEF Alternates

\* A message that is no notice changes nothing about who stays.
LEMMA TalkKeepsStays ==
  ASSUME NEW q, IsSeq(q), NEW m, NEW r, IsAppend(q, m, r), ~ IsJoin(m), ~ IsLeave(m), NEW c
  PROVE  Stays(r, c) = Stays(q, c)
<1>1. PICK n \in Nat : n = Len(q) /\ DOMAIN q = 1 .. n /\ DOMAIN r = 1 .. n + 1
  BY SeqFacts, Zenon DEF IsAppend
<1>2. r[n + 1] = m /\ \A k \in 1 .. n : r[k] = q[k]
  BY <1>1, Zenon DEF IsAppend
<1>3. \A k \in 1 .. n + 1 : k = n + 1 \/ k \in 1 .. n
  OBVIOUS
<1>4. \A k \in 1 .. n : k \in 1 .. n + 1
  OBVIOUS
<1>5. \A k : k \in Stays(r, c) => k \in Stays(q, c)
  BY <1>1, <1>2, <1>3, <1>4, Zenon DEF Stays
<1>6. \A k : k \in Stays(q, c) => k \in Stays(r, c)
  BY <1>1, <1>2, <1>3, <1>4, Zenon DEF Stays
<1> QED
  BY <1>5, <1>6, Zenon

\* After the notice that a client leaves it does not stay.
LEMMA LeaveAtEnd ==
  ASSUME NEW q, IsSeq(q), NEW m, NEW r, IsAppend(q, m, r), IsLeave(m)
  PROVE  Stays(r, m.from) = {}
<1>1. PICK n \in Nat : n = Len(q) /\ DOMAIN q = 1 .. n /\ DOMAIN r = 1 .. n + 1
  BY SeqFacts, Zenon DEF IsAppend
<1>2. r[n + 1] = m /\ \A k \in 1 .. n : r[k] = q[k]
  BY <1>1, Zenon DEF IsAppend
<1>3. \A k \in 1 .. n + 1 : k = n + 1 \/ n + 1 > k
  OBVIOUS
<1>4. n + 1 \in 1 .. n + 1
  OBVIOUS
<1>5. \A x : IsLeave(x) => ~ IsJoin(x)
  BY DEF IsLeave, IsJoin
<1> QED
  BY <1>1, <1>2, <1>3, <1>4, <1>5, Zenon DEF Stays

\* As far as joining and leaving goes the two messages are the same.
Alike(m, x) == m.kind = x.kind /\ m.from = x.from /\ m.session = x.session

\* The history r is q without some messages: e tells where its messages are in q.
\* No notice of leaving is missing that comes after one of joining that is not.
IsThinned(q, r, e) ==
  /\ \A k \in DOMAIN r : e[k] \in DOMAIN q /\ Alike(r[k], q[e[k]])
  /\ \A j, k \in DOMAIN r : j < k => e[j] < e[k]
  /\ \A i \in DOMAIN q : (IsLeave(q[i]) /\ \A k \in DOMAIN r : e[k] # i) =>
       \A k \in DOMAIN r : IsJoin(r[k]) /\ r[k].from = q[i].from => i < e[k]

\* A client stays in a history that was thinned if it did before.
LEMMA Thinned ==
  ASSUME NEW q, IsSeq(q), NEW r, IsSeq(r), NEW e, IsThinned(q, r, e)
  PROVE  /\ Alternates(q) => Alternates(r)
         /\ \A c, k : k \in DOMAIN r => (k \in Stays(r, c) <=> e[k] \in Stays(q, c))
<1>0. PICK m, n \in Nat : DOMAIN q = 1 .. m /\ DOMAIN r = 1 .. n
  BY SeqFacts, Zenon
<1>1. \A k \in 1 .. n : e[k] \in 1 .. m /\ Alike(r[k], q[e[k]])
  BY <1>0, Zenon DEF IsThinned
<1>2. \A j, k \in 1 .. n : j < k => e[j] < e[k]
  BY <1>0, Zenon DEF IsThinned
<1>3. \A j, k \in 1 .. n : e[j] < e[k] => j < k
  <2> TAKE j, k \in 1 .. n
  <2>1. j < k \/ j = k \/ k < j
    OBVIOUS
  <2>2. \A x, y \in 1 .. m : x < y => ~ (y < x) /\ x # y
    OBVIOUS
  <2> QED
    BY <1>1, <1>2, <2>1, <2>2, Zenon
<1>4. ASSUME NEW i \in 1 .. m, IsLeave(q[i]), NEW k \in 1 .. n, IsJoin(r[k]),
             r[k].from = q[i].from, e[k] < i
      PROVE  \E x \in 1 .. n : e[x] = i
  <2>1. ~ (i < e[k])
    BY <1>1, <1>4
  <2> QED
    BY <1>0, <1>4, <2>1, Zenon DEF IsThinned
<1>5. \A k \in 1 .. n : /\ IsJoin(r[k]) <=> IsJoin(q[e[k]])
                        /\ IsLeave(r[k]) <=> IsLeave(q[e[k]])
                        /\ r[k].from = q[e[k]].from /\ r[k].session = q[e[k]].session
  BY <1>1, Zenon DEF Alike, IsJoin, IsLeave
<1>6. \A j, k \in 1 .. m : (j > k <=> k < j)
  OBVIOUS
<1>7. \A j, k \in 1 .. n : (j > k <=> k < j)
  OBVIOUS
<1>8. ASSUME Alternates(q), NEW j \in 1 .. n, NEW k \in 1 .. n, Returns(r, j, k)
      PROVE  LeavesBetween(r, j, k)
  <2>1. /\ j < k /\ IsJoin(r[j]) /\ r[k].from = r[j].from
        /\ IsJoin(r[k]) \/ r[k].session # r[j].session
    BY <1>8, Zenon DEF Returns
  <2>2. Returns(q, e[j], e[k])
    BY <1>2, <1>5, <2>1, Zenon DEF Returns
  <2>3. LeavesBetween(q, e[j], e[k])
    BY <1>0, <1>1, <1>8, <2>2, Zenon DEF Alternates
  <2>4. PICK i \in 1 .. m : e[j] < i /\ i < e[k] /\ IsLeave(q[i]) /\ q[i].from = q[e[j]].from
    BY <1>0, <2>3, Zenon DEF LeavesBetween
  <2>5. r[j].from = q[i].from
    BY <1>5, <2>4, Zenon
  <2>6. PICK x \in 1 .. n : e[x] = i
    BY <1>4, <2>1, <2>4, <2>5, Zenon
  <2>7. j < x /\ x < k
    BY <1>3, <2>4, <2>6, Zenon
  <2>8. IsLeave(r[x]) /\ r[x].from = r[j].from
    BY <1>5, <2>4, <2>5, <2>6, Zenon
  <2> QED
    BY <1>0, <2>7, <2>8, Zenon DEF LeavesBetween
<1>9. ASSUME NEW c, NEW k \in 1 .. n, k \in Stays(r, c)
      PROVE  e[k] \in Stays(q, c)
  <2>1. /\ IsJoin(r[k]) /\ r[k].from = c
        /\ \A j \in 1 .. n : j > k /\ IsLeave(r[j]) => r[j].from # c
    BY <1>0, <1>9, Zenon DEF Stays
  <2>2. ASSUME NEW i \in 1 .. m, i > e[k], IsLeave(q[i]), q[i].from = c
        PROVE  FALSE
    <3>1. e[k] < i
      BY <1>1, <1>6, <2>2, Zenon
    <3>2. PICK x \in 1 .. n : e[x] = i
      BY <1>4, <2>1, <2>2, <3>1, Zenon
    <3>3. x > k
      BY <1>3, <1>7, <3>1, <3>2, Zenon
    <3>4. IsLeave(r[x]) /\ r[x].from = c
      BY <1>5, <2>2, <3>2, Zenon
    <3> QED
      BY <2>1, <3>3, <3>4, Zenon
  <2> QED
    BY <1>0, <1>1, <1>5, <2>1, <2>2, Zenon DEF Stays
<1>10. ASSUME NEW c, NEW k \in 1 .. n, e[k] \in Stays(q, c)
       PROVE  k \in Stays(r, c)
  <2>1. /\ IsJoin(q[e[k]]) /\ q[e[k]].from = c
        /\ \A i \in 1 .. m : i > e[k] /\ IsLeave(q[i]) => q[i].from # c
    BY <1>0, <1>10, Zenon DEF Stays
  <2>2. ASSUME NEW j \in 1 .. n, j > k, IsLeave(r[j]), r[j].from = c
        PROVE  FALSE
    <3>1. e[j] > e[k]
      BY <1>1, <1>2, <1>6, <1>7, <2>2, Zenon
    <3>2. e[j] \in 1 .. m /\ IsLeave(q[e[j]]) /\ q[e[j]].from = c
      BY <1>1, <1>5, <2>2, Zenon
    <3> QED
      BY <2>1, <3>1, <3>2, Zenon
  <2> QED
    BY <1>0, <1>5, <2>1, <2>2, Zenon DEF Stays
<1> QED
  BY <1>0, <1>8, <1>9, <1>10, Zenon DEF Alternates

\* Nothing by which a client stays is missing.
AllStay(q, r, e) == \A c, i : i \in Stays(q, c) => \E k \in DOMAIN r : e[k] = i

\* If, moreover, nothing is missing by which a client stays, the histories follow
\* the same connections.
LEMMA ThinnedFollows ==
  ASSUME NEW q, IsSeq(q), NEW r, IsSeq(r), NEW e, IsThinned(q, r, e), AllStay(q, r, e),
         NEW c, Follows(q, c)
  PROVE  Follows(r, c)
<1>1. \A k \in DOMAIN r : k \in Stays(r, c) <=> e[k] \in Stays(q, c)
  BY Thinned, Zenon
<1>2. \A k \in DOMAIN r : r[k].session = q[e[k]].session
  BY Zenon DEF IsThinned, Alike
<1>3. \A k : k \in Stays(r, c) => k \in DOMAIN r
  BY Zenon DEF Stays
<1>4. CASE link[c].server = "up"
  <2>1. PICK i \in Stays(q, c) : q[i].session = link[c].accepted
    BY <1>4, Zenon DEF Follows
  <2>2. PICK k \in DOMAIN r : e[k] = i
    BY Zenon DEF AllStay
  <2> QED
    <3>1. k \in Stays(r, c) /\ r[k].session = link[c].accepted
      BY <1>1, <1>2, <2>1, <2>2, Zenon
    <3> QED
      BY <1>4, <3>1, Zenon DEF Follows
<1>5. CASE link[c].server # "up"
  <2>1. Stays(q, c) = {}
    BY <1>5, Zenon DEF Follows
  <2>2. \A k : k \notin Stays(r, c)
    BY <1>1, <1>3, <2>1, Zenon
  <2> QED
    BY <1>5, <2>2, Zenon DEF Follows
<1> QED
  BY <1>4, <1>5, Zenon

-----------------------------------------------------------------------------
(***************************************************************************)
(* One turn of the server's loop, in the history: the head of the inbox is *)
(* read, and the users change.                                             *)
(***************************************************************************)

\* The history q of users u and an inbox s, by position.
IsHistory(u, s, q) ==
  /\ IsSeq(q) /\ Len(q) = Len(u) + Len(s)
  /\ \A k \in 1 .. Len(u) :
       IsJoin(q[k]) /\ q[k].from = u[k].id /\ q[k].session = u[k].nick[2]
  /\ \A k \in 1 .. Len(s) : q[Len(u) + k] = s[k]

\* The history of a list of users and an inbox, by position.
LEMMA HistoryIs ==
  ASSUME NEW u, IsSeq(u), NEW s, IsSeq(s)
  PROVE  IsHistory(u, s, Joining(u) \o s)
<1>1. PICK n \in Nat : n = Len(u) /\ DOMAIN u = 1 .. n
  BY SeqFacts, Zenon
<1>2. PICK j : j = Joining(u)
  BY Zenon
<1>3. \A k \in 1 .. n :
        j[k] = [kind |-> "incoming", from |-> u[k].id, session |-> u[k].nick[2]]
  BY <1>1, <1>2, Zenon DEF Joining
<1>4. j = [k \in 1 .. n |-> j[k]]
  BY <1>1, <1>2 DEF Joining
<1>5. IsSeq(j) /\ Len(j) = n
  BY <1>4, MadeSeq, Zenon
<1>6. PICK q : q = j \o s /\ IsConcat(j, s, q)
  BY <1>5, Concatenated, Zenon
<1>7. \A k \in 1 .. n : IsJoin(j[k]) /\ j[k].from = u[k].id /\ j[k].session = u[k].nick[2]
  <2> TAKE k \in 1 .. n
  <2>1. PICK a, b : a = u[k].id /\ b = u[k].nick[2]
    BY Zenon
  <2>2. j[k] = [kind |-> "incoming", from |-> a, session |-> b]
    BY <1>3, <2>1, Zenon
  <2>3. j[k].kind = "incoming" /\ j[k].from = a /\ j[k].session = b
    BY ONLY <2>2
  <2> QED
    BY <2>1, <2>3, Zenon DEF IsJoin
<1>8. \A k \in 1 .. n : q[k] = j[k]
  BY <1>5, <1>6, Zenon DEF IsConcat
<1>9. \A k \in 1 .. n : IsJoin(q[k]) /\ q[k].from = u[k].id /\ q[k].session = u[k].nick[2]
  BY <1>7, <1>8, Zenon
<1>10. IsSeq(q) /\ Len(q) = n + Len(s) /\ \A k \in 1 .. Len(s) : q[n + k] = s[k]
  BY <1>5, <1>6, Zenon DEF IsConcat
<1> QED
  BY <1>1, <1>2, <1>6, <1>9, <1>10, Zenon DEF IsHistory

\* Where the parts of a history are, n users and m messages.
HasParts(u, s, q, n, m) ==
  /\ n = Len(u) /\ m = Len(s) /\ DOMAIN u = 1 .. n /\ DOMAIN q = 1 .. n + m
  /\ \A k \in 1 .. n :
       /\ k \in 1 .. n + m /\ IsJoin(q[k]) /\ ~ IsLeave(q[k])
       /\ q[k].from = u[k].id /\ q[k].session = u[k].nick[2]
  /\ \A k \in 1 .. m : n + k \in 1 .. n + m /\ q[n + k] = s[k]
  /\ \A k \in 1 .. n + m : k \in 1 .. n \/ \E x \in 1 .. m : k = n + x

\* A history has these parts.
LEMMA HistoryParts ==
  ASSUME NEW u, IsSeq(u), NEW s, IsSeq(s), NEW q, IsHistory(u, s, q)
  PROVE  \E n, m \in Nat : HasParts(u, s, q, n, m)
<1>1. PICK n, m \in Nat : n = Len(u) /\ m = Len(s)
  BY SeqFacts, Zenon
<1>2. DOMAIN u = 1 .. n
  BY <1>1, SeqFacts, Zenon
<1>3. DOMAIN q = 1 .. n + m
  BY <1>1, SeqFacts, Zenon DEF IsHistory
<1>4. \A x : IsJoin(x) => ~ IsLeave(x)
  BY DEF IsJoin, IsLeave
<1>5. \A k \in 1 .. n : k \in 1 .. n + m
  OBVIOUS
<1>6. \A k \in 1 .. m : n + k \in 1 .. n + m
  OBVIOUS
<1>7. \A k \in 1 .. n + m : k \in 1 .. n \/ \E x \in 1 .. m : k = n + x
  <2> TAKE k \in 1 .. n + m
  <2>1. k \in 1 .. n \/ (k - n \in 1 .. m /\ k = n + (k - n))
    OBVIOUS
  <2> QED
    BY <2>1, Zenon
<1>8. \A k \in 1 .. n :
        /\ k \in 1 .. n + m /\ IsJoin(q[k]) /\ ~ IsLeave(q[k])
        /\ q[k].from = u[k].id /\ q[k].session = u[k].nick[2]
  BY <1>1, <1>4, <1>5, Zenon DEF IsHistory
<1>9. \A k \in 1 .. m : n + k \in 1 .. n + m /\ q[n + k] = s[k]
  BY <1>1, <1>6, Zenon DEF IsHistory
<1>10. HasParts(u, s, q, n, m)
  BY <1>1, <1>2, <1>3, <1>7, <1>8, <1>9, Zenon DEF HasParts
<1> QED
  BY <1>10, Zenon

\* A history in which clients leave before they return has no user twice, and
\* what a user says came over the connection by which they are a user.
LEMMA UsersOnce ==
  ASSUME NEW u, IsSeq(u), NEW s, IsSeq(s), NEW q, IsHistory(u, s, q), Alternates(q)
  PROVE  /\ \A j, k \in DOMAIN u : u[j].id = u[k].id => j = k
         /\ \A k \in DOMAIN u :
              s # <<>> /\ s[1].from = u[k].id => ~ IsJoin(s[1]) /\ s[1].session = u[k].nick[2]
<1>0. PICK n, m \in Nat : HasParts(u, s, q, n, m)
  BY HistoryParts, Zenon
<1> USE DEF HasParts
<1>1. \A i \in 1 .. n + m : i < n + 1 => i \in 1 .. n
  OBVIOUS
<1>2. \A j, k, i \in 1 .. n + m : k \in 1 .. n /\ i < k => i \in 1 .. n
  OBVIOUS
<1>3. \A j, k \in 1 .. n : u[j].id = u[k].id => ~ (j < k)
  <2> SUFFICES ASSUME NEW j \in 1 .. n, NEW k \in 1 .. n, u[j].id = u[k].id, j < k PROVE FALSE
    BY Zenon
  <2>1. Returns(q, j, k)
    BY <1>0, Zenon DEF Returns
  <2>2. PICK i \in 1 .. n + m : i < k /\ IsLeave(q[i])
    BY <1>0, <2>1, Zenon DEF Alternates, LeavesBetween
  <2> QED
    BY <1>0, <1>2, <2>2, Zenon
<1>4. \A j, k \in 1 .. n : j < k \/ k < j \/ j = k
  OBVIOUS
<1>5. ASSUME NEW k \in 1 .. n, s # <<>>, s[1].from = u[k].id,
             IsJoin(s[1]) \/ s[1].session # u[k].nick[2]
      PROVE  FALSE
  <2>1. 1 \in 1 .. m /\ k < n + 1
    <3>1. m # 0
      BY <1>0, <1>5, SeqFacts
    <3> QED
      BY <3>1
  <2>2. n + 1 \in 1 .. n + m /\ q[n + 1] = s[1]
    BY <1>0, <2>1, Zenon
  <2>3. Returns(q, k, n + 1)
    BY <1>0, <1>5, <2>1, <2>2, Zenon DEF Returns
  <2>4. PICK i \in 1 .. n + m : i < n + 1 /\ IsLeave(q[i])
    BY <1>0, <2>2, <2>3, Zenon DEF Alternates, LeavesBetween
  <2> QED
    BY <1>0, <1>1, <2>4, Zenon
<1>6. \A j, k \in DOMAIN u : u[j].id = u[k].id => j = k
  BY <1>0, <1>3, <1>4, Zenon
<1> QED
  BY <1>0, <1>5, <1>6, Zenon

\* What a turn must leave as it is.
Kept(q, r) ==
  /\ Alternates(q) => Alternates(r)
  /\ \A c : Follows(q, c) => Follows(r, c)

\* It is left if the history is thinned by nothing by which a client stays.
LEMMA ThinnedIsKept ==
  ASSUME NEW q, IsSeq(q), NEW r, IsSeq(r), NEW e, IsThinned(q, r, e), AllStay(q, r, e)
  PROVE  Kept(q, r)
<1>1. Alternates(q) => Alternates(r)
  BY Thinned, Zenon
<1>2. ASSUME NEW c, Follows(q, c)
      PROVE  Follows(r, c)
  BY <1>2, ThinnedFollows, Zenon
<1> QED
  BY <1>1, <1>2, Zenon DEF Kept

\* The first message becomes a user.
LEMMA ReadJoin ==
  ASSUME NEW u, IsSeq(u), NEW s, IsSeq(s), s # <<>>, NEW q, IsHistory(u, s, q),
         IsJoin(s[1]), NEW x, x.id = s[1].from, x.nick[2] = s[1].session,
         NEW v, IsAppend(u, x, v), NEW t, IsTail(s, t), NEW r, IsHistory(v, t, r)
  PROVE  Kept(q, r)
<1>1. PICK n, m \in Nat : HasParts(u, s, q, n, m)
  BY HistoryParts, Zenon
<1>2. IsSeq(v) /\ IsSeq(t)
  BY Zenon DEF IsAppend, IsTail
<1>3. PICK n2, m2 \in Nat : HasParts(v, t, r, n2, m2)
  BY <1>2, HistoryParts, Zenon
<1>4. n2 = n + 1 /\ m = m2 + 1
  BY <1>1, <1>3, Zenon DEF HasParts, IsAppend, IsTail
<1>5. DOMAIN q = 1 .. n + m /\ DOMAIN r = 1 .. n + m
  <2>1. n + m = n2 + m2
    BY <1>4
  <2> QED
    BY <1>1, <1>3, <2>1, Zenon DEF HasParts
<1>6. ASSUME NEW k \in 1 .. n + m
      PROVE  Alike(r[k], q[k])
  <2>0. \A a, b : IsJoin(a) /\ IsJoin(b) => a.kind = b.kind
    BY Zenon DEF IsJoin
  <2>1. CASE k \in 1 .. n
    <3>1. k \in 1 .. n2 /\ v[k] = u[k]
      <4>1. k \in 1 .. n2
        BY <1>4, <2>1
      <4> QED
        BY <4>1, <1>1, <2>1, Zenon DEF IsAppend, HasParts
    <3>2. IsJoin(r[k]) /\ r[k].from = v[k].id /\ r[k].session = v[k].nick[2]
      BY <1>3, <3>1, Zenon DEF HasParts
    <3>3. IsJoin(q[k]) /\ q[k].from = u[k].id /\ q[k].session = u[k].nick[2]
      BY <1>1, <2>1, Zenon DEF HasParts
    <3> QED
      BY <2>0, <3>1, <3>2, <3>3, Zenon DEF Alike
  <2>2. CASE k = n + 1
    <3>1. k \in 1 .. n2 /\ 1 \in 1 .. m
      BY <1>4, <2>2
    <3>2. v[k] = x
      BY <1>1, <2>2, Zenon DEF IsAppend, HasParts
    <3>3. IsJoin(r[k]) /\ r[k].from = x.id /\ r[k].session = x.nick[2] /\ q[k] = s[1]
      BY <1>1, <1>3, <2>2, <3>1, <3>2, Zenon DEF HasParts
    <3> QED
      BY <2>0, <3>3, Zenon DEF Alike
  <2>3. CASE k \notin 1 .. n /\ k # n + 1
    <3>1. PICK y : y = k - (n + 1)
      OBVIOUS
    <3>2. y \in 1 .. m2 /\ y + 1 \in 1 .. m /\ k = n2 + y /\ k = n + (y + 1)
      BY <1>4, <2>3, <3>1
    <3>3. r[k] = t[y] /\ q[k] = s[y + 1]
      <4>1. r[n2 + y] = t[y]
        BY <1>3, <3>2, Zenon DEF HasParts
      <4>2. q[n + (y + 1)] = s[y + 1]
        BY <1>1, <3>2, Zenon DEF HasParts
      <4> QED
        BY <3>2, <4>1, <4>2, Zenon
    <3>4. t[y] = s[y + 1]
      BY <1>3, <3>2, Zenon DEF IsTail, HasParts
    <3> QED
      BY <3>3, <3>4, Zenon DEF Alike
  <2> QED
    BY <2>1, <2>2, <2>3, Zenon
<1>7. PICK e : e = [k \in 1 .. n + m |-> k]
  BY Zenon
<1>8. \A k \in 1 .. n + m : e[k] = k
  BY <1>7, Zenon
<1>9. IsThinned(q, r, e)
  BY <1>5, <1>6, <1>8, Zenon DEF IsThinned
<1>10. AllStay(q, r, e)
  BY <1>5, <1>8, Zenon DEF Stays, AllStay
<1>11. IsSeq(q) /\ IsSeq(r)
  BY Zenon DEF IsHistory
<1> QED
  BY <1>9, <1>10, <1>11, ThinnedIsKept, Zenon

\* The first message is neither that someone joins nor that a user leaves, and the
\* users remain, under whatever name.
LEMMA ReadTalk ==
  ASSUME NEW u, IsSeq(u), NEW s, IsSeq(s), s # <<>>, NEW q, IsHistory(u, s, q),
         ~ IsJoin(s[1]), IsLeave(s[1]) => \A k \in DOMAIN u : u[k].id # s[1].from,
         NEW v, IsSeq(v), Len(v) = Len(u),
         \A k \in 1 .. Len(u) : v[k].id = u[k].id /\ v[k].nick[2] = u[k].nick[2],
         NEW t, IsTail(s, t), NEW r, IsHistory(v, t, r)
  PROVE  Kept(q, r)
<1>1. PICK n, m \in Nat : HasParts(u, s, q, n, m)
  BY HistoryParts, Zenon
<1>2. IsSeq(t)
  BY Zenon DEF IsTail
<1>3. PICK n2, m2 \in Nat : HasParts(v, t, r, n2, m2)
  BY <1>2, HistoryParts, Zenon
<1>4. n2 = n /\ m = m2 + 1
  BY <1>1, <1>3, Zenon DEF HasParts, IsTail
<1>5. DOMAIN q = 1 .. n + m /\ DOMAIN r = 1 .. n + m2
  BY <1>1, <1>3, <1>4, Zenon DEF HasParts
<1>6. PICK e : e = [k \in 1 .. n + m2 |-> IF k \in 1 .. n THEN k ELSE k + 1]
  BY Zenon
<1>7. \A k \in 1 .. n + m2 : e[k] = IF k \in 1 .. n THEN k ELSE k + 1
  BY <1>6, Zenon
<1>8. ASSUME NEW k \in 1 .. n + m2
      PROVE  e[k] \in 1 .. n + m /\ Alike(r[k], q[e[k]])
  <2>0. \A a, b : IsJoin(a) /\ IsJoin(b) => a.kind = b.kind
    BY Zenon DEF IsJoin
  <2>1. CASE k \in 1 .. n
    <3>1. e[k] = k
      BY <1>7, <2>1, Zenon
    <3>2. v[k].id = u[k].id /\ v[k].nick[2] = u[k].nick[2]
      BY <1>1, <2>1, Zenon DEF HasParts
    <3>3. /\ IsJoin(r[k]) /\ r[k].from = v[k].id /\ r[k].session = v[k].nick[2]
          /\ IsJoin(q[k]) /\ q[k].from = u[k].id /\ q[k].session = u[k].nick[2]
          /\ k \in 1 .. n + m
      BY <1>1, <1>3, <1>4, <2>1, Zenon DEF HasParts
    <3> QED
      BY <2>0, <3>1, <3>2, <3>3, Zenon DEF Alike
  <2>2. CASE k \notin 1 .. n
    <3>1. e[k] = k + 1
      BY <1>7, <2>2, Zenon
    <3>2. PICK y : y = k - n
      OBVIOUS
    <3>3. y \in 1 .. m2 /\ y + 1 \in 1 .. m /\ k = n + y /\ k + 1 = n + (y + 1)
      BY <1>4, <2>2, <3>2
    <3>4. r[k] = t[y] /\ q[k + 1] = s[y + 1] /\ k + 1 \in 1 .. n + m
      <4>1. r[n2 + y] = t[y]
        BY <1>3, <3>3, Zenon DEF HasParts
      <4>2. q[n + (y + 1)] = s[y + 1] /\ n + (y + 1) \in 1 .. n + m
        BY <1>1, <3>3, Zenon DEF HasParts
      <4> QED
        BY <1>4, <3>3, <4>1, <4>2, Zenon
    <3>5. t[y] = s[y + 1]
      BY <1>3, <3>3, Zenon DEF IsTail, HasParts
    <3> QED
      BY <3>1, <3>4, <3>5, Zenon DEF Alike
  <2> QED
    BY <2>1, <2>2, Zenon
<1>9. \A j, k \in 1 .. n + m2 : j < k => e[j] < e[k]
  BY <1>7
<1>10. \A i \in 1 .. n + m : (\A k \in 1 .. n + m2 : e[k] # i) => i = n + 1
  <2> TAKE i \in 1 .. n + m
  <2>1. CASE i \in 1 .. n
    <3>1. i \in 1 .. n + m2 /\ e[i] = i
      BY <1>7, <2>1
    <3> QED
      BY <3>1, Zenon
  <2>2. CASE i \notin 1 .. n /\ i # n + 1
    <3>1. i - 1 \in 1 .. n + m2 /\ i - 1 \notin 1 .. n /\ (i - 1) + 1 = i
      BY <1>4, <2>2
    <3>2. e[i - 1] = i
      BY <1>7, <3>1, Zenon
    <3> QED
      BY <3>1, <3>2, Zenon
  <2> QED
    BY <2>1, <2>2, Zenon
<1>11. q[n + 1] = s[1]
  <2>1. 1 \in 1 .. m
    BY <1>4
  <2> QED
    BY <1>1, <2>1, Zenon DEF HasParts
<1>12. ASSUME IsLeave(s[1]), NEW k \in 1 .. n + m2, IsJoin(r[k]), r[k].from = s[1].from
       PROVE  n + 1 < e[k]
  <2>1. CASE k \in 1 .. n
    <3>1. r[k].from = u[k].id
      BY <1>1, <1>3, <1>4, <2>1, Zenon DEF HasParts
    <3> QED
      BY <1>1, <1>12, <2>1, <3>1, Zenon DEF HasParts
  <2>2. CASE k \notin 1 .. n
    BY <1>7, <2>2
  <2> QED
    BY <2>1, <2>2, Zenon
<1>13. IsThinned(q, r, e)
  <2>1. \A k \in DOMAIN r : e[k] \in DOMAIN q /\ Alike(r[k], q[e[k]])
    BY <1>5, <1>8, Zenon
  <2>2. \A j, k \in DOMAIN r : j < k => e[j] < e[k]
    BY <1>5, <1>9, Zenon
  <2>3. ASSUME NEW i \in DOMAIN q, IsLeave(q[i]), \A k \in DOMAIN r : e[k] # i,
               NEW k \in DOMAIN r, IsJoin(r[k]), r[k].from = q[i].from
        PROVE  i < e[k]
    <3>1. i = n + 1
      BY <1>5, <1>10, <2>3, Zenon
    <3> QED
      BY <1>5, <1>11, <1>12, <2>3, <3>1, Zenon
  <2> QED
    BY <2>1, <2>2, <2>3, Zenon DEF IsThinned
<1>14. AllStay(q, r, e)
  BY <1>5, <1>10, <1>11, Zenon DEF Stays, AllStay
<1>15. IsSeq(q) /\ IsSeq(r)
  BY Zenon DEF IsHistory
<1> QED
  BY <1>13, <1>14, <1>15, ThinnedIsKept, Zenon

\* The first message is that a user leaves, and it is the only user of that id.
LEMMA ReadLeave ==
  ASSUME NEW u, IsSeq(u), NEW s, IsSeq(s), s # <<>>, NEW q, IsHistory(u, s, q),
         IsLeave(s[1]), NEW p \in DOMAIN u, u[p].id = s[1].from,
         \A k \in DOMAIN u : u[k].id = u[p].id => k = p,
         NEW v, IsRemoval(u, p, v), NEW t, IsTail(s, t), NEW r, IsHistory(v, t, r)
  PROVE  Kept(q, r)
<1>1. PICK n, m \in Nat : HasParts(u, s, q, n, m)
  BY HistoryParts, Zenon
<1>2. IsSeq(v) /\ IsSeq(t)
  BY Zenon DEF IsRemoval, IsTail
<1>3. PICK n2, m2 \in Nat : HasParts(v, t, r, n2, m2)
  BY <1>2, HistoryParts, Zenon
<1>4. n = n2 + 1 /\ m = m2 + 1 /\ p \in 1 .. n
  BY <1>1, <1>3, Zenon DEF HasParts, IsRemoval, IsTail
<1>5. DOMAIN q = 1 .. n + m /\ DOMAIN r = 1 .. n2 + m2
  BY <1>1, <1>3, Zenon DEF HasParts
<1>6. PICK e : e = [k \in 1 .. n2 + m2 |->
                      IF k < p THEN k ELSE IF k \in 1 .. n2 THEN k + 1 ELSE k + 2]
  BY Zenon
<1>7. \A k \in 1 .. n2 + m2 : e[k] = IF k < p THEN k ELSE IF k \in 1 .. n2 THEN k + 1 ELSE k + 2
  BY <1>6, Zenon
<1>8. \A k \in 1 .. n2 : /\ k \in 1 .. n2 + m2 /\ e[k] \in 1 .. n /\ e[k] # p
                         /\ e[k] = IF k < p THEN k ELSE k + 1
  BY <1>4, <1>7
<1>9. \A k \in 1 .. n2 : r[k].from = u[e[k]].id /\ r[k].session = u[e[k]].nick[2] /\ IsJoin(r[k])
  <2> TAKE k \in 1 .. n2
  <2>1. PICK i : i = IF k < p THEN k ELSE k + 1
    BY Zenon
  <2>2. k \in 1 .. Len(v)
    BY <1>3, Zenon DEF HasParts
  <2>3. v[k] = u[i]
    BY <2>1, <2>2, Zenon DEF IsRemoval
  <2>4. e[k] = i
    BY <1>8, <2>1, Zenon
  <2>5. IsJoin(r[k]) /\ r[k].from = v[k].id /\ r[k].session = v[k].nick[2]
    BY <1>3, Zenon DEF HasParts
  <2> QED
    BY <2>3, <2>4, <2>5, Zenon
<1>10. ASSUME NEW k \in 1 .. n2 + m2
       PROVE  e[k] \in 1 .. n + m /\ Alike(r[k], q[e[k]])
  <2>0. \A a, b : IsJoin(a) /\ IsJoin(b) => a.kind = b.kind
    BY Zenon DEF IsJoin
  <2>1. CASE k \in 1 .. n2
    <3>1. PICK i \in 1 .. n : i = e[k]
      BY <1>8, <2>1, Zenon
    <3>2. IsJoin(q[i]) /\ q[i].from = u[i].id /\ q[i].session = u[i].nick[2] /\ i \in 1 .. n + m
      BY <1>1, Zenon DEF HasParts
    <3>3. IsJoin(r[k]) /\ r[k].from = u[i].id /\ r[k].session = u[i].nick[2]
      BY <1>9, <2>1, <3>1, Zenon
    <3> QED
      BY <2>0, <3>1, <3>2, <3>3, Zenon DEF Alike
  <2>2. CASE k \notin 1 .. n2
    <3>1. e[k] = k + 2
      BY <1>4, <1>7, <2>2
    <3>2. PICK y : y = k - n2
      OBVIOUS
    <3>3. y \in 1 .. m2 /\ y + 1 \in 1 .. m /\ k = n2 + y /\ k + 2 = n + (y + 1)
      BY <1>4, <2>2, <3>2
    <3>4. r[k] = t[y]
      BY <1>3, <3>3, Zenon DEF HasParts
    <3>5. q[k + 2] = s[y + 1] /\ k + 2 \in 1 .. n + m
      BY <1>1, <3>3, Zenon DEF HasParts
    <3>6. t[y] = s[y + 1]
      BY <1>3, <3>3, Zenon DEF IsTail, HasParts
    <3> QED
      BY <3>1, <3>4, <3>5, <3>6, Zenon DEF Alike
  <2> QED
    BY <2>1, <2>2, Zenon
<1>11. \A j, k \in 1 .. n2 + m2 : j < k => e[j] < e[k]
  BY <1>4, <1>7
<1>12. \A i \in 1 .. n + m : (\A k \in 1 .. n2 + m2 : e[k] # i) => i = p \/ i = n + 1
  <2> TAKE i \in 1 .. n + m
  <2>1. CASE i < p
    <3>1. i \in 1 .. n2 + m2 /\ e[i] = i
      BY <1>4, <1>7, <2>1
    <3> QED
      BY <3>1, Zenon
  <2>2. CASE ~ (i < p) /\ i # p /\ i \in 1 .. n
    <3>1. i - 1 \in 1 .. n2 + m2 /\ e[i - 1] = i
      BY <1>4, <1>7, <2>2
    <3> QED
      BY <3>1, Zenon
  <2>3. CASE i \notin 1 .. n /\ i # n + 1
    <3>1. i - 2 \in 1 .. n2 + m2 /\ e[i - 2] = i
      BY <1>4, <1>7, <2>3
    <3> QED
      BY <3>1, Zenon
  <2> QED
    BY <2>1, <2>2, <2>3, Zenon
<1>13. q[n + 1] = s[1] /\ n + 1 \in 1 .. n + m /\ n + 1 > p
  <2>1. 1 \in 1 .. m /\ n + 1 > p
    BY <1>4
  <2> QED
    BY <1>1, <2>1, Zenon DEF HasParts
<1>14. ASSUME NEW k \in 1 .. n2 + m2, IsJoin(r[k]), r[k].from = s[1].from
       PROVE  n + 1 < e[k]
  <2>1. CASE k \in 1 .. n2
    <3>1. u[e[k]].id = u[p].id
      BY <1>9, <1>14, <2>1, Zenon
    <3>2. e[k] \in DOMAIN u /\ e[k] # p
      BY <1>1, <1>8, <2>1, Zenon DEF HasParts
    <3> QED
      BY <3>1, <3>2, Zenon
  <2>2. CASE k \notin 1 .. n2
    BY <1>4, <1>7, <2>2
  <2> QED
    BY <2>1, <2>2, Zenon
<1>15. ~ IsLeave(q[p]) /\ ~ IsJoin(s[1]) /\ q[p].from = s[1].from
  <2>1. \A x : IsLeave(x) => ~ IsJoin(x)
    BY DEF IsLeave, IsJoin
  <2> QED
    BY <1>1, <1>4, <2>1, Zenon DEF HasParts
<1>16. IsThinned(q, r, e)
  <2>1. \A k \in DOMAIN r : e[k] \in DOMAIN q /\ Alike(r[k], q[e[k]])
    BY <1>5, <1>10, Zenon
  <2>2. \A j, k \in DOMAIN r : j < k => e[j] < e[k]
    BY <1>5, <1>11, Zenon
  <2>3. ASSUME NEW i \in DOMAIN q, IsLeave(q[i]), \A k \in DOMAIN r : e[k] # i,
               NEW k \in DOMAIN r, IsJoin(r[k]), r[k].from = q[i].from
        PROVE  i < e[k]
    <3>1. i = n + 1
      BY <1>5, <1>12, <1>15, <2>3, Zenon
    <3> QED
      BY <1>5, <1>13, <1>14, <2>3, <3>1, Zenon
  <2> QED
    BY <2>1, <2>2, <2>3, Zenon DEF IsThinned
<1>17. ASSUME NEW c, NEW i, i \in Stays(q, c), \A k \in DOMAIN r : e[k] # i
       PROVE  FALSE
  <2>1. /\ i \in 1 .. n + m /\ IsJoin(q[i]) /\ q[i].from = c
        /\ \A j \in 1 .. n + m : j > i /\ IsLeave(q[j]) => q[j].from # c
    BY <1>5, <1>17, Zenon DEF Stays
  <2>2. i = p
    BY <1>5, <1>12, <1>13, <1>15, <1>17, <2>1, Zenon
  <2> QED
    BY <1>13, <1>15, <2>1, <2>2, Zenon
<1>18. IsSeq(q) /\ IsSeq(r)
  BY Zenon DEF IsHistory
<1> QED
  <2>1. AllStay(q, r, e)
    BY <1>17, Zenon DEF AllStay
  <2> QED
    BY <1>16, <1>18, <2>1, ThinnedIsKept, Zenon

-----------------------------------------------------------------------------
(***************************************************************************)
(* The slots.                                                              *)
(***************************************************************************)

\* The slots of c get these values, the others remain.
SlotsSet(c, client, server_, session, accepted) ==
  /\ LinkType'
  /\ \A d \in Client : d # c => link'[d] = link[d]
  /\ link'[c].client = client /\ link'[c].server = server_
  /\ link'[c].session = session /\ link'[c].accepted = accepted

\* Every step changes the slots of one client at most.
LEMMA LinkSteps ==
  ASSUME LinkType, NEW c \in Client
  PROVE  /\ ClientConnect(c) => SlotsSet(c, "connecting", link[c].server, link[c].session + 1, link[c].accepted)
         /\ ClientDisconnects(c) => SlotsSet(c, "closing", link[c].server, link[c].session, link[c].accepted)
         /\ ClientExits(c) => SlotsSet(c, "gone", link[c].server, link[c].session, link[c].accepted)
         /\ Greet(c) => SlotsSet(c, "greeted", "pending", link[c].session, link[c].session)
         /\ Establish(c) => SlotsSet(c, "up", "awaited", link[c].session, link[c].accepted)
         /\ Accept(c) => SlotsSet(c, link[c].client, "up", link[c].session, link[c].accepted)
         /\ ClientResets(c) => SlotsSet(c, "free", link[c].server, link[c].session, link[c].accepted)
         /\ ServerResets(c) => SlotsSet(c, link[c].client, "free", link[c].session, link[c].accepted)
<1>0. link[c] \in Slots
  BY Zenon DEF LinkType
<1> USE DEF ClientState, ServerState
<1>1. ClientConnect(c) => SlotsSet(c, "connecting", link[c].server, link[c].session + 1, link[c].accepted)
  BY <1>0, SMT DEF LinkType, Slots, ClientState, ServerState, SlotsSet, ClientConnect
<1>2. ClientDisconnects(c) => SlotsSet(c, "closing", link[c].server, link[c].session, link[c].accepted)
  <2>1. ClientDisconnects(c) => link' = [link EXCEPT ![c].client = "closing"]
    BY Zenon DEF ClientDisconnects
  <2>2. ASSUME link' = [link EXCEPT ![c].client = "closing"]
        PROVE  SlotsSet(c, "closing", link[c].server, link[c].session, link[c].accepted)
    BY <1>0, <2>2, SMT DEF LinkType, Slots, SlotsSet
  <2> QED
    BY <2>1, <2>2, Zenon
<1>3. ClientExits(c) => SlotsSet(c, "gone", link[c].server, link[c].session, link[c].accepted)
  <2>1. ClientExits(c) => link' = [link EXCEPT ![c].client = "gone"]
    BY Zenon DEF ClientExits
  <2>2. ASSUME link' = [link EXCEPT ![c].client = "gone"]
        PROVE  SlotsSet(c, "gone", link[c].server, link[c].session, link[c].accepted)
    BY <1>0, <2>2, SMT DEF LinkType, Slots, SlotsSet
  <2> QED
    BY <2>1, <2>2, Zenon
<1>4. Greet(c) => SlotsSet(c, "greeted", "pending", link[c].session, link[c].session)
  BY <1>0, SMT DEF LinkType, Slots, ClientState, ServerState, SlotsSet, Greet
<1>5. Establish(c) => SlotsSet(c, "up", "awaited", link[c].session, link[c].accepted)
  BY <1>0, SMT DEF LinkType, Slots, ClientState, ServerState, SlotsSet, Establish
<1>6. Accept(c) => SlotsSet(c, link[c].client, "up", link[c].session, link[c].accepted)
  <2>1. Accept(c) => link' = [link EXCEPT ![c].server = "up"]
    BY Zenon DEF Accept
  <2>2. ASSUME link' = [link EXCEPT ![c].server = "up"]
        PROVE  SlotsSet(c, link[c].client, "up", link[c].session, link[c].accepted)
    BY <1>0, <2>2, SMT DEF LinkType, Slots, SlotsSet
  <2> QED
    BY <2>1, <2>2, Zenon
<1>7. ClientResets(c) => SlotsSet(c, "free", link[c].server, link[c].session, link[c].accepted)
  <2>1. ClientResets(c) => link' = [link EXCEPT ![c].client = "free"]
    BY Zenon DEF ClientResets
  <2>2. ASSUME link' = [link EXCEPT ![c].client = "free"]
        PROVE  SlotsSet(c, "free", link[c].server, link[c].session, link[c].accepted)
    BY <1>0, <2>2, SMT DEF LinkType, Slots, SlotsSet
  <2> QED
    BY <2>1, <2>2, Zenon
<1>8. ServerResets(c) => SlotsSet(c, link[c].client, "free", link[c].session, link[c].accepted)
  <2>1. ServerResets(c) => link' = [link EXCEPT ![c].server = "free"]
    BY Zenon DEF ServerResets
  <2>2. ASSUME link' = [link EXCEPT ![c].server = "free"]
        PROVE  SlotsSet(c, link[c].client, "free", link[c].session, link[c].accepted)
    BY <1>0, <2>2, SMT DEF LinkType, Slots, SlotsSet
  <2> QED
    BY <2>1, <2>2, Zenon
<1> QED
  BY <1>1, <1>2, <1>3, <1>4, <1>5, <1>6, <1>7, <1>8, Zenon

-----------------------------------------------------------------------------
(***************************************************************************)
(* The inductive invariant about the users.                                *)
(***************************************************************************)

\* What the steps below have in common: one place of a function is replaced.
LEMMA OnePlace ==
  ASSUME NEW S, NEW f, f = [p \in S |-> f[p]], NEW p \in S, NEW x, NEW g, g = [f EXCEPT ![p] = x]
  PROVE  g = [a \in S |-> g[a]] /\ g[p] = x /\ \A a \in S : a # p => g[a] = f[a]
<1>1. DOMAIN f = S
  BY Zenon
<1>2. g = [a \in S |-> IF a = p THEN x ELSE f[a]]
  BY <1>1
<1> QED
  BY <1>2

\* The history, by position.
LEMMA HistoryNow ==
  ASSUME UsersInv
  PROVE  IsHistory(m_users, inbox[Server], History) /\ IsSeq(History)
<1>1. IsHistory(m_users, inbox[Server], History)
  BY HistoryIs, Zenon DEF UsersInv, History
<1> QED
  BY <1>1, Zenon DEF IsHistory

\* What UsersInv says of the slots is not disturbed.
SlotKept(c) ==
  /\ link'[c].server = "up" <=> link[c].server = "up"
  /\ link[c].server = "up" => link'[c].accepted = link[c].accepted
  /\ held # <<>> => /\ link'[c].accepted = link[c].accepted
                    /\ link[c].server = "free" => link'[c].server = "free"

\* A step that the server's inbox and list do not notice.
LEMMA QuietUsers ==
  ASSUME UsersInv, LinkType', inbox' = [p \in Process |-> inbox'[p]],
         inbox'[Server] = inbox[Server], UNCHANGED <<m_users, log, held>>,
         \A c \in Client : SlotKept(c)
  PROVE  UsersInv'
<1>1. m_users' = m_users /\ log' = log /\ held' = held
  OBVIOUS
<1>2. History' = History
  BY <1>1, Zenon DEF History
<1>3. SaidByNick'
  BY <1>1, Zenon DEF UsersInv, SaidByNick
<1>4. ASSUME NEW c \in Client
      PROVE  Follows(History, c)'
  <2>1. PICK q : q = History /\ Follows(q, c)
    BY <1>4, Zenon DEF UsersInv
  <2>2. SlotKept(c)
    BY Zenon
  <2> QED
    BY <1>2, <2>1, <2>2, Zenon DEF Follows, SlotKept
<1>5. held' = <<>> \/ (held' = <<held'[1]>> /\ HeldOK(held[1])')
  <2>1. CASE held = <<>>
    BY <1>1, <2>1, Zenon
  <2>2. CASE held # <<>> /\ held = <<held[1]>> /\ HeldOK(held[1])
    <3>1. PICK m : m = held[1]
      BY Zenon
    <3>2. SlotKept(m.from) /\ HeldOK(m)
      BY <2>2, <3>1, Zenon DEF HeldOK
    <3>3. HeldOK(held[1])'
      BY <1>1, <2>2, <3>1, <3>2, Zenon DEF HeldOK, SlotKept
    <3> QED
      BY <1>1, <2>2, <3>3, Zenon
  <2> QED
    BY <2>1, <2>2, Zenon DEF UsersInv
<1>6. Alternates(History)'
  <2>1. Alternates(History)
    BY Zenon DEF UsersInv
  <2> QED
    BY <1>2, <2>1, Zenon
<1>7. IsSeq(m_users)' /\ IsSeq(inbox[Server])' /\ IsSeq(log)'
  <2>1. IsSeq(m_users) /\ IsSeq(inbox[Server]) /\ IsSeq(log)
    BY Zenon DEF UsersInv
  <2> QED
    BY <1>1, <2>1, Zenon
<1>8. \A k \in DOMAIN m_users' : IsUser(m_users'[k])
  BY <1>1, Zenon DEF UsersInv
<1> QED
  BY <1>3, <1>4, <1>5, <1>6, <1>7, <1>8, Zenon DEF UsersInv

\* A notice or a message joins the inbox.
LEMMA PostedHistory ==
  ASSUME UsersInv, NEW m, Post(Server, m), m_users' = m_users
  PROVE  /\ inbox' = [p \in Process |-> inbox'[p]] /\ IsSeq(inbox'[Server])
         /\ IsSeq(History) /\ IsAppend(History, m, History')
<1>1. Server \in Process /\ inbox' = [inbox EXCEPT ![Server] = Append(inbox[Server], m)]
  BY DEF Process, Post
<1>2. inbox' = [p \in Process |-> inbox'[p]] /\ inbox'[Server] = Append(inbox[Server], m)
  BY <1>1, OnePlace, Zenon DEF UsersInv
<1>3. PICK u, s, t, q, r : /\ u = m_users /\ s = inbox[Server] /\ t = Append(s, m)
                           /\ q = History /\ r = History'
  BY Zenon
<1>4. IsSeq(u) /\ IsSeq(s) /\ IsAppend(s, m, t) /\ IsHistory(u, s, q)
  BY <1>3, HistoryNow, Appended, Zenon DEF UsersInv
<1>5. IsSeq(t) /\ r = Joining(u) \o t
  BY <1>2, <1>3, <1>4, Zenon DEF IsAppend, History
<1>6. IsHistory(u, t, r)
  BY <1>4, <1>5, HistoryIs, Zenon
<1>7. q = Joining(u) \o s /\ IsSeq(q) /\ IsSeq(r)
  BY <1>3, <1>4, <1>6, Zenon DEF History, IsHistory
<1>8. PICK j : j = Joining(u) /\ IsSeq(j) /\ Len(j) = Len(u)
  <2>1. PICK n \in Nat : n = Len(u) /\ DOMAIN u = 1 .. n
    BY <1>4, SeqFacts, Zenon
  <2>2. PICK j : j = Joining(u)
    BY Zenon
  <2>3. j = [k \in 1 .. n |-> j[k]]
    BY <2>1, <2>2 DEF Joining
  <2> QED
    BY <2>1, <2>2, <2>3, MadeSeq, Zenon
<1>9. IsConcat(j, s, q) /\ IsConcat(j, t, r)
  BY <1>4, <1>5, <1>7, <1>8, Concatenated, Zenon
<1>10. PICK a, b \in Nat : a = Len(j) /\ b = Len(s)
  BY <1>4, <1>8, SeqFacts, Zenon
<1>11. /\ \A k \in 1 .. a + b : k \in 1 .. a \/ \E x \in 1 .. b : k = a + x
       /\ \A x \in 1 .. b : x \in 1 .. b + 1
       /\ b + 1 \in 1 .. b + 1 /\ a + (b + 1) = (a + b) + 1
  <2>1. \A k \in 1 .. a + b : k \in 1 .. a \/ (k - a \in 1 .. b /\ k = a + (k - a))
    OBVIOUS
  <2>2. \A k \in 1 .. a + b : k \in 1 .. a \/ \E x \in 1 .. b : k = a + x
    BY <2>1, Zenon
  <2>3. (\A x \in 1 .. b : x \in 1 .. b + 1) /\ b + 1 \in 1 .. b + 1 /\ a + (b + 1) = (a + b) + 1
    OBVIOUS
  <2> QED
    BY <2>2, <2>3, Zenon
<1>12. /\ Len(q) = a + b /\ Len(r) = a + (b + 1) /\ Len(t) = b + 1
       /\ \A k \in 1 .. a : q[k] = j[k] /\ r[k] = j[k]
       /\ \A x \in 1 .. b : q[a + x] = s[x] /\ t[x] = s[x]
       /\ \A x \in 1 .. b + 1 : r[a + x] = t[x]
       /\ t[b + 1] = m
  <2>1. Len(t) = b + 1 /\ t[b + 1] = m /\ \A x \in 1 .. b : t[x] = s[x]
    BY <1>4, <1>10, Zenon DEF IsAppend
  <2>2. Len(q) = a + b /\ (\A k \in 1 .. a : q[k] = j[k]) /\ \A x \in 1 .. b : q[a + x] = s[x]
    BY <1>9, <1>10, Zenon DEF IsConcat
  <2>3. /\ Len(r) = a + (b + 1) /\ \A k \in 1 .. a : r[k] = j[k]
        /\ \A x \in 1 .. b + 1 : r[a + x] = t[x]
    BY <1>9, <1>10, <2>1, Zenon DEF IsConcat
  <2> QED
    BY <2>1, <2>2, <2>3, Zenon
<1>13. \A k \in 1 .. a + b : r[k] = q[k]
  <2> TAKE k \in 1 .. a + b
  <2>1. CASE k \in 1 .. a
    BY <1>12, <2>1, Zenon
  <2>2. CASE \E x \in 1 .. b : k = a + x
    <3>1. PICK x \in 1 .. b : k = a + x
      BY <2>2, Zenon
    <3>2. r[a + x] = t[x] /\ q[a + x] = s[x] /\ t[x] = s[x]
      BY <1>11, <1>12, Zenon
    <3> QED
      BY <3>1, <3>2, Zenon
  <2> QED
    BY <1>11, <2>1, <2>2, Zenon
<1>14. IsAppend(q, m, r)
  <2>1. Len(q) = a + b /\ Len(r) = (a + b) + 1
    BY <1>11, <1>12, Zenon
  <2>2. r[(a + b) + 1] = m
    <3>1. r[a + (b + 1)] = t[b + 1] /\ t[b + 1] = m
      BY <1>11, <1>12, Zenon
    <3> QED
      BY <1>11, <3>1, Zenon
  <2> QED
    BY <1>7, <1>13, <2>1, <2>2, Zenon DEF IsAppend
<1> QED
  BY <1>2, <1>3, <1>5, <1>7, <1>14, Zenon

\* Who is not concerned by what joined the inbox follows the history as before.
LEMMA OthersFollow ==
  ASSUME NEW q, IsSeq(q), NEW m, NEW r, IsAppend(q, m, r), NEW c, Follows(q, c),
         Stays(r, c) = Stays(q, c), link'[c].server = link[c].server,
         link'[c].accepted = link[c].accepted
  PROVE  Follows(r, c)'
<1>1. \A k \in Stays(q, c) : r[k] = q[k]
  <2>1. \A k \in Stays(q, c) : k \in 1 .. Len(q)
    BY SeqFacts, Zenon DEF Stays
  <2> QED
    BY <2>1, Zenon DEF IsAppend
<1> QED
  BY <1>1, Zenon DEF Follows

\* What remains to be shown of such a step.
LEMMA PostedUsers ==
  ASSUME UsersInv, LinkType', NEW m, Post(Server, m), UNCHANGED <<m_users, log>>,
         NEW r, r = History', Alternates(r), \A c \in Client : Follows(r, c)',
         held' = <<>> \/ (held' = <<held'[1]>> /\ HeldOK(held[1])')
  PROVE  UsersInv'
<1>1. m_users' = m_users /\ log' = log
  OBVIOUS
<1>2. inbox' = [p \in Process |-> inbox'[p]] /\ IsSeq(inbox[Server])'
  BY <1>1, PostedHistory, Zenon
<1>3. SaidByNick'
  BY <1>1, Zenon DEF UsersInv, SaidByNick
<1>4. ASSUME NEW c \in Client
      PROVE  Follows(History, c)'
  <2>1. Follows(r, c)'
    BY <1>4, Zenon
  <2> QED
    BY <2>1, Zenon DEF Follows
<1>5. IsSeq(m_users)' /\ IsSeq(log)'
  <2>1. IsSeq(m_users) /\ IsSeq(log)
    BY Zenon DEF UsersInv
  <2> QED
    BY <1>1, <2>1, Zenon
<1>6. Alternates(History)'
  BY Zenon
<1>7. \A k \in DOMAIN m_users' : IsUser(m_users'[k])
  BY <1>1, Zenon DEF UsersInv
<1> QED
  BY <1>2, <1>3, <1>4, <1>5, <1>6, <1>7, Zenon DEF UsersInv

\* The notice that a client joins is posted when its slot is up (Accept).
LEMMA UsersAccept ==
  ASSUME UsersInv, NEW c \in Client, Accept(c)
  PROVE  UsersInv'
<1>1. PICK m : /\ m = [kind |-> "incoming", from |-> c, session |-> link[c].accepted]
               /\ Post(Server, m)
  BY Zenon DEF Accept
<1>2. /\ m_users' = m_users /\ log' = log /\ held = <<>> /\ held' = <<>>
      /\ UNCHANGED <<m_users, log>> /\ link[c].server = "awaited"
  BY Zenon DEF Accept, server
<1>3. m.from = c /\ m.session = link[c].accepted /\ IsJoin(m)
  BY <1>1 DEF IsJoin
<1>4. PICK q, r : q = History /\ r = History' /\ IsSeq(q) /\ IsAppend(q, m, r)
  BY <1>1, <1>2, PostedHistory, Zenon
<1>5. Alternates(q) /\ \A d \in Client : Follows(q, d)
  BY <1>4, Zenon DEF UsersInv
<1>6. Stays(q, c) = {}
  <2>1. link[c].server # "up"
    BY <1>2
  <2> QED
    BY <1>5, <2>1, Zenon DEF Follows
<1>7. Alternates(r) /\ Len(q) + 1 \in Stays(r, c) /\ r[Len(q) + 1] = m
  BY <1>3, <1>4, <1>5, <1>6, JoinAtEnd, Zenon
<1>8. SlotsSet(c, link[c].client, "up", link[c].session, link[c].accepted)
  BY LinkSteps, Zenon DEF UsersInv
<1>9. ASSUME NEW d \in Client
      PROVE  Follows(r, d)'
  <2>1. CASE d = c
    BY <1>3, <1>7, <1>8, <2>1, Zenon DEF Follows, SlotsSet
  <2>2. CASE d # c
    <3>0. d # m.from
      BY <1>3, <2>2, Zenon
    <3>1. Stays(r, d) = Stays(q, d)
      BY <1>4, <3>0, OthersStay, SMT
    <3>2. link'[d] = link[d] /\ Follows(q, d)
      BY <1>5, <1>8, <2>2, Zenon DEF SlotsSet
    <3>3. link'[d].server = link[d].server /\ link'[d].accepted = link[d].accepted
      BY <3>2, Zenon
    <3> QED
      BY <1>4, <3>1, <3>2, <3>3, OthersFollow, Zenon
  <2> QED
    BY <2>1, <2>2, Zenon
<1>10. LinkType'
  BY <1>8, Zenon DEF SlotsSet
<1> QED
  BY <1>1, <1>2, <1>4, <1>7, <1>9, <1>10, PostedUsers, Zenon

\* The slot is reset, and the notice of it joins the inbox: ServerDrops and
\* TakeDisconnect.
LEMMA UsersReset ==
  ASSUME UsersInv, NEW c \in Client, link[c].server = "up", ServerResets(c),
         UNCHANGED <<m_users, log, held>>,
         NEW m, Post(Server, m), IsLeave(m), m.from = c, m.session = link[c].accepted
  PROVE  UsersInv'
<1>1. m_users' = m_users /\ UNCHANGED <<m_users, log>> /\ held' = held
  BY Zenon
<1>2. PICK q, r : q = History /\ r = History' /\ IsSeq(q) /\ IsAppend(q, m, r)
  BY <1>1, PostedHistory, Zenon
<1>3. Alternates(q) /\ \A d \in Client : Follows(q, d)
  BY <1>2, Zenon DEF UsersInv
<1>4. ~ IsJoin(m)
  BY DEF IsJoin, IsLeave
<1>5. \A k \in Stays(q, c) : q[k].session = m.session
  BY <1>2, <1>3, OneStays, Zenon DEF Follows
<1>6. Alternates(r)
  BY <1>2, <1>3, <1>4, <1>5, MessageAtEnd, Zenon
<1>7. SlotsSet(c, link[c].client, "free", link[c].session, link[c].accepted)
  BY LinkSteps, Zenon DEF UsersInv
<1>8. ASSUME NEW d \in Client
      PROVE  Follows(r, d)'
  <2>1. CASE d = c
    <3>1. Stays(r, c) = {}
      BY <1>2, LeaveAtEnd, Zenon
    <3>2. link'[c].server # "up"
      BY <1>7 DEF SlotsSet
    <3> QED
      BY <2>1, <3>1, <3>2, Zenon DEF Follows
  <2>2. CASE d # c
    <3>0. d # m.from
      BY <2>2, Zenon
    <3>1. Stays(r, d) = Stays(q, d)
      BY <1>2, <3>0, OthersStay, SMT
    <3>2. link'[d] = link[d] /\ Follows(q, d)
      BY <1>3, <1>7, <2>2, Zenon DEF SlotsSet
    <3>3. link'[d].server = link[d].server /\ link'[d].accepted = link[d].accepted
      BY <3>2, Zenon
    <3> QED
      BY <1>2, <3>1, <3>2, <3>3, OthersFollow, Zenon
  <2> QED
    BY <2>1, <2>2, Zenon
<1>9. held' = <<>> \/ (held' = <<held'[1]>> /\ HeldOK(held[1])')
  <2>1. CASE held = <<>>
    BY <1>1, <2>1, Zenon
  <2>2. CASE held = <<held[1]>> /\ HeldOK(held[1])
    <3>1. PICK x : x = held[1] /\ HeldOK(x)
      BY <2>2, Zenon
    <3>2. /\ x.from \in Client /\ x.session = link'[x.from].accepted
          /\ link'[x.from].server \in {"up", "free"} /\ IsOrdered(x)
      <4>1. CASE x.from = c
        BY <1>7, <3>1, <4>1, Zenon DEF SlotsSet, HeldOK
      <4>2. CASE x.from # c
        BY <1>7, <3>1, <4>2, Zenon DEF SlotsSet, HeldOK
      <4> QED
        BY <4>1, <4>2, Zenon
    <3>3. HeldOK(held[1])'
      BY <1>1, <3>1, <3>2, Zenon DEF HeldOK
    <3> QED
      BY <1>1, <2>2, <3>3, Zenon
  <2> QED
    BY <2>1, <2>2, Zenon DEF UsersInv
<1>10. LinkType'
  BY <1>7, Zenon DEF SlotsSet
<1> QED
  BY <1>1, <1>2, <1>6, <1>8, <1>9, <1>10, PostedUsers, Zenon

\* The socket thread pushes the message it holds, which may come after the notice
\* that its sender left (HandleIncomingPacket).
LEMMA UsersHandleIncoming ==
  ASSUME UsersInv, HandleIncomingPacket
  PROVE  UsersInv'
<1>1. /\ held # <<>> /\ Post(Server, Head(held)) /\ held' = <<>> /\ link' = link
      /\ m_users' = m_users /\ UNCHANGED <<m_users, log>>
  BY Zenon DEF HandleIncomingPacket, server
<1>2. PICK m : m = held[1] /\ held = <<m>> /\ HeldOK(m)
  BY <1>1, Zenon DEF UsersInv
<1>3. Head(held) = m
  BY <1>2
<1>4. Post(Server, m)
  BY <1>1, <1>3, Zenon
<1>5. PICK q, r : q = History /\ r = History' /\ IsSeq(q) /\ IsAppend(q, m, r)
  BY <1>1, <1>4, PostedHistory, Zenon
<1>6. Alternates(q) /\ \A d \in Client : Follows(q, d)
  BY <1>5, Zenon DEF UsersInv
<1>7. ~ IsJoin(m) /\ ~ IsLeave(m)
  BY <1>2 DEF HeldOK, IsOrdered, IsJoin, IsLeave
<1>8. \A k \in Stays(q, m.from) : q[k].session = m.session
  <2>1. m.from \in Client /\ m.session = link[m.from].accepted /\ Follows(q, m.from)
    BY <1>2, <1>6, Zenon DEF HeldOK
  <2> QED
    BY <1>5, <1>6, <2>1, OneStays, Zenon DEF Follows
<1>9. Alternates(r)
  BY <1>5, <1>6, <1>7, <1>8, MessageAtEnd, Zenon
<1>10. ASSUME NEW d \in Client
       PROVE  Follows(r, d)'
  <2>1. Stays(r, d) = Stays(q, d)
    BY <1>5, <1>7, TalkKeepsStays, Zenon
  <2>2. link'[d].server = link[d].server /\ link'[d].accepted = link[d].accepted /\ Follows(q, d)
    BY <1>1, <1>6, Zenon
  <2> QED
    BY <1>5, <2>1, <2>2, OthersFollow, Zenon
<1>11. LinkType'
  BY <1>1, Zenon DEF UsersInv, LinkType
<1> QED
  BY <1>1, <1>4, <1>5, <1>9, <1>10, <1>11, PostedUsers, Zenon

\* The socket thread takes a message of the slot's connection (TakeMessage).
LEMMA UsersTakeMessage ==
  ASSUME UsersInv, NEW c \in Client, TakeMessage(c)
  PROVE  UsersInv'
<1>1. PICK i : /\ MayTake(c, i) /\ IsOrdered(up[c][i])
               /\ held' = IF channels = 1 THEN held
                          ELSE <<[kind |-> up[c][i].kind, from |-> c,
                                  session |-> up[c][i].session, id |-> up[c][i].id]>>
               /\ UNCHANGED <<link, inbox, m_users, log>>
  BY Zenon DEF TakeMessage
<1>2. link' = link /\ inbox' = inbox /\ m_users' = m_users /\ log' = log
  BY <1>1, Zenon
<1>3. held = <<>> /\ link[c].server = "up" /\ up[c][i].session = link[c].accepted
  BY <1>1, Zenon DEF MayTake, Takeable
<1>4. held' = <<>> \/ (held' = <<held'[1]>> /\ HeldOK(held[1])')
  <2>1. CASE channels = 1
    BY <1>1, <1>3, <2>1, Zenon
  <2>2. CASE channels # 1
    <3>1. PICK k, s, d : k = up[c][i].kind /\ s = up[c][i].session /\ d = up[c][i].id
      BY Zenon
    <3>2. PICK m : m = [kind |-> k, from |-> c, session |-> s, id |-> d]
      BY Zenon
    <3>3. m.kind = k /\ m.from = c /\ m.session = s
      BY <3>2
    <3>4. held' = <<m>>
      BY <1>1, <2>2, <3>1, <3>2, Zenon
    <3>5. held'[1] = m
      BY <3>4
    <3>6. IsOrdered(m)
      BY <1>1, <3>1, <3>3, Zenon DEF IsOrdered
    <3>7. HeldOK(held[1])'
      BY <1>2, <1>3, <3>1, <3>3, <3>5, <3>6, Zenon DEF HeldOK
    <3> QED
      BY <3>4, <3>5, <3>7, Zenon
  <2> QED
    BY <2>1, <2>2, Zenon
<1>5. PICK q : q = History /\ q = History'
  BY <1>2, Zenon DEF History
<1>6. Alternates(History)'
  <2>1. Alternates(q)
    BY <1>5, Zenon DEF UsersInv
  <2> QED
    BY <1>5, <2>1, Zenon
<1>7. ASSUME NEW d \in Client
      PROVE  Follows(History, d)'
  <2>1. Follows(q, d)
    BY <1>5, <1>7, Zenon DEF UsersInv
  <2> QED
    BY <1>2, <1>5, <2>1, Zenon DEF Follows
<1>8. SaidByNick'
  BY <1>2, Zenon DEF UsersInv, SaidByNick
<1>9. IsSeq(m_users)' /\ IsSeq(inbox[Server])' /\ IsSeq(log)' /\ LinkType'
  <2>1. IsSeq(m_users) /\ IsSeq(inbox[Server]) /\ IsSeq(log) /\ LinkType
    BY Zenon DEF UsersInv
  <2> QED
    BY <1>2, <2>1, Zenon DEF LinkType
<1>10. (\A k \in DOMAIN m_users' : IsUser(m_users'[k])) /\ inbox' = [p \in Process |-> inbox'[p]]
  BY <1>2, Zenon DEF UsersInv
<1> QED
  BY <1>4, <1>6, <1>7, <1>8, <1>9, <1>10, Zenon DEF UsersInv

-----------------------------------------------------------------------------
(***************************************************************************)
(* A turn of the server's loop.                                            *)
(***************************************************************************)

\* A set of positions has a first one.
LEMMA FirstExists ==
  ASSUME NEW S, S \subseteq Nat, S # {}
  PROVE  \E m \in S : \A k \in S : m <= k
<1>1. PICK m \in S : \A k \in S : ~ (<<k, m>> \in OpToRel(<, Nat))
  BY WFMin, NatLessThanWellFounded, Zenon
<1>2. \A k \in S : k \in Nat /\ m \in Nat /\ ~ (k < m)
  BY <1>1, Zenon DEF OpToRel
<1> QED
  BY <1>2

\* The search among the users finds a user with the id, if there is one.
LEMMA FindUserFinds ==
  ASSUME NEW c, IsSeq(m_users)
  PROVE  \/ FindUser(c) = 0 /\ \A k \in DOMAIN m_users : m_users[k].id # c
         \/ FindUser(c) # 0 /\ FindUser(c) \in DOMAIN m_users /\ m_users[FindUser(c)].id = c
<1>1. PICK n \in Nat : DOMAIN m_users = 1 .. n
  BY SeqFacts, Zenon
<1>2. PICK S : S = {k \in DOMAIN m_users : m_users[k].id = c}
  BY Zenon
<1>3. FindUser(c) = IF S = {} THEN 0 ELSE Min(S)
  BY <1>2, Zenon DEF FindUser
<1>4. CASE S = {}
  BY <1>2, <1>3, <1>4, Zenon
<1>5. CASE S # {}
  <2>1. S \subseteq Nat /\ \A k \in S : k # 0
    BY <1>1, <1>2
  <2>2. PICK m \in S : \A k \in S : m <= k
    BY <1>5, <2>1, FirstExists, Zenon
  <2>3. Min(S) \in S
    BY <2>2, Zenon DEF Min
  <2> QED
    BY <1>2, <1>3, <1>5, <2>1, <2>3, Zenon
<1> QED
  BY <1>4, <1>5, Zenon

\* The log grows by an entry that has the right nick, if it is a message.
LEMMA SaidGrows ==
  ASSUME IsSeq(log), SaidByNick, NEW e, log' = Append(log, e),
         e.kind \in {"said", "renamed"} => e.nick[1] = e.on.from /\ e.nick[2] = e.on.session
  PROVE  IsSeq(log') /\ SaidByNick'
<1>1. PICK s, t : s = log /\ t = log' /\ IsSeq(s) /\ IsAppend(s, e, t)
  BY Appended, Zenon
<1>2. PICK n \in Nat : n = Len(s) /\ DOMAIN s = 1 .. n /\ DOMAIN t = 1 .. n + 1
  BY <1>1, SeqFacts, Zenon DEF IsAppend
<1>3. \A k \in 1 .. n + 1 : k \in 1 .. n \/ k = n + 1
  OBVIOUS
<1>4. \A k \in 1 .. n + 1 : k \in 1 .. n \/ t[k] = e
  BY <1>1, <1>2, <1>3, Zenon DEF IsAppend
<1>5. \A k \in 1 .. n : t[k] = s[k]
  BY <1>1, <1>2, Zenon DEF IsAppend
<1>6. \A k \in 1 .. n + 1 : t[k].kind \in {"said", "renamed"} =>
        t[k].nick[1] = t[k].on.from /\ t[k].nick[2] = t[k].on.session
  <2>1. \A k \in 1 .. n : s[k].kind \in {"said", "renamed"} =>
          s[k].nick[1] = s[k].on.from /\ s[k].nick[2] = s[k].on.session
    BY <1>1, <1>2, Zenon DEF SaidByNick
  <2> QED
    BY <1>4, <1>5, <2>1, Zenon
<1> QED
  BY <1>1, <1>2, <1>6, Zenon DEF SaidByNick, IsAppend

\* What remains to be shown of a turn.
LEMMA TurnUsers ==
  ASSUME UsersInv, inbox' = DequeueIncoming(Server), inbox[Server] # <<>>,
         UNCHANGED <<link, held>>, IsSeq(m_users'),
         \A k \in DOMAIN m_users' : IsUser(m_users'[k]), IsSeq(log'), SaidByNick',
         NEW q, NEW r, q = History, r = History', Kept(q, r)
  PROVE  UsersInv'
<1>1. link' = link /\ held' = held
  OBVIOUS
<1>2. Server \in Process /\ inbox' = [inbox EXCEPT ![Server] = Tail(inbox[Server])]
  BY DEF DequeueIncoming, Process
<1>3. inbox' = [p \in Process |-> inbox'[p]] /\ inbox'[Server] = Tail(inbox[Server])
  BY <1>2, OnePlace, Zenon DEF UsersInv
<1>4. IsSeq(inbox[Server])'
  <2>1. PICK s : s = inbox[Server] /\ IsSeq(s) /\ s # <<>>
    BY Zenon DEF UsersInv
  <2> QED
    BY <1>3, <2>1, Tailed, Zenon DEF IsTail
<1>5. Alternates(q) /\ \A c \in Client : Follows(q, c)
  BY Zenon DEF UsersInv
<1>6. Alternates(r) /\ \A c \in Client : Follows(r, c)
  BY <1>5, Zenon DEF Kept
<1>7. ASSUME NEW c \in Client
      PROVE  Follows(History, c)'
  BY <1>1, <1>6, <1>7, Zenon DEF Follows
<1>8. held' = <<>> \/ (held' = <<held'[1]>> /\ HeldOK(held[1])')
  BY <1>1, Zenon DEF UsersInv, HeldOK
<1>9. LinkType'
  BY <1>1, Zenon DEF UsersInv, LinkType
<1>10. Alternates(History)'
  BY <1>6, Zenon
<1> QED
  BY <1>3, <1>4, <1>7, <1>8, <1>9, <1>10, Zenon DEF UsersInv

\* The first message and the rest, in a state with something to read.
IsTurn(u, s, q, v, t, r) ==
  /\ u = m_users /\ s = inbox[Server] /\ q = History
  /\ v = m_users' /\ t = inbox'[Server] /\ r = History'
  /\ IsSeq(u) /\ IsSeq(s) /\ s # <<>> /\ IsHistory(u, s, q) /\ Alternates(q)
  /\ IsTail(s, t) /\ (IsSeq(v) => IsHistory(v, t, r)) /\ Receive(Server) = s[1]

\* The history before and after a turn of the server.
LEMMA TurnParts ==
  ASSUME UsersInv, inbox' = DequeueIncoming(Server), inbox[Server] # <<>>
  PROVE  \E u, s, q, v, t, r : IsTurn(u, s, q, v, t, r)
<1>1. PICK u, s, q, v, t, r :
        /\ u = m_users /\ s = inbox[Server] /\ q = History
        /\ v = m_users' /\ t = inbox'[Server] /\ r = History'
  BY Zenon
<1>2. Server \in Process /\ inbox' = [inbox EXCEPT ![Server] = Tail(inbox[Server])]
  BY DEF DequeueIncoming, Process
<1>3. inbox'[Server] = Tail(inbox[Server])
  BY <1>2, OnePlace, Zenon DEF UsersInv
<1>4. IsSeq(u) /\ IsSeq(s) /\ s # <<>> /\ Alternates(q) /\ t = Tail(s)
  BY <1>1, <1>3, Zenon DEF UsersInv
<1>5. IsTail(s, t) /\ Head(s) = s[1]
  BY <1>4, Tailed, Zenon
<1>6. IsHistory(u, s, q)
  BY <1>1, HistoryNow, Zenon
<1>7. IsSeq(v) => IsHistory(v, t, r)
  <2>1. IsSeq(t) /\ r = Joining(v) \o t
    BY <1>1, <1>5, Zenon DEF History, IsTail
  <2> QED
    BY <2>1, HistoryIs, Zenon
<1>8. IsTurn(u, s, q, v, t, r)
  BY <1>1, <1>4, <1>5, <1>6, <1>7, Zenon DEF IsTurn, Receive
<1> QED
  BY <1>8, Zenon

\* The notice that a client joins becomes the user at the end of the list.
LEMMA UsersJoins ==
  ASSUME UsersInv, inbox' = DequeueIncoming(Server), inbox[Server] # <<>>,
         UNCHANGED <<link, held>>, UserJoins(Receive(Server))
  PROVE  UsersInv'
<1>1. PICK u, s, q, v, t, r : IsTurn(u, s, q, v, t, r)
  BY TurnParts, Zenon
<1>2. PICK m, c, a : m = s[1] /\ c = m.from /\ a = m.session
  BY Zenon
<1>3. /\ m.kind = "incoming" /\ v = Append(u, [id |-> c, nick |-> <<c, a, 0>>])
      /\ log' = Append(log, [kind |-> "joined", nick |-> <<c, a, 0>>, on |-> m])
  BY <1>1, <1>2, Zenon DEF UserJoins, Entry, IsTurn
<1>4. PICK x, e : x = [id |-> c, nick |-> <<c, a, 0>>] /\ e = [kind |-> "joined", nick |-> <<c, a, 0>>, on |-> m]
  BY Zenon
<1>5. x.id = c /\ x.nick[2] = a /\ IsUser(x)
  BY ONLY <1>4 DEF IsUser
<1>6. e.kind \notin {"said", "renamed"}
  BY ONLY <1>4
<1>7. IsSeq(log') /\ SaidByNick'
  BY <1>3, <1>4, <1>6, SaidGrows, Zenon DEF UsersInv
<1>8. IsAppend(u, x, v) /\ IsSeq(v)
  <2>1. IsSeq(u) /\ v = Append(u, x)
    BY <1>1, <1>3, <1>4, Zenon DEF IsTurn
  <2>2. IsAppend(u, x, v)
    BY <2>1, Appended, Zenon
  <2> QED
    BY <2>2, Zenon DEF IsAppend
<1>9. Kept(q, r)
  <2>1. IsHistory(v, t, r) /\ IsTail(s, t) /\ IsHistory(u, s, q) /\ s # <<>> /\ IsSeq(u) /\ IsSeq(s)
    BY <1>1, <1>8, Zenon DEF IsTurn
  <2>2. IsJoin(s[1]) /\ x.id = s[1].from /\ x.nick[2] = s[1].session
    BY <1>2, <1>3, <1>5, Zenon DEF IsJoin
  <2> QED
    BY <1>8, <2>1, <2>2, ReadJoin, Zenon
<1>10. \A k \in DOMAIN v : IsUser(v[k])
  <2>1. PICK n \in Nat : n = Len(u) /\ DOMAIN u = 1 .. n /\ DOMAIN v = 1 .. n + 1
    <3>1. IsSeq(u) /\ IsSeq(v) /\ Len(v) = Len(u) + 1
      BY <1>1, <1>8, Zenon DEF IsTurn, IsAppend
    <3> QED
      BY <3>1, SeqFacts, Zenon
  <2>2. \A k \in 1 .. n + 1 : k \in 1 .. n \/ k = n + 1
    OBVIOUS
  <2>3. \A k \in 1 .. n : IsUser(u[k])
    BY <1>1, <2>1, Zenon DEF UsersInv, IsTurn
  <2>4. (\A k \in 1 .. n : v[k] = u[k]) /\ v[n + 1] = x
    BY <1>8, <2>1, Zenon DEF IsAppend
  <2> QED
    BY <1>5, <2>1, <2>2, <2>3, <2>4, Zenon
<1>11. IsSeq(m_users') /\ (\A k \in DOMAIN m_users' : IsUser(m_users'[k])) /\ q = History /\ r = History'
  BY <1>1, <1>8, <1>10, Zenon DEF IsTurn
<1> QED
  BY <1>7, <1>9, <1>11, TurnUsers, Zenon

\* A message that leaves the list as it is, up to nicks.
LEMMA UsersTalk ==
  ASSUME UsersInv, inbox' = DequeueIncoming(Server), inbox[Server] # <<>>,
         UNCHANGED <<link, held>>, IsSeq(log'), SaidByNick',
         ~ IsJoin(Receive(Server)),
         IsLeave(Receive(Server)) => \A k \in DOMAIN m_users : m_users[k].id # Receive(Server).from,
         IsSeq(m_users'), Len(m_users') = Len(m_users),
         \A k \in 1 .. Len(m_users) :
           /\ IsUser(m_users'[k])
           /\ m_users'[k].id = m_users[k].id /\ m_users'[k].nick[2] = m_users[k].nick[2]
  PROVE  UsersInv'
<1>1. PICK u, s, q, v, t, r : IsTurn(u, s, q, v, t, r)
  BY TurnParts, Zenon
<1>2. /\ IsSeq(u) /\ IsSeq(s) /\ s # <<>> /\ IsHistory(u, s, q)
      /\ IsSeq(v) /\ IsTail(s, t) /\ IsHistory(v, t, r) /\ Len(v) = Len(u)
  BY <1>1, Zenon DEF IsTurn
<1>3. ~ IsJoin(s[1]) /\ (IsLeave(s[1]) => \A k \in DOMAIN u : u[k].id # s[1].from)
  BY <1>1, Zenon DEF IsTurn
<1>4. \A k \in 1 .. Len(u) : v[k].id = u[k].id /\ v[k].nick[2] = u[k].nick[2]
  BY <1>1, Zenon DEF IsTurn
<1>5. Kept(q, r)
  BY <1>2, <1>3, <1>4, ReadTalk, Zenon
<1>6. \A k \in DOMAIN m_users' : IsUser(m_users'[k])
  <2>1. DOMAIN m_users' = 1 .. Len(m_users)
    BY SeqFacts, Zenon
  <2> QED
    BY <2>1, Zenon
<1>7. q = History /\ r = History'
  BY <1>1, Zenon DEF IsTurn
<1> QED
  BY <1>5, <1>6, <1>7, TurnUsers, Zenon

\* The notice that a client left takes the one user with that id off the list.
LEMMA UsersLeaves ==
  ASSUME UsersInv, inbox' = DequeueIncoming(Server), inbox[Server] # <<>>,
         UNCHANGED <<link, held>>, UserLeaves(Receive(Server))
  PROVE  UsersInv'
<1>1. PICK m, p : m = Receive(Server) /\ p = FindUser(m.from)
  BY Zenon
<1>2. /\ m.kind \in {"lost", "disconnected"}
      /\ log' = IF p = 0 THEN log ELSE Append(log, Entry("left", m_users[p].nick, m))
      /\ m_users' = IF p = 0 THEN m_users ELSE Erase(m_users, p)
  BY <1>1, Zenon DEF UserLeaves, Left
<1>3. IsLeave(m) /\ ~ IsJoin(m)
  BY <1>2 DEF IsLeave, IsJoin
<1>4. IsSeq(m_users) /\ IsSeq(log) /\ SaidByNick /\ \A k \in DOMAIN m_users : IsUser(m_users[k])
  BY Zenon DEF UsersInv
<1>5. CASE p = 0
  <2>1. m_users' = m_users /\ log' = log
    BY <1>2, <1>5, Zenon
  <2>2. SaidByNick'
    BY <1>4, <2>1, Zenon DEF SaidByNick
  <2>3. \A k \in DOMAIN m_users : m_users[k].id # m.from
    BY <1>1, <1>4, <1>5, FindUserFinds, Zenon
  <2>4. DOMAIN m_users = 1 .. Len(m_users)
    BY <1>4, SeqFacts, Zenon
  <2>5. /\ IsSeq(m_users') /\ IsSeq(log') /\ Len(m_users') = Len(m_users)
        /\ \A k \in 1 .. Len(m_users) :
             /\ IsUser(m_users'[k])
             /\ m_users'[k].id = m_users[k].id /\ m_users'[k].nick[2] = m_users[k].nick[2]
    BY <1>4, <2>1, <2>4, Zenon
  <2> QED
    BY <1>1, <1>3, <2>2, <2>3, <2>5, UsersTalk, Zenon
<1>6. CASE p # 0
  <2>1. p \in DOMAIN m_users /\ m_users[p].id = m.from
    BY <1>1, <1>4, <1>6, FindUserFinds, Zenon
  <2>2. PICK u, s, q, v, t, r : IsTurn(u, s, q, v, t, r)
    BY TurnParts, Zenon
  <2>3. IsSeq(u) /\ p \in DOMAIN u /\ v = Erase(u, p) /\ u[p].id = s[1].from /\ s[1] = m
    BY <1>1, <1>2, <1>6, <2>1, <2>2, Zenon DEF IsTurn
  <2>4. IsRemoval(u, p, v)
    BY <2>3, Removed, Zenon
  <2>5. IsSeq(v)
    BY <2>4, Zenon DEF IsRemoval
  <2>6. IsSeq(s) /\ s # <<>> /\ IsHistory(u, s, q) /\ Alternates(q) /\ IsTail(s, t) /\ IsHistory(v, t, r)
    BY <2>2, <2>5, Zenon DEF IsTurn
  <2>7. \A k \in DOMAIN u : u[k].id = u[p].id => k = p
    BY <2>3, <2>6, UsersOnce, Zenon
  <2>8. Kept(q, r)
    BY <1>3, <2>3, <2>4, <2>6, <2>7, ReadLeave, Zenon
  <2>9. IsSeq(log') /\ SaidByNick'
    <3>1. PICK a : a = m_users[p].nick
      BY Zenon
    <3>2. PICK e : e = [kind |-> "left", nick |-> a, on |-> m]
      BY Zenon
    <3>3. e.kind \notin {"said", "renamed"}
      BY ONLY <3>2
    <3>4. log' = Append(log, e)
      BY <1>2, <1>6, <3>1, <3>2, Zenon DEF Entry
    <3> QED
      BY <1>4, <3>3, <3>4, SaidGrows, Zenon
  <2>10. \A k \in DOMAIN v : IsUser(v[k])
    <3>1. PICK n, l \in Nat : n = Len(v) /\ DOMAIN v = 1 .. n /\ l = Len(u) /\ DOMAIN u = 1 .. l
      BY <2>3, <2>5, SeqFacts, Zenon
    <3>2. l = n + 1
      BY <2>4, <3>1, Zenon DEF IsRemoval
    <3>3. ASSUME NEW k \in 1 .. n
          PROVE  IsUser(v[k])
      <4>1. PICK i : i = IF k < p THEN k ELSE k + 1
        BY Zenon
      <4>2. i \in 1 .. l
        BY <3>2, <4>1
      <4>3. v[k] = u[i]
        BY <2>4, <3>1, <4>1, Zenon DEF IsRemoval
      <4> QED
        BY <1>4, <2>2, <3>1, <4>2, <4>3, Zenon DEF IsTurn
    <3> QED
      BY <3>1, <3>3, Zenon
  <2>11. IsSeq(m_users') /\ (\A k \in DOMAIN m_users' : IsUser(m_users'[k])) /\ q = History /\ r = History'
    BY <2>2, <2>5, <2>10, Zenon DEF IsTurn
  <2> QED
    BY <2>8, <2>9, <2>11, TurnUsers, Zenon
<1> QED
  BY <1>5, <1>6, Zenon

\* What a user says or is called is entered under the nick of the connection.
LEMMA SpokenNick ==
  ASSUME UsersInv, inbox' = DequeueIncoming(Server), inbox[Server] # <<>>,
         NEW p \in DOMAIN m_users, m_users[p].id = Receive(Server).from
  PROVE  /\ m_users[p].nick[1] = Receive(Server).from
         /\ m_users[p].nick[2] = Receive(Server).session
<1>1. PICK u, s, q, v, t, r : IsTurn(u, s, q, v, t, r)
  BY TurnParts, Zenon
<1>2. IsSeq(u) /\ IsSeq(s) /\ s # <<>> /\ IsHistory(u, s, q) /\ Alternates(q)
  BY <1>1, Zenon DEF IsTurn
<1>3. p \in DOMAIN u /\ s[1].from = u[p].id
  BY <1>1, Zenon DEF IsTurn
<1>4. s[1].session = u[p].nick[2]
  BY <1>2, <1>3, UsersOnce, Zenon
<1>5. IsUser(m_users[p])
  BY Zenon DEF UsersInv
<1> QED
  BY <1>1, <1>4, <1>5, Zenon DEF IsTurn, IsUser

\* One of the users gets another nick.
LEMMA Renamed ==
  ASSUME NEW n \in Nat, NEW u, u = [k \in 1 .. n |-> u[k]], NEW p \in 1 .. n,
         NEW a, NEW b, u[p] = [id |-> a, nick |-> b], NEW d, NEW v,
         v = [u EXCEPT ![p].nick = <<@[1], @[2], d>>]
  PROVE  /\ v = [k \in 1 .. n |-> v[k]]
         /\ v[p] = [id |-> a, nick |-> <<b[1], b[2], d>>]
         /\ \A k \in 1 .. n : k # p => v[k] = u[k]
<1>1. PICK x : x = <<b[1], b[2], d>>
  BY Zenon
<1>2. u[p].nick = b
  OBVIOUS
<1>3. v = [u EXCEPT ![p] = [id |-> a, nick |-> x]]
  <2>1. PICK y : y = u[p]
    BY Zenon
  <2>2. [y EXCEPT !.nick = x] = [id |-> a, nick |-> x]
    BY <2>1
  <2>3. v = [u EXCEPT ![p] = [y EXCEPT !.nick = x]]
    BY <1>1, <1>2, <2>1, Zenon
  <2> QED
    BY <2>2, <2>3, Zenon
<1> QED
  BY <1>1, <1>3, OnePlace, Zenon

\* A message changes nicks at most.
LEMMA UsersSpeaks ==
  ASSUME UsersInv, inbox' = DequeueIncoming(Server), inbox[Server] # <<>>,
         UNCHANGED <<link, held>>, UserSpeaks(Receive(Server))
  PROVE  UsersInv'
<1>1. PICK m, p : m = Receive(Server) /\ p = FindUser(m.from)
  BY Zenon
<1>2. m.kind \in {"text", "nick", "list"}
  BY <1>1, Zenon DEF UserSpeaks
<1>3. ~ IsLeave(m) /\ ~ IsJoin(m)
  BY <1>2 DEF IsLeave, IsJoin
<1>4. IsSeq(m_users) /\ IsSeq(log) /\ SaidByNick /\ \A k \in DOMAIN m_users : IsUser(m_users[k])
  BY Zenon DEF UsersInv
<1>5. PICK n \in Nat : n = Len(m_users) /\ DOMAIN m_users = 1 .. n /\ m_users = [k \in 1 .. n |-> m_users[k]]
  BY <1>4, SeqFacts, Zenon
<1>6. ASSUME m_users' = m_users
      PROVE  /\ IsSeq(m_users') /\ Len(m_users') = Len(m_users)
             /\ \A k \in 1 .. Len(m_users) :
                  /\ IsUser(m_users'[k])
                  /\ m_users'[k].id = m_users[k].id /\ m_users'[k].nick[2] = m_users[k].nick[2]
  BY <1>4, <1>5, <1>6, Zenon
<1>7. ASSUME m_users' = m_users, log' = log
      PROVE  UsersInv'
  <2>1. SaidByNick' /\ IsSeq(log')
    BY <1>4, <1>7, Zenon DEF SaidByNick
  <2> QED
    BY <1>1, <1>3, <1>6, <1>7, <2>1, UsersTalk, Zenon
<1>8. CASE p = 0
  <2>1. m_users' = m_users /\ log' = log
    BY <1>1, <1>8, Zenon DEF UserSpeaks, GetUserByPeerID
  <2> QED
    BY <1>7, <2>1, Zenon
<1>9. CASE p # 0
  <2>1. p \in DOMAIN m_users /\ m_users[p].id = m.from
    BY <1>1, <1>4, <1>9, FindUserFinds, Zenon
  <2>2. HandleChatMessage(p, m)
    BY <1>1, <1>9, Zenon DEF UserSpeaks, GetUserByPeerID
  <2>3. PICK a : a = m_users[p].nick /\ a[1] = m.from /\ a[2] = m.session
    BY <1>1, <2>1, SpokenNick, Zenon
  <2>4. ASSUME NEW kind, log' = Append(log, Entry(kind, m_users[p].nick, m))
        PROVE  IsSeq(log') /\ SaidByNick'
    <3>1. PICK e : e = [kind |-> kind, nick |-> a, on |-> m]
      BY Zenon
    <3>2. e.nick = a /\ e.on = m
      BY ONLY <3>1
    <3>3. e.nick[1] = e.on.from /\ e.nick[2] = e.on.session
      BY <2>3, <3>2, Zenon
    <3>4. log' = Append(log, e)
      BY <2>3, <2>4, <3>1, Zenon DEF Entry
    <3> QED
      BY <1>4, <3>3, <3>4, SaidGrows, Zenon
  <2>5. CASE log' = Append(log, Entry("said", m_users[p].nick, m)) /\ m_users' = m_users
    BY <1>1, <1>3, <1>6, <2>4, <2>5, UsersTalk, Zenon
  <2>6. CASE /\ log' = Append(log, Entry("renamed", m_users[p].nick, m))
             /\ m_users' = [m_users EXCEPT ![p].nick = <<@[1], @[2], m.id>>]
    <3>1. PICK u, v, d : u = m_users /\ v = m_users' /\ d = m.id
      BY Zenon
    <3>2. u[p] = [id |-> u[p].id, nick |-> u[p].nick] /\ u[p].nick[1] = u[p].id
      BY <1>4, <2>1, <3>1, Zenon DEF IsUser
    <3>3. PICK i, b : i = u[p].id /\ b = u[p].nick /\ u[p] = [id |-> i, nick |-> b] /\ b[1] = i
      BY <3>2, Zenon
    <3>4. v = [u EXCEPT ![p].nick = <<@[1], @[2], d>>] /\ p \in 1 .. n /\ u = [k \in 1 .. n |-> u[k]]
      BY <1>5, <2>1, <2>6, <3>1, Zenon
    <3>5. /\ v = [k \in 1 .. n |-> v[k]]
          /\ v[p] = [id |-> i, nick |-> <<b[1], b[2], d>>]
          /\ \A k \in 1 .. n : k # p => v[k] = u[k]
      BY <3>3, <3>4, Renamed, Zenon
    <3>6. IsSeq(v) /\ Len(v) = n
      BY <3>5, MadeSeq, Zenon
    <3>7. IsUser(v[p]) /\ v[p].id = i /\ v[p].nick[2] = b[2]
      <4>1. PICK x, y : x = v[p] /\ y = <<b[1], b[2], d>> /\ x = [id |-> i, nick |-> y]
        BY <3>5, Zenon
      <4>2. y[1] = b[1] /\ y[2] = b[2]
        BY ONLY <4>1
      <4>3. x.id = i /\ x.nick = y
        BY ONLY <4>1
      <4> QED
        BY <3>3, <4>1, <4>2, <4>3, Zenon DEF IsUser
    <3>8. \A k \in 1 .. n : IsUser(v[k]) /\ v[k].id = u[k].id /\ v[k].nick[2] = u[k].nick[2]
      <4> TAKE k \in 1 .. n
      <4>1. CASE k = p
        BY <3>3, <3>7, <4>1, Zenon
      <4>2. CASE k # p
        BY <1>4, <1>5, <3>1, <3>5, <4>2, Zenon
      <4> QED
        BY <4>1, <4>2, Zenon
    <3>9. /\ IsSeq(m_users') /\ Len(m_users') = Len(m_users)
          /\ \A k \in 1 .. Len(m_users) :
               /\ IsUser(m_users'[k])
               /\ m_users'[k].id = m_users[k].id /\ m_users'[k].nick[2] = m_users[k].nick[2]
      BY <1>5, <3>1, <3>6, <3>8, Zenon
    <3>10. IsSeq(log') /\ SaidByNick'
      BY <2>4, <2>6, Zenon
    <3> QED
      BY <1>1, <1>3, <3>9, <3>10, UsersTalk, Zenon
  <2>7. CASE m_users' = m_users /\ log' = log
    BY <1>7, <2>7, Zenon
  <2> QED
    BY <2>2, <2>5, <2>6, <2>7, Zenon DEF HandleChatMessage
<1> QED
  BY <1>8, <1>9, Zenon

-----------------------------------------------------------------------------
(***************************************************************************)
(* The users, in every step.                                               *)
(***************************************************************************)

\* Other slots than the one of a step are kept.
LEMMA SlotsKept ==
  ASSUME NEW c \in Client, NEW client, NEW server_, NEW session, NEW accepted,
         SlotsSet(c, client, server_, session, accepted),
         server_ = "up" <=> link[c].server = "up",
         link[c].server = "up" => accepted = link[c].accepted,
         held # <<>> => accepted = link[c].accepted /\ (link[c].server = "free" => server_ = "free")
  PROVE  LinkType' /\ \A d \in Client : SlotKept(d)
<1>1. SlotKept(c)
  BY Zenon DEF SlotsSet, SlotKept
<1>2. ASSUME NEW d \in Client, d # c
      PROVE  SlotKept(d)
  <2>1. link'[d] = link[d]
    BY <1>2, Zenon DEF SlotsSet
  <2> QED
    BY <2>1, Zenon DEF SlotKept
<1> QED
  BY <1>1, <1>2, Zenon DEF SlotsSet

\* The inbox of a client is not the server's.
LEMMA InboxElsewhere ==
  ASSUME UsersInv, NEW c \in Client, NEW x, inbox' = [inbox EXCEPT ![c] = x]
  PROVE  /\ inbox' = [p \in Process |-> inbox'[p]] /\ inbox'[Server] = inbox[Server]
         /\ inbox'[c] = x /\ \A d \in Client : d # c => inbox'[d] = inbox[d]
<1>1. c \in Process /\ Server \in Process /\ c # Server /\ \A d \in Client : d \in Process
  BY ServerAssumption DEF Process
<1>2. inbox = [p \in Process |-> inbox[p]]
  BY Zenon DEF UsersInv
<1> QED
  BY <1>1, <1>2, OnePlace, Zenon

\* No step of a client touches the server's inbox or list.
LEMMA UsersClientSteps ==
  ASSUME UsersInv, NEW c \in Client
  PROVE  /\ ClientConnect(c) \/ ClientDisconnects(c) \/ ClientFails(c) => UsersInv'
         /\ ClientExits(c) \/ ClientDrops(c) => UsersInv'
         /\ ClientTick(c) \/ ClientTakes(c) \/ ClientSends(c) => UsersInv'
<1>1. LinkType /\ inbox = [p \in Process |-> inbox[p]]
  BY Zenon DEF UsersInv
<1>2. ASSUME NEW x, NEW s, SlotsSet(c, x, link[c].server, s, link[c].accepted)
      PROVE  LinkType' /\ \A d \in Client : SlotKept(d)
  BY <1>2, SlotsKept, Zenon
<1>3. ASSUME link' = link
      PROVE  LinkType' /\ \A d \in Client : SlotKept(d)
  BY <1>1, <1>3, Zenon DEF LinkType, SlotKept
<1>4. ASSUME inbox' = inbox
      PROVE  inbox' = [p \in Process |-> inbox'[p]] /\ inbox'[Server] = inbox[Server]
  BY <1>1, <1>4, Zenon
<1>5. ASSUME ClientConnect(c) \/ ClientDisconnects(c) \/ ClientFails(c)
      PROVE  UsersInv'
  <2>1. UNCHANGED <<m_users, log, held>> /\ inbox' = inbox
    BY <1>5, Zenon DEF ClientConnect, ClientDisconnects, ClientFails, server
  <2>2. \E x, s : SlotsSet(c, x, link[c].server, s, link[c].accepted)
    BY <1>1, <1>5, LinkSteps, Zenon DEF ClientFails
  <2> QED
    BY <1>2, <1>4, <2>1, <2>2, QuietUsers, Zenon
<1>6. ASSUME ClientExits(c) \/ ClientDrops(c)
      PROVE  UsersInv'
  <2>1. UNCHANGED <<m_users, log, held>> /\ \E x : inbox' = [inbox EXCEPT ![c] = x]
    BY <1>6, Zenon DEF ClientExits, ClientDrops, Post, server
  <2>2. \E x, s : SlotsSet(c, x, link[c].server, s, link[c].accepted)
    BY <1>1, <1>6, LinkSteps, Zenon DEF ClientDrops
  <2> QED
    BY <1>2, <2>1, <2>2, InboxElsewhere, QuietUsers, Zenon
<1>7. ASSUME ClientTick(c) \/ ClientTakes(c)
      PROVE  UsersInv'
  <2>1. UNCHANGED <<m_users, log, held>> /\ link' = link /\ \E x : inbox' = [inbox EXCEPT ![c] = x]
    BY <1>7, Zenon DEF ClientTick, ClientTakes, Post, server
  <2> QED
    BY <1>3, <2>1, InboxElsewhere, QuietUsers, Zenon
<1>8. ASSUME ClientSends(c)
      PROVE  UsersInv'
  <2>1. UNCHANGED <<m_users, log, held>> /\ link' = link /\ inbox' = inbox
    BY <1>8, Zenon DEF ClientSends, server
  <2> QED
    BY <1>3, <1>4, <2>1, QuietUsers, Zenon
<1> QED
  BY <1>5, <1>6, <1>7, <1>8, Zenon

\* The steps of the server's threads, apart from Accept and TakeMessage.
LEMMA UsersServerSteps ==
  ASSUME UsersInv, NEW c \in Client
  PROVE  /\ Greet(c) => UsersInv'
         /\ Establish(c) => UsersInv'
         /\ ServerForgets(c) => UsersInv'
         /\ ServerDrops(c) => UsersInv'
         /\ TakeDisconnect(c) => UsersInv'
         /\ TakeSignal(c) => UsersInv'
<1>1. LinkType /\ inbox = [p \in Process |-> inbox[p]]
  BY Zenon DEF UsersInv
<1>2. ASSUME Greet(c)
      PROVE  UsersInv'
  <2>1. UNCHANGED <<m_users, log, held>> /\ inbox' = inbox /\ held = <<>> /\ link[c].server = "free"
    BY <1>2, Zenon DEF Greet, server
  <2>2. SlotsSet(c, "greeted", "pending", link[c].session, link[c].session)
    BY <1>1, <1>2, LinkSteps, Zenon
  <2>3. link[c].server # "up" /\ "pending" # "up"
    BY <2>1
  <2>4. LinkType' /\ \A d \in Client : SlotKept(d)
    BY <2>1, <2>2, <2>3, SlotsKept, Zenon
  <2>5. inbox' = [p \in Process |-> inbox'[p]] /\ inbox'[Server] = inbox[Server]
    BY <1>1, <2>1, Zenon
  <2> QED
    BY <2>1, <2>4, <2>5, QuietUsers, Zenon
<1>3. ASSUME Establish(c)
      PROVE  UsersInv'
  <2>1. /\ UNCHANGED <<m_users, log, held>> /\ link[c].server = "pending"
        /\ \E x : inbox' = [inbox EXCEPT ![c] = x]
    BY <1>3, Zenon DEF Establish, Post, server
  <2>2. SlotsSet(c, "up", "awaited", link[c].session, link[c].accepted)
    BY <1>1, <1>3, LinkSteps, Zenon
  <2>3. link[c].server # "up" /\ "awaited" # "up" /\ link[c].server # "free"
    BY <2>1
  <2>4. LinkType' /\ \A d \in Client : SlotKept(d)
    BY <2>2, <2>3, SlotsKept, Zenon
  <2> QED
    BY <2>1, <2>4, InboxElsewhere, QuietUsers, Zenon
<1>4. ASSUME ServerForgets(c)
      PROVE  UsersInv'
  <2>1. /\ UNCHANGED <<m_users, log, held>> /\ link[c].server \in {"pending", "awaited"}
        /\ inbox' = inbox /\ ServerResets(c)
    BY <1>4, Zenon DEF ServerForgets, server
  <2>2. SlotsSet(c, link[c].client, "free", link[c].session, link[c].accepted)
    BY <1>1, <2>1, LinkSteps, Zenon
  <2>3. link[c].server # "up" /\ "free" # "up"
    BY <2>1
  <2>4. LinkType' /\ \A d \in Client : SlotKept(d)
    BY <2>2, <2>3, SlotsKept, Zenon
  <2>5. inbox' = [p \in Process |-> inbox'[p]] /\ inbox'[Server] = inbox[Server]
    BY <1>1, <2>1, Zenon
  <2> QED
    BY <2>1, <2>4, <2>5, QuietUsers, Zenon
<1>5. ASSUME NEW kind \in {"lost", "disconnected"}, link[c].server = "up", ServerResets(c),
             UNCHANGED <<m_users, log, held>>,
             Post(Server, [kind |-> kind, from |-> c, session |-> link[c].accepted])
      PROVE  UsersInv'
  <2>1. PICK a : a = link[c].accepted
    BY Zenon
  <2>2. PICK m : m = [kind |-> kind, from |-> c, session |-> a]
    BY Zenon
  <2>3. m.from = c /\ m.session = a /\ m.kind = kind
    BY ONLY <2>2
  <2>4. IsLeave(m)
    BY <2>3, Zenon DEF IsLeave
  <2>5. Post(Server, m)
    BY <1>5, <2>1, <2>2, Zenon
  <2> QED
    BY <1>5, <2>1, <2>3, <2>4, <2>5, UsersReset, Zenon
<1>6. ASSUME ServerDrops(c)
      PROVE  UsersInv'
  <2>1. /\ link[c].server = "up" /\ ServerResets(c) /\ UNCHANGED <<m_users, log, held>>
        /\ Post(Server, [kind |-> "lost", from |-> c, session |-> link[c].accepted])
    BY <1>6, Zenon DEF ServerDrops, server
  <2> QED
    BY <1>5, <2>1, Zenon
<1>7. ASSUME TakeDisconnect(c)
      PROVE  UsersInv'
  <2>1. /\ link[c].server = "up" /\ ServerResets(c) /\ UNCHANGED <<m_users, log, held>>
        /\ Post(Server, [kind |-> "disconnected", from |-> c, session |-> link[c].accepted])
    BY <1>7, Zenon DEF TakeDisconnect, MayTake, server
  <2> QED
    BY <1>5, <2>1, Zenon
<1>8. ASSUME TakeSignal(c)
      PROVE  UsersInv'
  <2>1. UNCHANGED <<m_users, log, held>> /\ link' = link /\ inbox' = inbox
    BY <1>8, Zenon DEF TakeSignal, server
  <2>2. LinkType' /\ \A d \in Client : SlotKept(d)
    BY <1>1, <2>1, Zenon DEF LinkType, SlotKept
  <2>3. inbox' = [p \in Process |-> inbox'[p]] /\ inbox'[Server] = inbox[Server]
    BY <1>1, <2>1, Zenon
  <2> QED
    BY <2>1, <2>2, <2>3, QuietUsers, Zenon
<1> QED
  BY <1>2, <1>3, <1>4, <1>6, <1>7, <1>8, Zenon

\* Nobody is connected, and nothing has been posted, at first.
LEMMA UsersInit == Init => UsersInv
<1> SUFFICES ASSUME Init PROVE UsersInv
  OBVIOUS
<1>1. /\ m_users = <<>> /\ log = <<>> /\ held = <<>> /\ inbox = [p \in Process |-> <<>>]
      /\ link = [c \in Client |-> NoLink]
  BY Zenon DEF Init
<1>2. Server \in Process /\ inbox[Server] = <<>> /\ inbox = [p \in Process |-> inbox[p]]
  BY <1>1 DEF Process
<1>3. LinkType /\ \A c \in Client : link[c].server # "up"
  BY <1>1 DEF LinkType, Slots, ClientState, ServerState, NoLink
<1>4. IsSeq(m_users) /\ IsSeq(inbox[Server]) /\ IsSeq(log) /\ Len(m_users) = 0 /\ Len(inbox[Server]) = 0
  BY <1>1, <1>2, EmptyIsSeq, Zenon
<1>5. PICK q : q = History /\ IsHistory(m_users, inbox[Server], q)
  BY <1>4, HistoryIs, Zenon DEF History
<1>6. DOMAIN q = {} /\ DOMAIN m_users = {} /\ DOMAIN log = {}
  <2>1. IsSeq(q) /\ Len(q) = 0 + 0
    BY <1>4, <1>5, Zenon DEF IsHistory
  <2>2. DOMAIN q = 1 .. 0 + 0
    BY <2>1, SeqFacts, Zenon
  <2> QED
    BY <1>1, <2>2
<1>7. Alternates(q) /\ (\A c \in Client : Follows(q, c)) /\ SaidByNick
  BY <1>3, <1>6, Zenon DEF Alternates, Follows, Stays, SaidByNick
<1> QED
  BY <1>1, <1>2, <1>3, <1>4, <1>5, <1>6, <1>7, Zenon DEF UsersInv

\* Every step keeps UsersInv.
LEMMA UsersNext == UsersInv /\ [Next]_vars => UsersInv'
<1> SUFFICES ASSUME UsersInv, [Next]_vars PROVE UsersInv'
  BY Zenon
<1>1. LinkType /\ inbox = [p \in Process |-> inbox[p]]
  BY Zenon DEF UsersInv
<1>2. ASSUME UNCHANGED <<link, held, inbox, m_users, log>>
      PROVE  UsersInv'
  <2>1. UNCHANGED <<m_users, log, held>> /\ link' = link /\ inbox' = inbox
    BY <1>2, Zenon
  <2>2. LinkType' /\ \A d \in Client : SlotKept(d)
    BY <1>1, <2>1, Zenon DEF LinkType, SlotKept
  <2>3. inbox' = [p \in Process |-> inbox'[p]] /\ inbox'[Server] = inbox[Server]
    BY <1>1, <2>1, Zenon
  <2> QED
    BY <2>1, <2>2, <2>3, QuietUsers, Zenon
<1>3. CASE RpcRegisterSlot
  BY <1>2, <1>3, Zenon DEF RpcRegisterSlot
<1>4. CASE MakeChannel
  BY <1>2, <1>4, Zenon DEF MakeChannel
<1>5. CASE ServerTick
  <2>1. /\ inbox' = DequeueIncoming(Server) /\ inbox[Server] # <<>> /\ UNCHANGED <<link, held>>
        /\ \/ UserJoins(Receive(Server)) \/ UserLeaves(Receive(Server))
           \/ UserSpeaks(Receive(Server))
    BY <1>5, Zenon DEF ServerTick
  <2> QED
    BY <2>1, UsersJoins, UsersLeaves, UsersSpeaks, Zenon
<1>6. CASE HandleIncomingPacket
  BY <1>6, UsersHandleIncoming, Zenon
<1>7. ASSUME NEW c \in Client,
             \/ ClientConnect(c) \/ ClientSends(c) \/ ClientDisconnects(c) \/ ClientExits(c)
             \/ ClientTick(c) \/ ClientFails(c) \/ ClientDrops(c) \/ ClientTakes(c)
      PROVE  UsersInv'
  BY <1>7, UsersClientSteps, Zenon
<1>8. ASSUME NEW c \in Client,
             \/ Greet(c) \/ Establish(c) \/ Accept(c) \/ ServerForgets(c) \/ ServerDrops(c)
             \/ TakeMessage(c) \/ TakeSignal(c) \/ TakeDisconnect(c)
      PROVE  UsersInv'
  BY <1>8, UsersServerSteps, UsersAccept, UsersTakeMessage, Zenon
<1>9. CASE UNCHANGED vars
  BY <1>2, <1>9, Zenon DEF vars, server
<1> QED
  BY <1>3, <1>4, <1>5, <1>6, <1>7, <1>8, <1>9, Zenon DEF Next

\* What UsersInv says of the users once all is read.
LEMMA UsersInvGives == UsersInv => UsersFollowNotices /\ SaidByNick
<1> SUFFICES ASSUME UsersInv PROVE UsersFollowNotices
  BY Zenon DEF UsersInv
<1>1. PICK q : q = History /\ IsSeq(q) /\ Alternates(q) /\ \A c \in Client : Follows(q, c)
  BY HistoryNow, Zenon DEF UsersInv
<1>2. PICK u, s : u = m_users /\ s = inbox[Server] /\ IsSeq(u) /\ IsSeq(s) /\ IsHistory(u, s, q)
  BY <1>1, HistoryNow, Zenon DEF UsersInv
<1>3. \A j, k \in DOMAIN u : u[j].id = u[k].id => j = k
  BY <1>1, <1>2, UsersOnce, Zenon
<1>4. ASSUME NEW c \in Client, link[c].server = "up"
      PROVE  \E k \in DOMAIN q : Stays(q, c) = {k}
  <2>1. PICK k \in Stays(q, c) : TRUE
    BY <1>1, <1>4, Zenon DEF Follows
  <2>2. k \in DOMAIN q
    BY <2>1, Zenon DEF Stays
  <2>3. \A j \in Stays(q, c) : j = k
    BY <1>1, <2>1, OneStays, Zenon
  <2>4. Stays(q, c) = {k}
    BY <2>1, <2>3, Zenon
  <2> QED
    BY <2>2, <2>4, Zenon
<1>5. ASSUME NEW c \in Client, link[c].server # "up"
      PROVE  Stays(q, c) = {}
  BY <1>1, <1>5, Zenon DEF Follows
<1> QED
  BY <1>1, <1>2, <1>3, <1>4, <1>5, Zenon DEF UsersFollowNotices

\* For any number of clients and connections: between two messages of a client
\* that belong to different connections the server's inbox has the notice that the
\* client left, whichever thread pushed them (Peer::EnqueueLoopback,
\* HandleIncomingPacket).
THEOREM UsersInvHolds == Spec => []UsersInv
<1> QED
  BY UsersInit, UsersNext, PTL DEF Spec

\* The server's list has everyone who is connected, once, as soon as the notices
\* have been read, and nobody else (ChatServer::Tick).
THEOREM UsersFollowNoticesHolds == Spec => []UsersFollowNotices
<1>1. UsersInv => UsersFollowNotices
  BY UsersInvGives, Zenon
<1> QED
  BY <1>1, UsersInvHolds, PTL

\* What was said is entered under the nick of the connection over which it came
\* (ChatServer::Tick, GetUserByPeerID).
THEOREM SaidByNickHolds == Spec => []SaidByNick
<1>1. UsersInv => SaidByNick
  BY UsersInvGives, Zenon
<1> QED
  BY <1>1, UsersInvHolds, PTL

-----------------------------------------------------------------------------
(***************************************************************************)
(* What a client reads: pieces of sequences.                               *)
(***************************************************************************)

\* Sequences with the same elements are the same.
LEMMA SameSeq ==
  ASSUME NEW s, IsSeq(s), NEW t, IsSeq(t), Len(s) = Len(t), \A k \in 1 .. Len(s) : s[k] = t[k]
  PROVE  s = t
<1>1. PICK n \in Nat : n = Len(s) /\ s = [k \in 1 .. n |-> s[k]] /\ t = [k \in 1 .. n |-> t[k]]
  BY SeqFacts, Zenon
<1> QED
  BY <1>1, Zenon

\* Three sequences after one another.
IsAssoc(a, b, c) ==
  (a \o b) \o c = a \o (b \o c) /\ IsSeq(a \o b) /\ IsSeq((a \o b) \o c)

\* Concatenation is associative.
LEMMA ConcatAssoc ==
  ASSUME NEW a, IsSeq(a), NEW b, IsSeq(b), NEW c, IsSeq(c)
  PROVE  IsAssoc(a, b, c)
<1>1. PICK S : S = {a[k] : k \in DOMAIN a} \cup {b[k] : k \in DOMAIN b} \cup {c[k] : k \in DOMAIN c}
  BY Zenon
<1>2. a \in Seq(S) /\ b \in Seq(S) /\ c \in Seq(S)
  BY <1>1, SeqFacts
<1>3. PICK d, e : d = a \o b /\ e = b \o c
  BY Zenon
<1>4. IsConcat(a, b, d) /\ IsConcat(b, c, e)
  BY <1>3, Concatenated, Zenon
<1>5. IsSeq(d) /\ IsSeq(e)
  BY <1>4, Zenon DEF IsConcat
<1>6. PICK u, v : u = d \o c /\ v = a \o e /\ IsConcat(d, c, u) /\ IsConcat(a, e, v)
  BY <1>5, Concatenated, Zenon
<1>7. PICK x, y, z \in Nat : x = Len(a) /\ y = Len(b) /\ z = Len(c)
  BY SeqFacts, Zenon
<1>8. /\ IsSeq(u) /\ IsSeq(v) /\ Len(d) = x + y /\ Len(e) = y + z
      /\ Len(u) = (x + y) + z /\ Len(v) = x + (y + z)
  BY <1>4, <1>6, <1>7, Zenon DEF IsConcat
<1>9. \A k \in 1 .. (x + y) + z : u[k] = v[k]
  <2>1. /\ \A k \in 1 .. x : d[k] = a[k] /\ v[k] = a[k]
        /\ \A k \in 1 .. y : d[x + k] = b[k] /\ e[k] = b[k]
        /\ \A k \in 1 .. z : e[y + k] = c[k] /\ u[(x + y) + k] = c[k]
        /\ \A k \in 1 .. x + y : u[k] = d[k]
        /\ \A k \in 1 .. y + z : v[x + k] = e[k]
    <3>1. \A k \in 1 .. x : d[k] = a[k] /\ v[k] = a[k]
      <4>1. \A k \in 1 .. x : d[k] = a[k]
        BY <1>4, <1>7, Zenon DEF IsConcat
      <4>2. \A k \in 1 .. x : v[k] = a[k]
        BY <1>6, <1>7, Zenon DEF IsConcat
      <4> QED
        BY <4>1, <4>2, Zenon
    <3>2. \A k \in 1 .. y : d[x + k] = b[k] /\ e[k] = b[k]
      BY <1>4, <1>7, Zenon DEF IsConcat
    <3>3. \A k \in 1 .. z : e[y + k] = c[k] /\ u[(x + y) + k] = c[k]
      <4>1. \A k \in 1 .. z : e[y + k] = c[k]
        BY <1>4, <1>7, Zenon DEF IsConcat
      <4>2. \A k \in 1 .. z : u[(x + y) + k] = c[k]
        BY <1>6, <1>7, <1>8, Zenon DEF IsConcat
      <4> QED
        BY <4>1, <4>2, Zenon
    <3>4. (\A k \in 1 .. x + y : u[k] = d[k]) /\ \A k \in 1 .. y + z : v[x + k] = e[k]
      BY <1>6, <1>7, <1>8, Zenon DEF IsConcat
    <3> QED
      BY <3>1, <3>2, <3>3, <3>4, Zenon
  <2> TAKE k \in 1 .. (x + y) + z
  <2>2. CASE k <= x
    <3>1. k \in 1 .. x /\ k \in 1 .. x + y
      BY <2>2
    <3> QED
      BY <2>1, <3>1, Zenon
  <2>3. CASE x < k /\ k <= x + y
    <3>1. PICK i : i = k - x
      BY Zenon
    <3>2. k \in 1 .. x + y /\ i \in 1 .. y /\ i \in 1 .. y + z /\ k = x + i
      BY <2>3, <3>1
    <3>3. u[k] = d[k] /\ d[x + i] = b[i] /\ e[i] = b[i] /\ v[x + i] = e[i]
      BY <2>1, <3>2, Zenon
    <3> QED
      BY <3>2, <3>3, Zenon
  <2>4. CASE x + y < k
    <3>1. PICK i, j : i = k - (x + y) /\ j = k - x
      BY Zenon
    <3>2. i \in 1 .. z /\ j \in 1 .. y + z /\ j = y + i /\ k = x + j /\ k = (x + y) + i
      BY <2>4, <3>1
    <3>3. e[y + i] = c[i] /\ u[(x + y) + i] = c[i] /\ v[x + j] = e[j]
      BY <2>1, <3>2, Zenon
    <3> QED
      BY <3>2, <3>3, Zenon
  <2>5. k <= x \/ (x < k /\ k <= x + y) \/ x + y < k
    OBVIOUS
  <2> QED
    BY <2>2, <2>3, <2>4, <2>5, Zenon
<1>10. (x + y) + z = x + (y + z)
  OBVIOUS
<1>11. u = v
  BY <1>8, <1>9, <1>10, SameSeq, Zenon
<1> QED
  BY <1>3, <1>5, <1>6, <1>8, <1>11, Zenon DEF IsAssoc

\* Nothing and a single element.
LEMMA SmallSeqs ==
  ASSUME NEW s, IsSeq(s), NEW m
  PROVE  /\ s \o <<>> = s /\ IsSeq(<<>>) /\ IsSeq(<<m>>) /\ Append(s, m) = s \o <<m>>
         /\ Len(<<m>>) = 1 /\ <<m>>[1] = m
<1>1. PICK S : S = {s[k] : k \in DOMAIN s} \cup {m}
  BY Zenon
<1>2. s \in Seq(S) /\ m \in S
  BY <1>1, SeqFacts
<1>3. PICK o : o = <<m>>
  BY Zenon
<1>4. o \in Seq(S) /\ Len(o) = 1 /\ o[1] = m
  BY <1>2, <1>3
<1>5. o = [k \in 1 .. 1 |-> o[k]]
  BY <1>4
<1>6. IsSeq(o)
  BY <1>5, MadeSeq, 1 \in Nat, Zenon
<1>7. s \o <<>> = s
  BY <1>2
<1>8. IsSeq(<<>>)
  BY EmptyIsSeq, Zenon
<1>9. Append(s, m) = s \o o
  BY <1>2, <1>3, <1>4
<1> QED
  BY <1>3, <1>4, <1>6, <1>7, <1>8, <1>9, Zenon

\* The first element and the rest.
LEMMA HeadAndTail ==
  ASSUME NEW s, IsSeq(s), s # <<>>
  PROVE  IsSeq(Tail(s)) /\ <<Head(s)>> \o Tail(s) = s
<1>1. PICK S : S = {s[k] : k \in DOMAIN s}
  BY Zenon
<1>2. s \in Seq(S)
  BY <1>1, Zenon DEF IsSeq
<1>3. <<Head(s)>> \o Tail(s) = s
  BY <1>2
<1> QED
  BY <1>3, Tailed, Zenon DEF IsTail

-----------------------------------------------------------------------------
(***************************************************************************)
(* What a client reads: from one step to the next.                         *)
(***************************************************************************)

\* What is still under way is lost.
IsCut(s, t) == IsSeq(t) /\ Len(t) <= Len(s) /\ \A k \in 1 .. Len(t) : t[k] = s[k]

\* The first part of what is sound is sound.
LEMMA SoundCut ==
  ASSUME NEW s, IsSeq(s), NEW t, IsCut(s, t), NEW N, NEW S, Sound(s, N, S)
  PROVE  Sound(t, N, S)
<1>1. PICK n, l \in Nat : n = Len(s) /\ DOMAIN s = 1 .. n /\ l = Len(t) /\ DOMAIN t = 1 .. l
  BY SeqFacts, Zenon DEF IsCut
<1>2. l <= n
  BY <1>1, Zenon DEF IsCut
<1>3. \A k \in 1 .. l : k \in 1 .. n /\ \A j \in 1 .. n : j < k => j \in 1 .. l
  BY <1>2
<1>4. \A k \in DOMAIN t : t[k] = s[k] /\ k \in DOMAIN s
  BY <1>1, <1>3, Zenon DEF IsCut
<1>5. InOrder(t) /\ \A k \in DOMAIN t : IsDated(t[k], N, S)
  BY <1>4, Zenon DEF Sound, InOrder
<1>6. \A k \in DOMAIN t, j \in DOMAIN s : j < k => j \in DOMAIN t
  BY <1>1, <1>3, Zenon
<1>7. ASSUME NEW i \in DOMAIN t, NEW k \in DOMAIN t, Since(t, i, k)
      PROVE  /\ t[i].n < t[k].n
             /\ \A x \in t[i].n + 1 .. t[k].n - 1 :
                  \E j \in DOMAIN t : i < j /\ j < k /\ IsNews(t[j], t[i].session) /\ t[j].n = x
  <2>1. Since(s, i, k)
    BY <1>4, <1>6, <1>7, Zenon DEF Since
  <2>2. i \in DOMAIN s /\ k \in DOMAIN s /\ t[i] = s[i] /\ t[k] = s[k]
    BY <1>4, <1>7, Zenon
  <2>3. /\ s[i].n < s[k].n
        /\ \A x \in s[i].n + 1 .. s[k].n - 1 :
             \E j \in DOMAIN s : i < j /\ j < k /\ IsNews(s[j], s[i].session) /\ s[j].n = x
    BY <2>1, <2>2, Zenon DEF Sound, WithoutGaps
  <2>4. ASSUME NEW x \in s[i].n + 1 .. s[k].n - 1
        PROVE  \E j \in DOMAIN t : i < j /\ j < k /\ IsNews(t[j], s[i].session) /\ t[j].n = x
    <3>1. PICK j \in DOMAIN s : i < j /\ j < k /\ IsNews(s[j], s[i].session) /\ s[j].n = x
      BY <2>3, <2>4, Zenon
    <3>2. j \in DOMAIN t /\ t[j] = s[j]
      BY <1>4, <1>6, <1>7, <3>1, Zenon
    <3> QED
      BY <3>1, <3>2, Zenon
  <2> QED
    BY <2>2, <2>3, <2>4, Zenon
<1>8. WithoutGaps(t)
  BY <1>7, Zenon DEF WithoutGaps
<1> QED
  BY <1>5, <1>8, Zenon DEF Sound

\* Neither of the log nor a welcome: notices and private answers.
IsNote(m) == m.kind # "log" /\ m.kind # "welcome"

\* The sequence t is s with notes in between; e tells where the elements of s are.
IsPadded(s, t, e) ==
  /\ \A k \in DOMAIN s : e[k] \in DOMAIN t /\ t[e[k]] = s[k]
  /\ \A j, k \in DOMAIN s : j < k <=> e[j] < e[k]
  /\ \A k \in DOMAIN t : IsNote(t[k]) \/ \E j \in DOMAIN s : k = e[j]

\* Notes in between change nothing in what is read of the log.
LEMMA PaddedReads ==
  ASSUME NEW s, NEW t, NEW e, IsPadded(s, t, e)
  PROVE  /\ InOrder(s) => InOrder(t)
         /\ WithoutGaps(s) => WithoutGaps(t)
         /\ \A U, N : UpToDate(s, U, N) => UpToDate(t, U, N)
<1>1. \A k \in DOMAIN s : e[k] \in DOMAIN t /\ t[e[k]] = s[k]
  BY Zenon DEF IsPadded
<1>2. \A j, k \in DOMAIN s : j < k <=> e[j] < e[k]
  BY Zenon DEF IsPadded
<1>3. \A k \in DOMAIN t : (t[k].kind = "log" \/ t[k].kind = "welcome") => \E j \in DOMAIN s : k = e[j]
  BY Zenon DEF IsPadded, IsNote
<1>4. ASSUME InOrder(s)
      PROVE  InOrder(t)
  <2> SUFFICES ASSUME NEW i \in DOMAIN t, NEW k \in DOMAIN t, i < k, t[i].kind = "log", t[k].kind = "log"
               PROVE  t[i].n < t[k].n
    BY Zenon DEF InOrder
  <2>1. PICK a, b \in DOMAIN s : i = e[a] /\ k = e[b]
    BY <1>3, Zenon
  <2>2. a < b /\ t[i] = s[a] /\ t[k] = s[b]
    BY <1>1, <1>2, <2>1, Zenon
  <2> QED
    BY <1>4, <2>2, Zenon DEF InOrder
<1>5. ASSUME WithoutGaps(s)
      PROVE  WithoutGaps(t)
  <2> SUFFICES ASSUME NEW i \in DOMAIN t, NEW k \in DOMAIN t, Since(t, i, k)
               PROVE  /\ t[i].n < t[k].n
                      /\ \A x \in t[i].n + 1 .. t[k].n - 1 :
                           \E j \in DOMAIN t : i < j /\ j < k /\ IsNews(t[j], t[i].session) /\ t[j].n = x
    BY Zenon DEF WithoutGaps
  <2>1. t[i].kind = "welcome" /\ t[k].kind = "log" /\ i < k
    BY Zenon DEF Since, IsNews
  <2>2. PICK a, b \in DOMAIN s : i = e[a] /\ k = e[b]
    BY <1>3, <2>1, Zenon
  <2>3. a < b /\ t[i] = s[a] /\ t[k] = s[b]
    BY <1>1, <1>2, <2>1, <2>2, Zenon
  <2>4. ASSUME NEW j \in DOMAIN s, a < j, j < b
        PROVE  ~ IsWelcome(s[j], s[a].session)
    <3>1. e[j] \in DOMAIN t /\ i < e[j] /\ e[j] < k /\ t[e[j]] = s[j]
      BY <1>1, <1>2, <2>2, <2>4, Zenon
    <3> QED
      BY <2>3, <3>1, Zenon DEF Since
  <2>5. Since(s, a, b)
    BY <2>1, <2>3, <2>4, Zenon DEF Since
  <2>6. /\ s[a].n < s[b].n
        /\ \A x \in s[a].n + 1 .. s[b].n - 1 :
             \E j \in DOMAIN s : a < j /\ j < b /\ IsNews(s[j], s[a].session) /\ s[j].n = x
    BY <1>5, <2>5, Zenon DEF WithoutGaps
  <2>7. ASSUME NEW x \in s[a].n + 1 .. s[b].n - 1
        PROVE  \E j \in DOMAIN t : i < j /\ j < k /\ IsNews(t[j], s[a].session) /\ t[j].n = x
    <3>1. PICK j \in DOMAIN s : a < j /\ j < b /\ IsNews(s[j], s[a].session) /\ s[j].n = x
      BY <2>6, <2>7, Zenon
    <3>2. e[j] \in DOMAIN t /\ i < e[j] /\ e[j] < k /\ t[e[j]] = s[j]
      BY <1>1, <1>2, <2>2, <3>1, Zenon
    <3> QED
      BY <3>1, <3>2, Zenon
  <2> QED
    BY <2>3, <2>6, <2>7, Zenon
<1>6. ASSUME NEW U, NEW N, UpToDate(s, U, N)
      PROVE  UpToDate(t, U, N)
  <2> SUFFICES ASSUME NEW i \in DOMAIN t, IsWelcome(t[i], U),
                      \A j \in DOMAIN t : i < j => ~ IsWelcome(t[j], U),
                      NEW x \in t[i].n + 1 .. N
               PROVE  \E j \in DOMAIN t : i < j /\ IsNews(t[j], U) /\ t[j].n = x
    BY Zenon DEF UpToDate
  <2>0. PICK a \in DOMAIN s : i = e[a]
    BY <1>3, Zenon DEF IsWelcome
  <2>1. i = e[a] /\ t[i] = s[a]
    BY <1>1, <2>0, Zenon
  <2>2. ASSUME NEW j \in DOMAIN s, a < j
        PROVE  ~ IsWelcome(s[j], U)
    <3>1. e[j] \in DOMAIN t /\ i < e[j] /\ t[e[j]] = s[j]
      BY <1>1, <1>2, <2>1, <2>2, Zenon
    <3> QED
      BY <3>1, Zenon
  <2>3. PICK j \in DOMAIN s : a < j /\ IsNews(s[j], U) /\ s[j].n = x
    <3>1. x \in s[a].n + 1 .. N /\ IsWelcome(s[a], U)
      BY <2>1, Zenon
    <3> QED
      BY <1>6, <2>2, <3>1, Zenon DEF UpToDate
  <2>4. e[j] \in DOMAIN t /\ i < e[j] /\ t[e[j]] = s[j]
    BY <1>1, <1>2, <2>1, <2>3, Zenon
  <2> QED
    BY <2>3, <2>4, Zenon
<1> QED
  BY <1>4, <1>5, <1>6, Zenon

\* Notes between a and d.
LEMMA NotesBetween ==
  ASSUME NEW a, IsSeq(a), NEW x, IsSeq(x), NEW d, IsSeq(d), \A k \in DOMAIN x : IsNote(x[k]),
         NEW N, NEW S, Sound(a \o d, N, S), \A k \in DOMAIN x : IsDated(x[k], N, S)
  PROVE  /\ Sound((a \o x) \o d, N, S)
         /\ \A U : UpToDate(a \o d, U, N) => UpToDate((a \o x) \o d, U, N)
<1>1. PICK b, s, t : b = a \o x /\ s = a \o d /\ t = b \o d
  BY Zenon
<1>2. IsConcat(a, x, b) /\ IsConcat(a, d, s)
  BY <1>1, Concatenated, Zenon
<1>3. IsSeq(b) /\ IsConcat(b, d, t)
  <2>1. IsSeq(b)
    BY <1>2, Zenon DEF IsConcat
  <2> QED
    BY <1>1, <2>1, Concatenated, Zenon
<1>4. PICK n, l, m \in Nat : /\ n = Len(a) /\ l = Len(x) /\ m = Len(d)
                             /\ DOMAIN x = 1 .. l /\ DOMAIN s = 1 .. n + m
                             /\ DOMAIN t = 1 .. (n + l) + m /\ Len(b) = n + l
  BY <1>2, <1>3, SeqFacts, Zenon DEF IsConcat
<1>5. /\ \A k \in 1 .. n : s[k] = a[k] /\ b[k] = a[k]
      /\ \A k \in 1 .. l : b[n + k] = x[k]
      /\ \A k \in 1 .. m : s[n + k] = d[k] /\ t[(n + l) + k] = d[k]
      /\ \A k \in 1 .. n + l : t[k] = b[k]
  <2>1. (\A k \in 1 .. n : b[k] = a[k]) /\ \A k \in 1 .. l : b[n + k] = x[k]
    BY <1>2, <1>4, Zenon DEF IsConcat
  <2>2. (\A k \in 1 .. n : s[k] = a[k]) /\ \A k \in 1 .. m : s[n + k] = d[k]
    BY <1>2, <1>4, Zenon DEF IsConcat
  <2>3. (\A k \in 1 .. n + l : t[k] = b[k]) /\ \A k \in 1 .. m : t[(n + l) + k] = d[k]
    BY <1>3, <1>4, Zenon DEF IsConcat
  <2> QED
    BY <2>1, <2>2, <2>3, Zenon
<1>6. PICK e : e = [k \in 1 .. n + m |-> IF k <= n THEN k ELSE k + l]
  BY Zenon
<1>7. /\ \A k \in 1 .. n + m : e[k] \in 1 .. (n + l) + m
      /\ \A j, k \in 1 .. n + m : j < k <=> e[j] < e[k]
  BY <1>6
<1>8. ASSUME NEW k \in 1 .. n + m
      PROVE  t[e[k]] = s[k]
  <2>1. CASE k <= n
    <3>1. k \in 1 .. n /\ k \in 1 .. n + l /\ e[k] = k
      BY <1>6, <2>1
    <3>2. s[k] = a[k] /\ b[k] = a[k] /\ t[k] = b[k]
      BY <1>5, <3>1, Zenon
    <3> QED
      BY <3>1, <3>2, Zenon
  <2>2. CASE ~ (k <= n)
    <3>1. PICK i : i = k - n
      BY Zenon
    <3>2. i \in 1 .. m /\ k = n + i /\ e[k] = (n + l) + i
      BY <1>6, <2>2, <3>1
    <3>3. s[n + i] = d[i] /\ t[(n + l) + i] = d[i]
      BY <1>5, <3>2, Zenon
    <3> QED
      BY <3>2, <3>3, Zenon
  <2> QED
    BY <2>1, <2>2, Zenon
<1>9. ASSUME NEW k \in 1 .. (n + l) + m
      PROVE  (\E i \in 1 .. l : t[k] = x[i]) \/ \E j \in 1 .. n + m : k = e[j]
  <2>1. CASE k <= n
    <3>1. k \in 1 .. n + m /\ e[k] = k
      BY <1>6, <2>1
    <3> QED
      BY <3>1, Zenon
  <2>2. CASE n < k /\ k <= n + l
    <3>1. PICK i : i = k - n
      BY Zenon
    <3>2. i \in 1 .. l /\ k = n + i /\ k \in 1 .. n + l
      BY <2>2, <3>1
    <3>3. t[k] = b[k] /\ b[n + i] = x[i]
      BY <1>5, <3>2, Zenon
    <3> QED
      BY <3>2, <3>3, Zenon
  <2>3. CASE n + l < k
    <3>1. PICK j : j = k - l
      BY Zenon
    <3>2. j \in 1 .. n + m /\ e[j] = k
      BY <1>6, <2>3, <3>1
    <3> QED
      BY <3>2, Zenon
  <2>4. k <= n \/ (n < k /\ k <= n + l) \/ n + l < k
    OBVIOUS
  <2> QED
    BY <2>1, <2>2, <2>3, <2>4, Zenon
<1>10. \A k \in DOMAIN t : (\E i \in DOMAIN x : t[k] = x[i]) \/ \E j \in DOMAIN s : k = e[j]
  <2> TAKE k \in DOMAIN t
  <2>1. k \in 1 .. (n + l) + m /\ 1 .. l = DOMAIN x /\ 1 .. n + m = DOMAIN s
    BY <1>4, Zenon
  <2>2. (\E i \in 1 .. l : t[k] = x[i]) \/ \E j \in 1 .. n + m : k = e[j]
    BY <1>9, <2>1, Zenon
  <2> QED
    BY <2>1, <2>2, Zenon
<1>11. \A k \in DOMAIN s : e[k] \in DOMAIN t /\ t[e[k]] = s[k]
  BY <1>4, <1>7, <1>8, Zenon
<1>12. \A j, k \in DOMAIN s : j < k <=> e[j] < e[k]
  BY <1>4, <1>7, Zenon
<1>13. \A k \in DOMAIN t : IsNote(t[k]) \/ \E j \in DOMAIN s : k = e[j]
  <2> TAKE k \in DOMAIN t
  <2>1. CASE \E i \in DOMAIN x : t[k] = x[i]
    BY <2>1, Zenon
  <2> QED
    BY <1>10, <2>1, Zenon
<1>14. IsPadded(s, t, e)
  BY <1>11, <1>12, <1>13, Zenon DEF IsPadded
<1>15. \A k \in DOMAIN t : IsDated(t[k], N, S)
  <2>1. \A k \in DOMAIN s : IsDated(s[k], N, S)
    BY <1>1, Zenon DEF Sound
  <2> TAKE k \in DOMAIN t
  <2>2. CASE \E i \in DOMAIN x : t[k] = x[i]
    BY <2>2, Zenon
  <2>3. CASE \E j \in DOMAIN s : k = e[j]
    <3>1. PICK j \in DOMAIN s : k = e[j]
      BY <2>3, Zenon
    <3>2. t[k] = s[j] /\ IsDated(s[j], N, S)
      BY <1>11, <2>1, <3>1, Zenon
    <3> QED
      BY <3>2, Zenon
  <2> QED
    BY <1>10, <2>2, <2>3, Zenon
<1>16. InOrder(t) /\ WithoutGaps(t) /\ \A U : UpToDate(s, U, N) => UpToDate(t, U, N)
  <2>1. InOrder(s) /\ WithoutGaps(s)
    BY <1>1, Zenon DEF Sound
  <2> QED
    BY <1>14, <2>1, PaddedReads, Zenon
<1> QED
  BY <1>1, <1>15, <1>16, Zenon DEF Sound

\* What is dated remains so.
LEMMA SoundGrows ==
  ASSUME NEW s, NEW N \in Int, NEW S \in Int, Sound(s, N, S), NEW M \in Int, NEW T \in Int,
         N <= M, S <= T
  PROVE  Sound(s, M, T)
<1>1. \A m : IsDated(m, N, S) => IsDated(m, M, T)
  BY DEF IsDated
<1> QED
  BY <1>1, Zenon DEF Sound

\* Of a connection of which nothing was told there is no welcome.
LEMMA UpToDateLater ==
  ASSUME NEW s, NEW N, NEW S \in Int, Sound(s, N, S), NEW U \in Int, S < U, NEW M
  PROVE  UpToDate(s, U, M)
<1>1. \A m : IsDated(m, N, S) => m.session # U
  BY DEF IsDated
<1> QED
  BY <1>1, Zenon DEF Sound, UpToDate, IsWelcome

\* What the appended sequence has of s, and where the last element is.
HasPlaces(s, m, t, z) ==
  /\ z \in DOMAIN t /\ t[z] = m /\ z \notin DOMAIN s
  /\ \A k \in DOMAIN s : k \in DOMAIN t /\ t[k] = s[k] /\ k < z /\ ~ (z < k)
  /\ \A k \in DOMAIN t : k \in DOMAIN s \/ k = z
  /\ ~ (z < z)

\* Where the elements of a sequence with one more are.
LEMMA AppendPlaces ==
  ASSUME NEW s, IsSeq(s), NEW m, NEW t, IsAppend(s, m, t)
  PROVE  \E z : HasPlaces(s, m, t, z)
<1>1. PICK n \in Nat : n = Len(s) /\ DOMAIN s = 1 .. n /\ DOMAIN t = 1 .. n + 1
  BY SeqFacts, Zenon DEF IsAppend
<1>2. /\ n + 1 \in 1 .. n + 1 /\ n + 1 \notin 1 .. n /\ ~ (n + 1 < n + 1)
      /\ \A k \in 1 .. n : k \in 1 .. n + 1 /\ k < n + 1 /\ ~ (n + 1 < k)
      /\ \A k \in 1 .. n + 1 : k \in 1 .. n \/ k = n + 1
  OBVIOUS
<1>3. t[n + 1] = m /\ \A k \in 1 .. n : t[k] = s[k]
  BY <1>1, Zenon DEF IsAppend
<1>4. HasPlaces(s, m, t, n + 1)
  BY <1>1, <1>2, <1>3, Zenon DEF HasPlaces
<1> QED
  BY <1>4, Zenon

\* A message other than of the log adds no gap.
LEMMA NoGapAdded ==
  ASSUME NEW s, IsSeq(s), NEW m, m.kind # "log", NEW t, IsAppend(s, m, t),
         InOrder(s), WithoutGaps(s)
  PROVE  InOrder(t) /\ WithoutGaps(t)
<1>0. PICK z : HasPlaces(s, m, t, z)
  BY AppendPlaces, Zenon
<1>1. /\ z \in DOMAIN t /\ t[z] = m /\ z \notin DOMAIN s
      /\ \A k \in DOMAIN s : k \in DOMAIN t /\ t[k] = s[k] /\ k < z /\ ~ (z < k)
      /\ \A k \in DOMAIN t : k \in DOMAIN s \/ k = z
      /\ ~ (z < z)
  BY <1>0, Zenon DEF HasPlaces
<1>2. InOrder(t)
  <2> SUFFICES ASSUME NEW i \in DOMAIN t, NEW k \in DOMAIN t, i < k, t[i].kind = "log", t[k].kind = "log"
               PROVE  t[i].n < t[k].n
    BY Zenon DEF InOrder
  <2>1. i \in DOMAIN s /\ k \in DOMAIN s
    BY <1>1, Zenon
  <2> QED
    BY <1>1, <2>1, Zenon DEF InOrder
<1>3. ASSUME NEW i \in DOMAIN t, NEW k \in DOMAIN t, Since(t, i, k)
      PROVE  /\ t[i].n < t[k].n
             /\ \A x \in t[i].n + 1 .. t[k].n - 1 :
                  \E j \in DOMAIN t : i < j /\ j < k /\ IsNews(t[j], t[i].session) /\ t[j].n = x
  <2>1. k \in DOMAIN s
    BY <1>1, <1>3, Zenon DEF Since, IsNews
  <2>2. i \in DOMAIN s
    BY <1>1, <1>3, <2>1, Zenon DEF Since
  <2>3. t[i] = s[i] /\ t[k] = s[k]
    BY <1>1, <2>1, <2>2, Zenon
  <2>4. Since(s, i, k)
    BY <1>1, <1>3, <2>1, <2>2, <2>3, Zenon DEF Since
  <2>5. /\ s[i].n < s[k].n
        /\ \A x \in s[i].n + 1 .. s[k].n - 1 :
             \E j \in DOMAIN s : i < j /\ j < k /\ IsNews(s[j], s[i].session) /\ s[j].n = x
    BY <2>1, <2>2, <2>4, Zenon DEF WithoutGaps
  <2>6. ASSUME NEW x \in s[i].n + 1 .. s[k].n - 1
        PROVE  \E j \in DOMAIN t : i < j /\ j < k /\ IsNews(t[j], s[i].session) /\ t[j].n = x
    <3>1. PICK j \in DOMAIN s : i < j /\ j < k /\ IsNews(s[j], s[i].session) /\ s[j].n = x
      BY <2>5, <2>6, Zenon
    <3>2. j \in DOMAIN t /\ t[j] = s[j]
      BY <1>1, <3>1, Zenon
    <3> QED
      BY <3>1, <3>2, Zenon
  <2> QED
    BY <2>3, <2>5, <2>6, Zenon
<1>4. WithoutGaps(t)
  BY <1>3, Zenon DEF WithoutGaps
<1> QED
  BY <1>2, <1>4, Zenon

\* The welcome of a newcomer.
LEMMA WelcomeAtEnd ==
  ASSUME NEW s, IsSeq(s), NEW N \in Nat, NEW S \in Nat, Sound(s, N, S),
         NEW m, m.kind = "welcome", m.n = N + 1, m.session = S, NEW t, IsAppend(s, m, t)
  PROVE  Sound(t, N + 1, S) /\ UpToDate(t, S, N + 1)
<1>0. PICK z : HasPlaces(s, m, t, z)
  BY AppendPlaces, Zenon
<1>1. /\ z \in DOMAIN t /\ t[z] = m /\ z \notin DOMAIN s
      /\ \A k \in DOMAIN s : k \in DOMAIN t /\ t[k] = s[k] /\ k < z /\ ~ (z < k)
      /\ \A k \in DOMAIN t : k \in DOMAIN s \/ k = z
      /\ ~ (z < z)
  BY <1>0, Zenon DEF HasPlaces
<1>2. InOrder(t) /\ WithoutGaps(t)
  <2>1. m.kind # "log"
    OBVIOUS
  <2>2. InOrder(s) /\ WithoutGaps(s)
    BY Zenon DEF Sound
  <2> QED
    BY <2>1, <2>2, NoGapAdded, Zenon
<1>3. N + 1 \in Int /\ N \in Int /\ S \in Int /\ N <= N + 1 /\ S <= S /\ IsDated(m, N + 1, S)
  BY DEF IsDated
<1>4. Sound(s, N + 1, S)
  BY <1>3, SoundGrows, Zenon
<1>5. \A k \in DOMAIN t : IsDated(t[k], N + 1, S)
  BY <1>1, <1>3, <1>4, Zenon DEF Sound
<1>6. ASSUME NEW i \in DOMAIN t, IsWelcome(t[i], S),
             \A j \in DOMAIN t : i < j => ~ IsWelcome(t[j], S),
             NEW x \in t[i].n + 1 .. N + 1
      PROVE  \E j \in DOMAIN t : i < j /\ IsNews(t[j], S) /\ t[j].n = x
  <2>1. IsWelcome(t[z], S)
    BY <1>1, Zenon DEF IsWelcome
  <2>2. i = z
    BY <1>1, <1>6, <2>1, Zenon
  <2>3. t[i].n = N + 1
    BY <1>1, <2>2, Zenon
  <2>4. FALSE
    BY <1>6, <2>3
  <2> QED
    BY <2>4, Zenon
<1> QED
  BY <1>2, <1>5, <1>6, Zenon DEF Sound, UpToDate

\* An entry of the log for who was sent all of it since the welcome.
LEMMA NewsAtEnd ==
  ASSUME NEW s, IsSeq(s), NEW N \in Nat, NEW S \in Nat, Sound(s, N, S), UpToDate(s, S, N),
         NEW m, m.kind = "log", m.n = N + 1, m.session = S, NEW t, IsAppend(s, m, t)
  PROVE  Sound(t, N + 1, S) /\ UpToDate(t, S, N + 1)
<1>0. PICK z : HasPlaces(s, m, t, z)
  BY AppendPlaces, Zenon
<1>1. /\ z \in DOMAIN t /\ t[z] = m /\ z \notin DOMAIN s
      /\ \A k \in DOMAIN s : k \in DOMAIN t /\ t[k] = s[k] /\ k < z /\ ~ (z < k)
      /\ \A k \in DOMAIN t : k \in DOMAIN s \/ k = z
      /\ ~ (z < z)
  BY <1>0, Zenon DEF HasPlaces
<1>2. N + 1 \in Int /\ N \in Int /\ S \in Int /\ N <= N + 1 /\ S <= S /\ IsDated(m, N + 1, S)
  BY DEF IsDated
<1>3. Sound(s, N + 1, S)
  BY <1>2, SoundGrows, Zenon
<1>4. \A k \in DOMAIN t : IsDated(t[k], N + 1, S)
  BY <1>1, <1>2, <1>3, Zenon DEF Sound
<1>5. \A k \in DOMAIN s : s[k].n < N + 1 /\ s[k].n \in Nat
  <2>1. \A x : IsDated(x, N, S) => x.n < N + 1 /\ x.n \in Nat
    BY DEF IsDated
  <2> QED
    BY <2>1, Zenon DEF Sound
<1>6. InOrder(t)
  <2> SUFFICES ASSUME NEW i \in DOMAIN t, NEW k \in DOMAIN t, i < k, t[i].kind = "log", t[k].kind = "log"
               PROVE  t[i].n < t[k].n
    BY Zenon DEF InOrder
  <2>1. i \in DOMAIN s
    BY <1>1, Zenon
  <2>2. CASE k = z
    BY <1>1, <1>5, <2>1, <2>2, Zenon
  <2>3. CASE k \in DOMAIN s
    BY <1>1, <2>1, <2>3, Zenon DEF Sound, InOrder
  <2> QED
    BY <1>1, <2>2, <2>3, Zenon
<1>7. IsNews(t[z], S) /\ ~ IsWelcome(t[z], S) /\ t[z].n = N + 1
  BY <1>1 DEF IsNews, IsWelcome
<1>8. ASSUME NEW i \in DOMAIN s, IsWelcome(s[i], S),
             \A j \in DOMAIN t : i < j => ~ IsWelcome(t[j], S) \/ j = z,
             NEW x \in s[i].n + 1 .. N
      PROVE  \E j \in DOMAIN t : i < j /\ j < z /\ IsNews(t[j], S) /\ t[j].n = x
  <2>1. \A j \in DOMAIN s : i < j => ~ IsWelcome(s[j], S)
    BY <1>1, <1>8, Zenon
  <2>2. PICK j \in DOMAIN s : i < j /\ IsNews(s[j], S) /\ s[j].n = x
    BY <1>8, <2>1, Zenon DEF UpToDate
  <2>3. j \in DOMAIN t /\ t[j] = s[j] /\ j < z
    BY <1>1, <2>2, Zenon
  <2> QED
    BY <2>2, <2>3, Zenon
<1>9. ASSUME NEW i \in DOMAIN t, NEW k \in DOMAIN t, Since(t, i, k)
      PROVE  /\ t[i].n < t[k].n
             /\ \A x \in t[i].n + 1 .. t[k].n - 1 :
                  \E j \in DOMAIN t : i < j /\ j < k /\ IsNews(t[j], t[i].session) /\ t[j].n = x
  <2>1. i \in DOMAIN s /\ t[i] = s[i]
    BY <1>1, <1>9, Zenon DEF Since
  <2>2. CASE k = z
    <3>1. t[k] = m /\ t[k].n = N + 1 /\ s[i].session = S /\ IsWelcome(s[i], S)
      BY <1>1, <1>9, <2>1, <2>2, Zenon DEF Since, IsNews, IsWelcome
    <3>2. (N + 1) - 1 = N
      OBVIOUS
    <3>3. \A j \in DOMAIN t : i < j => ~ IsWelcome(t[j], S) \/ j = z
      <4>1. \A j \in DOMAIN t : j < z \/ j = z
        BY <1>1, Zenon
      <4> QED
        BY <1>9, <2>1, <2>2, <3>1, <4>1, Zenon DEF Since
    <3>4. \A x \in s[i].n + 1 .. N :
            \E j \in DOMAIN t : i < j /\ j < z /\ IsNews(t[j], S) /\ t[j].n = x
      BY <1>8, <2>1, <3>1, <3>3, Zenon
    <3> QED
      BY <1>5, <2>1, <2>2, <3>1, <3>2, <3>4, Zenon
  <2>3. CASE k \in DOMAIN s
    <3>1. t[k] = s[k]
      BY <1>1, <2>3, Zenon
    <3>2. Since(s, i, k)
      BY <1>1, <1>9, <2>1, <2>3, <3>1, Zenon DEF Since
    <3>3. /\ s[i].n < s[k].n
          /\ \A x \in s[i].n + 1 .. s[k].n - 1 :
               \E j \in DOMAIN s : i < j /\ j < k /\ IsNews(s[j], s[i].session) /\ s[j].n = x
      BY <2>1, <2>3, <3>2, Zenon DEF Sound, WithoutGaps
    <3>4. ASSUME NEW x \in s[i].n + 1 .. s[k].n - 1
          PROVE  \E j \in DOMAIN t : i < j /\ j < k /\ IsNews(t[j], s[i].session) /\ t[j].n = x
      <4>1. PICK j \in DOMAIN s : i < j /\ j < k /\ IsNews(s[j], s[i].session) /\ s[j].n = x
        BY <3>3, <3>4, Zenon
      <4>2. j \in DOMAIN t /\ t[j] = s[j]
        BY <1>1, <4>1, Zenon
      <4> QED
        BY <4>1, <4>2, Zenon
    <3> QED
      BY <2>1, <3>1, <3>3, <3>4, Zenon
  <2> QED
    BY <1>1, <2>2, <2>3, Zenon
<1>10. ASSUME NEW i \in DOMAIN t, IsWelcome(t[i], S),
              \A j \in DOMAIN t : i < j => ~ IsWelcome(t[j], S),
              NEW x \in t[i].n + 1 .. N + 1
       PROVE  \E j \in DOMAIN t : i < j /\ IsNews(t[j], S) /\ t[j].n = x
  <2>1. i \in DOMAIN s /\ t[i] = s[i] /\ i < z
    BY <1>1, <1>7, <1>10, Zenon
  <2>2. s[i].n \in Nat
    BY <1>5, <2>1, Zenon
  <2>3. x = N + 1 \/ x \in s[i].n + 1 .. N
    BY <1>10, <2>1, <2>2
  <2>4. CASE x = N + 1
    BY <1>1, <1>7, <2>1, <2>4, Zenon
  <2>5. CASE x \in s[i].n + 1 .. N
    BY <1>8, <1>10, <2>1, <2>5, Zenon
  <2> QED
    BY <2>3, <2>4, <2>5, Zenon
<1>11. WithoutGaps(t)
  BY <1>9, Zenon DEF WithoutGaps
<1> QED
  BY <1>4, <1>6, <1>10, <1>11, Zenon DEF Sound, UpToDate

-----------------------------------------------------------------------------
(***************************************************************************)
(* What a client reads: the slots.                                         *)
(***************************************************************************)

\* What a step may do to the slots while a client has something to read.
LinkMoves(c) ==
  /\ LastSession(c) \in Int /\ LastSession(c)' \in Int /\ LastSession(c) <= LastSession(c)'
  /\ Reaches(c)' => \/ Reaches(c) /\ link'[c].session = link[c].session
                    \/ link'[c].session \in Int /\ LastSession(c) < link'[c].session

\* A connection whose slots stay as they are moves on, too.
LEMMA LinkStands ==
  ASSUME LinkType, NEW c \in Client, link'[c] = link[c]
  PROVE  LinkMoves(c)
<1>1. PICK x : x = link[c] /\ x = link'[c] /\ x \in Slots
  BY Zenon DEF LinkType
<1> QED
  BY <1>1 DEF LinkMoves, LastSession, Reaches, Slots

\* No step takes back what a client may have been told of, and only Greet makes a
\* connection on which the server reaches the client.
LEMMA LinkStepMoves ==
  ASSUME LinkType, NEW c \in Client
  PROVE  /\ ClientConnect(c) => LinkMoves(c)
         /\ ClientDisconnects(c) => LinkMoves(c)
         /\ Greet(c) => LinkMoves(c)
         /\ Establish(c) => LinkMoves(c)
         /\ Accept(c) => LinkMoves(c)
         /\ ServerResets(c) => LinkMoves(c) /\ ~ Reaches(c)'
         /\ ClientResets(c) => LinkMoves(c) /\ ~ Reaches(c)'
         /\ ClientExits(c) => LinkMoves(c) /\ ~ Reaches(c)'
<1>1. PICK x, y : x = link[c] /\ y = link'[c] /\ x \in Slots
  BY Zenon DEF LinkType
<1> DEFINE Becomes(client, server_, session, accepted) ==
             y.client = client /\ y.server = server_ /\ y.session = session /\ y.accepted = accepted
<1>2. ClientConnect(c) => LinkMoves(c)
  <2>1. ClientConnect(c) => x.client = "free" /\ Becomes("connecting", x.server, x.session + 1, x.accepted)
    BY <1>1, LinkSteps, Zenon DEF ClientConnect, SlotsSet
  <2> QED
    BY <1>1, <2>1, SMT DEF LinkMoves, LastSession, Reaches, Slots
<1>3. ClientDisconnects(c) => LinkMoves(c)
  <2>1. ClientDisconnects(c) => x.client = "up" /\ Becomes("closing", x.server, x.session, x.accepted)
    BY <1>1, LinkSteps, Zenon DEF ClientDisconnects, SlotsSet
  <2> QED
    BY <1>1, <2>1, SMT DEF LinkMoves, LastSession, Reaches, Slots
<1>4. Greet(c) => LinkMoves(c)
  <2>1. Greet(c) => x.client = "connecting" /\ Becomes("greeted", "pending", x.session, x.session)
    BY <1>1, LinkSteps, Zenon DEF Greet, SlotsSet
  <2> QED
    BY <1>1, <2>1, SMT DEF LinkMoves, LastSession, Reaches, Slots
<1>5. Establish(c) => LinkMoves(c)
  <2>1. Establish(c) => /\ x.client = "greeted" /\ x.server = "pending"
                        /\ Becomes("up", "awaited", x.session, x.accepted)
    BY <1>1, LinkSteps, Zenon DEF Establish, SlotsSet
  <2> QED
    BY <1>1, <2>1, SMT DEF LinkMoves, LastSession, Reaches, Slots
<1>6. Accept(c) => LinkMoves(c)
  <2>1. Accept(c) => x.server = "awaited" /\ Becomes(x.client, "up", x.session, x.accepted)
    BY <1>1, LinkSteps, Zenon DEF Accept, SlotsSet
  <2> QED
    BY <1>1, <2>1, SMT DEF LinkMoves, LastSession, Reaches, Slots
<1>7. ServerResets(c) => LinkMoves(c) /\ ~ Reaches(c)'
  <2>1. ServerResets(c) => Becomes(x.client, "free", x.session, x.accepted)
    BY <1>1, LinkSteps, Zenon DEF SlotsSet
  <2> QED
    BY <1>1, <2>1, SMT DEF LinkMoves, LastSession, Reaches, Slots
<1>8. ClientResets(c) => LinkMoves(c) /\ ~ Reaches(c)'
  <2>1. ClientResets(c) => Becomes("free", x.server, x.session, x.accepted)
    BY <1>1, LinkSteps, Zenon DEF SlotsSet
  <2> QED
    BY <1>1, <2>1, SMT DEF LinkMoves, LastSession, Reaches, Slots
<1>9. ClientExits(c) => LinkMoves(c) /\ ~ Reaches(c)'
  <2>1. ClientExits(c) => Becomes("gone", x.server, x.session, x.accepted)
    BY <1>1, LinkSteps, Zenon DEF SlotsSet
  <2> QED
    BY <1>1, <2>1, SMT DEF LinkMoves, LastSession, Reaches, Slots
<1> QED
  BY <1>2, <1>3, <1>4, <1>5, <1>6, <1>7, <1>8, <1>9, Zenon

\* A message to a client who can be reached is of the last connection.
LEMMA ReachedSession ==
  ASSUME LinkType, NEW c \in Client
  PROVE  /\ LastSession(c) \in Int
         /\ Reaches(c) \/ link[c].client \in {"up", "closing"}
              => LastSession(c) = link[c].session /\ LastSession(c) \in Nat
<1>1. PICK x : x = link[c] /\ x \in Slots
  BY Zenon DEF LinkType
<1> QED
  BY <1>1 DEF LastSession, Reaches, Slots

-----------------------------------------------------------------------------
(***************************************************************************)
(* What a client reads: each client.                                       *)
(***************************************************************************)

\* What there is to read, in two parts: what has arrived and what is under way.
LEMMA PipelineParts ==
  ASSUME NEW c, IsReader(c)
  PROVE  /\ IsSeq(received[c] \o inbox[c]) /\ IsSeq(Pipeline(c))
         /\ Pipeline(c) = (received[c] \o inbox[c]) \o down[c]
         /\ IsSeq(received[c]) /\ IsSeq(inbox[c]) /\ IsSeq(down[c])
<1>1. IsSeq(received[c]) /\ IsSeq(inbox[c]) /\ IsSeq(down[c])
  BY Zenon DEF IsReader
<1>2. Pipeline(c) = (received[c] \o inbox[c]) \o down[c]
  BY Zenon DEF Pipeline
<1>3. PICK r, i, d : r = received[c] /\ i = inbox[c] /\ d = down[c]
  BY Zenon
<1>4. IsSeq(r \o i) /\ IsSeq((r \o i) \o d)
  BY <1>1, <1>3, ConcatAssoc, Zenon DEF IsAssoc
<1> QED
  BY <1>1, <1>2, <1>3, <1>4, Zenon

\* The same to read, whatever happens to the slots.
LEMMA SameReader ==
  ASSUME NEW c \in Client, IsReader(c), LinkMoves(c), log' = log, m_users' = m_users,
         IsSeq(log), IsSeq(received'[c]), IsSeq(inbox'[c]), IsSeq(down'[c]),
         Pipeline(c)' = Pipeline(c)
  PROVE  IsReader(c)'
<1>1. PICK s, N, S, T, U : /\ s = Pipeline(c) /\ s = Pipeline(c)' /\ N = Len(log) /\ N = Len(log')
                           /\ S = LastSession(c) /\ T = LastSession(c)' /\ U = link'[c].session
  BY Zenon
<1>2. Sound(s, N, S) /\ N \in Int /\ S \in Int /\ T \in Int /\ S <= T /\ N <= N
  <2>1. Sound(s, N, S) /\ S \in Int /\ T \in Int /\ S <= T
    BY <1>1, Zenon DEF IsReader, Reads, LinkMoves
  <2>2. N \in Nat
    BY <1>1, SeqFacts, Zenon
  <2> QED
    BY <2>1, <2>2
<1>3. Sound(s, N, T)
  BY <1>2, SoundGrows, Zenon
<1>4. ASSUME Reaches(c)', c \in Ids(m_users')
      PROVE  UpToDate(s, U, N)
  <2>1. CASE Reaches(c) /\ link'[c].session = link[c].session
    BY <1>1, <1>4, <2>1, Zenon DEF IsReader, Reads
  <2>2. CASE U \in Int /\ S < U
    BY <1>2, <2>2, UpToDateLater, Zenon
  <2> QED
    BY <1>1, <1>4, <2>1, <2>2, Zenon DEF LinkMoves
<1>5. Reads(Pipeline(c), c)'
  BY <1>1, <1>3, <1>4, Zenon DEF Reads
<1> QED
  BY <1>5, Zenon DEF IsReader

\* The rest is lost, and the client can no longer be reached.
LEMMA CutReader ==
  ASSUME NEW c \in Client, IsReader(c), LinkMoves(c), ~ Reaches(c)', log' = log, IsSeq(log),
         IsSeq(received'[c]), IsSeq(inbox'[c]), IsSeq(down'[c]),
         NEW s, s = Pipeline(c), NEW t, t = Pipeline(c)', NEW u, IsSeq(s), IsCut(s, u),
         \A N, S : Sound(u, N, S) /\ N \in Nat /\ S = LastSession(c) => Sound(t, N, S)
  PROVE  IsReader(c)'
<1>1. PICK N, S, T : N = Len(log) /\ N = Len(log') /\ S = LastSession(c) /\ T = LastSession(c)'
  BY Zenon
<1>2. Sound(s, N, S) /\ S \in Int /\ T \in Int /\ S <= T
  BY <1>1, Zenon DEF IsReader, Reads, LinkMoves
<1>3. N \in Nat
  BY <1>1, SeqFacts, Zenon
<1>4. N \in Int /\ N <= N
  BY <1>3
<1>5. Sound(u, N, S)
  BY <1>2, SoundCut, Zenon
<1>6. Sound(t, N, S)
  BY <1>1, <1>3, <1>5, Zenon
<1>7. Sound(t, N, T)
  BY <1>2, <1>4, <1>6, SoundGrows, Zenon
<1>8. Reads(Pipeline(c), c)'
  BY <1>1, <1>7, Zenon DEF Reads
<1> QED
  BY <1>8, Zenon DEF IsReader

\* Notes come in between.
LEMMA PaddedReader ==
  ASSUME NEW c \in Client, IsReader(c), LinkMoves(c), log' = log, m_users' = m_users, IsSeq(log),
         IsSeq(received'[c]), IsSeq(inbox'[c]), IsSeq(down'[c]),
         NEW a, IsSeq(a), NEW x, IsSeq(x), NEW d, IsSeq(d),
         Pipeline(c) = a \o d, Pipeline(c)' = (a \o x) \o d, \A k \in DOMAIN x : IsNote(x[k]),
         \A k \in DOMAIN x : IsDated(x[k], Len(log), LastSession(c))
  PROVE  IsReader(c)'
<1>1. PICK s, t, N, S, T, U :
        /\ s = a \o d /\ t = (a \o x) \o d /\ N = Len(log) /\ N = Len(log')
        /\ S = LastSession(c) /\ T = LastSession(c)' /\ U = link'[c].session
  BY Zenon
<1>2. Sound(s, N, S) /\ S \in Int /\ T \in Int /\ S <= T
  BY <1>1, Zenon DEF IsReader, Reads, LinkMoves
<1>3. N \in Int /\ N <= N
  <2>1. N \in Nat
    BY <1>1, SeqFacts, Zenon
  <2> QED
    BY <2>1
<1>4. Sound(t, N, S) /\ \A V : UpToDate(s, V, N) => UpToDate(t, V, N)
  BY <1>1, <1>2, NotesBetween, Zenon
<1>5. Sound(t, N, T)
  BY <1>2, <1>3, <1>4, SoundGrows, Zenon
<1>6. ASSUME Reaches(c)', c \in Ids(m_users')
      PROVE  UpToDate(t, U, N)
  <2>1. CASE Reaches(c) /\ link'[c].session = link[c].session
    BY <1>1, <1>4, <1>6, <2>1, Zenon DEF IsReader, Reads
  <2>2. CASE U \in Int /\ S < U
    BY <1>2, <1>4, <2>2, UpToDateLater, Zenon
  <2> QED
    BY <1>1, <1>6, <2>1, <2>2, Zenon DEF LinkMoves
<1>7. Reads(Pipeline(c), c)'
  BY <1>1, <1>5, <1>6, Zenon DEF Reads
<1> QED
  BY <1>7, Zenon DEF IsReader

\* Nothing changes for the other clients.
LEMMA OneReader ==
  ASSUME UsersInv, ConversationInv, NEW c \in Client,
         received' = [d \in Client |-> received'[d]], down' = [d \in Client |-> down'[d]],
         \A d \in Client : d # c => /\ link'[d] = link[d] /\ received'[d] = received[d]
                                    /\ inbox'[d] = inbox[d] /\ down'[d] = down[d],
         UNCHANGED <<log, m_users, rpc>>, IsReader(c)'
  PROVE  ConversationInv'
<1>1. log' = log /\ m_users' = m_users /\ rpc' = rpc /\ LinkType /\ IsSeq(log)
  BY Zenon DEF UsersInv
<1>2. ASSUME NEW d \in Client, d # c
      PROVE  IsReader(d)'
  <2>1. link'[d] = link[d] /\ received'[d] = received[d] /\ inbox'[d] = inbox[d] /\ down'[d] = down[d]
    BY <1>2, Zenon
  <2>2. LinkMoves(d) /\ IsReader(d)
    BY <1>1, <2>1, LinkStands, Zenon DEF ConversationInv
  <2>3. Pipeline(d)' = Pipeline(d)
    BY <2>1, Zenon DEF Pipeline
  <2>4. IsSeq(received'[d]) /\ IsSeq(inbox'[d]) /\ IsSeq(down'[d])
    BY <2>1, <2>2, Zenon DEF IsReader
  <2> QED
    BY <1>1, <2>2, <2>3, <2>4, SameReader, Zenon
<1>3. \A d \in Client : IsReader(d)'
  BY <1>2, Zenon
<1>4. \A i \in DOMAIN rpc' : IsSeq(rpc'[i])
  BY <1>1, Zenon DEF ConversationInv
<1> QED
  BY <1>3, <1>4, Zenon DEF ConversationInv

\* No client gets anything.
LEMMA QuietReaders ==
  ASSUME UsersInv, ConversationInv, UNCHANGED <<received, down, log, m_users>>,
         \A c \in Client : inbox'[c] = inbox[c], \A c \in Client : LinkMoves(c),
         \A i \in DOMAIN rpc' : IsSeq(rpc'[i])
  PROVE  ConversationInv'
<1>1. received' = received /\ down' = down /\ log' = log /\ m_users' = m_users /\ IsSeq(log)
  BY Zenon DEF UsersInv
<1>2. ASSUME NEW d \in Client
      PROVE  IsReader(d)'
  <2>1. received'[d] = received[d] /\ inbox'[d] = inbox[d] /\ down'[d] = down[d]
    BY <1>1, <1>2, Zenon
  <2>2. LinkMoves(d) /\ IsReader(d)
    BY <1>2, Zenon DEF ConversationInv
  <2>3. Pipeline(d)' = Pipeline(d)
    BY <2>1, Zenon DEF Pipeline
  <2>4. IsSeq(received'[d]) /\ IsSeq(inbox'[d]) /\ IsSeq(down'[d])
    BY <2>1, <2>2, Zenon DEF IsReader
  <2> QED
    BY <1>1, <2>2, <2>3, <2>4, SameReader, Zenon
<1>3. \A d \in Client : IsReader(d)'
  BY <1>2, Zenon
<1>4. received' = [c \in Client |-> received'[c]] /\ down' = [c \in Client |-> down'[c]]
  BY <1>1, Zenon DEF ConversationInv
<1> QED
  BY <1>3, <1>4, Zenon DEF ConversationInv

-----------------------------------------------------------------------------
(***************************************************************************)
(* What a client reads: the steps in which one client gets or loses        *)
(* something.                                                              *)
(***************************************************************************)

\* What there is to read in the places r, i and d after such a step.
Moves(r, i, d, m) ==
  /\ IsSeq(Append(i, m)) /\ r \o Append(i, m) = (r \o i) \o <<m>>
  /\ (r \o i) \o <<>> = r \o i /\ (r \o <<>>) \o <<>> = r
  /\ IsCut((r \o i) \o d, r \o i) /\ IsCut((r \o i) \o d, r)

\* What becomes of the places when something moves on, or is dropped.
LEMMA PipelineMoves ==
  ASSUME NEW r, IsSeq(r), NEW i, IsSeq(i), NEW d, IsSeq(d), NEW m
  PROVE  Moves(r, i, d, m)
<1>1. PICK a, s : a = r \o i /\ s = a \o d
  BY Zenon
<1>2. IsConcat(r, i, a) /\ IsSeq(a)
  <2>1. IsConcat(r, i, a)
    BY <1>1, Concatenated, Zenon
  <2> QED
    BY <2>1, Zenon DEF IsConcat
<1>3. IsConcat(a, d, s)
  BY <1>1, <1>2, Concatenated, Zenon
<1>4. Append(i, m) = i \o <<m>> /\ IsSeq(<<m>>) /\ a \o <<>> = a /\ r \o <<>> = r
  <2>1. Append(i, m) = i \o <<m>> /\ IsSeq(<<m>>)
    BY SmallSeqs, Zenon
  <2>2. a \o <<>> = a
    BY <1>2, SmallSeqs, Zenon
  <2>3. r \o <<>> = r
    BY SmallSeqs, Zenon
  <2> QED
    BY <2>1, <2>2, <2>3, Zenon
<1>5. IsSeq(Append(i, m))
  BY Appended, Zenon DEF IsAppend
<1>6. r \o Append(i, m) = a \o <<m>>
  <2>1. PICK o : o = <<m>> /\ IsSeq(o) /\ Append(i, m) = i \o o
    BY <1>4, Zenon
  <2>2. IsAssoc(r, i, o)
    BY <2>1, ConcatAssoc, Zenon
  <2> QED
    BY <1>1, <2>1, <2>2, Zenon DEF IsAssoc
<1>7. PICK x, y, z \in Nat : x = Len(r) /\ y = Len(i) /\ z = Len(d)
  BY SeqFacts, Zenon
<1>8. /\ Len(a) = x + y /\ Len(s) = (x + y) + z
      /\ \A k \in 1 .. x : a[k] = r[k]
      /\ \A k \in 1 .. x + y : s[k] = a[k]
  BY <1>2, <1>3, <1>7, Zenon DEF IsConcat
<1>9. x + y <= (x + y) + z /\ x <= (x + y) + z /\ \A k \in 1 .. x : k \in 1 .. x + y
  OBVIOUS
<1>10. IsCut(s, a)
  BY <1>2, <1>8, <1>9, Zenon DEF IsCut
<1>11. IsCut(s, r)
  BY <1>7, <1>8, <1>9, Zenon DEF IsCut
<1> QED
  BY <1>1, <1>4, <1>5, <1>6, <1>10, <1>11, Zenon DEF Moves

\* A queue of messages after a step.
LEMMA QueueSet ==
  ASSUME ConversationInv, NEW c \in Client, NEW x
  PROVE  /\ received' = [received EXCEPT ![c] = x] =>
              /\ received' = [d \in Client |-> received'[d]] /\ received'[c] = x
              /\ \A d \in Client : d # c => received'[d] = received[d]
         /\ down' = [down EXCEPT ![c] = x] =>
              /\ down' = [d \in Client |-> down'[d]] /\ down'[c] = x
              /\ \A d \in Client : d # c => down'[d] = down[d]
<1>1. received = [d \in Client |-> received[d]] /\ down = [d \in Client |-> down[d]]
  BY Zenon DEF ConversationInv
<1>2. ASSUME received' = [received EXCEPT ![c] = x]
      PROVE  /\ received' = [d \in Client |-> received'[d]] /\ received'[c] = x
             /\ \A d \in Client : d # c => received'[d] = received[d]
  BY <1>1, <1>2, OnePlace, Zenon
<1>3. ASSUME down' = [down EXCEPT ![c] = x]
      PROVE  /\ down' = [d \in Client |-> down'[d]] /\ down'[c] = x
             /\ \A d \in Client : d # c => down'[d] = down[d]
  BY <1>1, <1>3, OnePlace, Zenon
<1> QED
  BY <1>2, <1>3, Zenon

\* Tick moves what has arrived to what was read.
LEMMA ReadersTick ==
  ASSUME UsersInv, ConversationInv, NEW c \in Client, ClientTick(c)
  PROVE  ConversationInv'
<1>1. PICK r, i, d : r = received[c] /\ i = inbox[c] /\ d = down[c]
  BY Zenon
<1>2. /\ inbox' = [inbox EXCEPT ![c] = <<>>] /\ received' = [received EXCEPT ![c] = r \o i]
      /\ link' = link /\ down' = down /\ UNCHANGED <<log, m_users, rpc>>
      /\ log' = log /\ m_users' = m_users
  BY <1>1, Zenon DEF ClientTick, wire, server
<1>3. IsReader(c) /\ LinkType /\ IsSeq(log) /\ down = [e \in Client |-> down[e]]
  BY Zenon DEF ConversationInv, UsersInv
<1>4. IsSeq(r) /\ IsSeq(i) /\ IsSeq(d) /\ IsSeq(r \o i) /\ Pipeline(c) = (r \o i) \o d
  BY <1>1, <1>3, PipelineParts, Zenon
<1>5. inbox'[c] = <<>> /\ \A e \in Client : e # c => inbox'[e] = inbox[e]
  BY <1>2, InboxElsewhere, Zenon
<1>6. /\ received' = [e \in Client |-> received'[e]] /\ received'[c] = r \o i
      /\ \A e \in Client : e # c => received'[e] = received[e]
  BY <1>2, QueueSet, Zenon
<1>7. (r \o i) \o <<>> = r \o i /\ IsSeq(<<>>)
  BY <1>4, SmallSeqs, Zenon
<1>8. Pipeline(c)' = Pipeline(c)
  BY <1>1, <1>2, <1>4, <1>5, <1>6, <1>7, Zenon DEF Pipeline
<1>9. IsSeq(received'[c]) /\ IsSeq(inbox'[c]) /\ IsSeq(down'[c])
  BY <1>1, <1>2, <1>4, <1>5, <1>6, <1>7, Zenon
<1>10. LinkMoves(c)
  BY <1>2, <1>3, LinkStands, Zenon
<1>11. IsReader(c)'
  BY <1>2, <1>3, <1>8, <1>9, <1>10, SameReader, Zenon
<1>12. down' = [e \in Client |-> down'[e]] /\ \A e \in Client : link'[e] = link[e] /\ down'[e] = down[e]
  BY <1>2, <1>3, Zenon
<1> QED
  BY <1>2, <1>5, <1>6, <1>11, <1>12, OneReader, Zenon

\* The library moves the first message under way to the inbox.
LEMMA ReadersTake ==
  ASSUME UsersInv, ConversationInv, NEW c \in Client, ClientTakes(c)
  PROVE  ConversationInv'
<1>1. PICK r, i, d : r = received[c] /\ i = inbox[c] /\ d = down[c]
  BY Zenon
<1>2. PICK m, t : m = Head(d) /\ t = Tail(d)
  BY Zenon
<1>3. /\ inbox' = [inbox EXCEPT ![c] = Append(i, m)] /\ down' = [down EXCEPT ![c] = t] /\ d # <<>>
      /\ link' = link /\ received' = received /\ UNCHANGED <<log, m_users, rpc>>
      /\ log' = log /\ m_users' = m_users
  BY <1>1, <1>2, Zenon DEF ClientTakes, Post, clients, server
<1>4. IsReader(c) /\ LinkType /\ IsSeq(log) /\ received = [e \in Client |-> received[e]]
  BY Zenon DEF ConversationInv, UsersInv
<1>5. IsSeq(r) /\ IsSeq(i) /\ IsSeq(d) /\ IsSeq(r \o i) /\ Pipeline(c) = (r \o i) \o d
  BY <1>1, <1>4, PipelineParts, Zenon
<1>6. inbox'[c] = Append(i, m) /\ \A e \in Client : e # c => inbox'[e] = inbox[e]
  BY <1>3, InboxElsewhere, Zenon
<1>7. /\ down' = [e \in Client |-> down'[e]] /\ down'[c] = t
      /\ \A e \in Client : e # c => down'[e] = down[e]
  BY <1>3, QueueSet, Zenon
<1>8. (r \o Append(i, m)) \o t = (r \o i) \o d /\ IsSeq(Append(i, m)) /\ IsSeq(t)
  <2>1. PICK a, o : a = r \o i /\ o = <<m>> /\ IsSeq(a) /\ IsSeq(o)
    BY <1>5, SmallSeqs, Zenon
  <2>2. IsSeq(t) /\ o \o t = d
    BY <1>2, <1>3, <1>5, <2>1, HeadAndTail, Zenon
  <2>3. r \o Append(i, m) = (r \o i) \o <<m>> /\ IsSeq(Append(i, m))
    <3>1. Moves(r, i, d, m)
      BY <1>5, PipelineMoves, Zenon
    <3> QED
      BY <3>1, Zenon DEF Moves
  <2>4. IsAssoc(a, o, t)
    BY <2>1, <2>2, ConcatAssoc, Zenon
  <2>5. (a \o o) \o t = a \o d
    BY <2>2, <2>4, Zenon DEF IsAssoc
  <2>6. r \o Append(i, m) = a \o o
    BY <2>1, <2>3, Zenon
  <2> QED
    BY <2>1, <2>2, <2>3, <2>5, <2>6, Zenon
<1>9. Pipeline(c)' = Pipeline(c)
  BY <1>1, <1>3, <1>5, <1>6, <1>7, <1>8, Zenon DEF Pipeline
<1>10. IsSeq(received'[c]) /\ IsSeq(inbox'[c]) /\ IsSeq(down'[c])
  BY <1>1, <1>3, <1>5, <1>6, <1>7, <1>8, Zenon
<1>11. LinkMoves(c)
  BY <1>3, <1>4, LinkStands, Zenon
<1>12. IsReader(c)'
  BY <1>3, <1>4, <1>9, <1>10, <1>11, SameReader, Zenon
<1>13. /\ received' = [e \in Client |-> received'[e]]
       /\ \A e \in Client : link'[e] = link[e] /\ received'[e] = received[e]
  BY <1>3, <1>4, Zenon
<1> QED
  BY <1>3, <1>6, <1>7, <1>12, <1>13, OneReader, Zenon

\* What was under way is lost with a slot, or an exit loses what has arrived, too:
\* ClientFails, ServerForgets and ClientExits.
LEMMA ReadersLose ==
  ASSUME UsersInv, ConversationInv, NEW c \in Client, LinkMoves(c), ~ Reaches(c)',
         \A d \in Client : d # c => link'[d] = link[d],
         down' = [down EXCEPT ![c] = <<>>], UNCHANGED <<received, log, m_users, rpc>>,
         inbox' = inbox \/ inbox' = [inbox EXCEPT ![c] = <<>>]
  PROVE  ConversationInv'
<1>1. PICK r, i, d : r = received[c] /\ i = inbox[c] /\ d = down[c]
  BY Zenon
<1>2. received' = received /\ UNCHANGED <<log, m_users, rpc>> /\ log' = log
  BY Zenon
<1>3. IsReader(c) /\ LinkType /\ IsSeq(log) /\ received = [e \in Client |-> received[e]]
  BY Zenon DEF ConversationInv, UsersInv
<1>4. PICK s : s = Pipeline(c) /\ s = (r \o i) \o d /\ IsSeq(s) /\ IsSeq(r) /\ IsSeq(i) /\ IsSeq(d)
  BY <1>1, <1>3, PipelineParts, Zenon
<1>5. /\ down' = [e \in Client |-> down'[e]] /\ down'[c] = <<>>
      /\ \A e \in Client : e # c => down'[e] = down[e]
  BY QueueSet, Zenon
<1>6. /\ inbox'[c] = i \/ inbox'[c] = <<>>
      /\ \A e \in Client : e # c => inbox'[e] = inbox[e]
  BY <1>1, InboxElsewhere, Zenon
<1>7. IsSeq(<<>>) /\ (r \o i) \o <<>> = r \o i /\ (r \o <<>>) \o <<>> = r /\ IsCut(s, r \o i) /\ IsCut(s, r)
  <2>1. Moves(r, i, d, r)
    BY <1>4, PipelineMoves, Zenon
  <2>2. IsSeq(<<>>)
    BY <1>4, SmallSeqs, Zenon
  <2> QED
    BY <1>4, <2>1, <2>2, Zenon DEF Moves
<1>8. PICK t : t = Pipeline(c)' /\ t = (received'[c] \o inbox'[c]) \o down'[c]
  BY Zenon DEF Pipeline
<1>9. IsCut(s, t)
  <2>1. CASE inbox'[c] = i
    <3>1. t = r \o i
      BY <1>1, <1>2, <1>5, <1>7, <1>8, <2>1, Zenon
    <3> QED
      BY <1>7, <3>1, Zenon
  <2>2. CASE inbox'[c] = <<>>
    <3>1. t = r
      BY <1>1, <1>2, <1>5, <1>7, <1>8, <2>2, Zenon
    <3> QED
      BY <1>7, <3>1, Zenon
  <2> QED
    BY <1>6, <2>1, <2>2, Zenon
<1>10. IsSeq(received'[c]) /\ IsSeq(inbox'[c]) /\ IsSeq(down'[c])
  BY <1>1, <1>2, <1>4, <1>5, <1>6, <1>7, Zenon
<1>11. \A N, S : Sound(t, N, S) /\ N \in Nat /\ S = LastSession(c) => Sound(t, N, S)
  BY Zenon
<1>12. IsReader(c)'
  BY <1>2, <1>3, <1>4, <1>8, <1>9, <1>10, <1>11, CutReader, Zenon
<1>13. received' = [e \in Client |-> received'[e]] /\ \A e \in Client : received'[e] = received[e]
  BY <1>2, <1>3, Zenon
<1> QED
  BY <1>2, <1>5, <1>6, <1>12, <1>13, OneReader, Zenon

\* A single note that is told to c.
LEMMA ToldNote ==
  ASSUME LinkType, IsSeq(log), NEW c \in Client,
         Reaches(c) \/ link[c].client \in {"up", "closing"},
         NEW kind, kind # "log", kind # "welcome"
  PROVE  IsNote(Told(c, kind, 0)) /\ IsDated(Told(c, kind, 0), Len(log), LastSession(c))
<1>1. LastSession(c) = link[c].session /\ LastSession(c) \in Nat
  BY ReachedSession, Zenon
<1>2. PICK S, N \in Nat : S = LastSession(c) /\ S = link[c].session /\ N = Len(log)
  BY <1>1, SeqFacts, Zenon
<1>3. PICK m : m = [kind |-> kind, n |-> 0, session |-> S] /\ m = Told(c, kind, 0)
  BY <1>2, Zenon DEF Told
<1>4. m.kind = kind /\ m.n = 0 /\ m.session = S
  BY ONLY <1>3
<1>5. IsDated(m, N, S)
  BY <1>4 DEF IsDated
<1> QED
  BY <1>2, <1>3, <1>4, <1>5, Zenon DEF IsNote

\* The notice of the end of a connection follows what has arrived.
LEMMA ReadersDrop ==
  ASSUME UsersInv, ConversationInv, NEW c \in Client, ClientDrops(c)
  PROVE  ConversationInv'
<1>1. PICK r, i, d, m : r = received[c] /\ i = inbox[c] /\ d = down[c] /\ m = Told(c, "off", 0)
  BY Zenon
<1>2. /\ inbox' = [inbox EXCEPT ![c] = Append(i, m)] /\ down' = [down EXCEPT ![c] = <<>>]
      /\ received' = received /\ UNCHANGED <<log, m_users, rpc>> /\ log' = log
      /\ ClientResets(c) /\ link[c].client \in {"up", "closing"}
  BY <1>1, Zenon DEF ClientDrops, ClientResets, Post, clients, server
<1>3. IsReader(c) /\ LinkType /\ IsSeq(log) /\ received = [e \in Client |-> received[e]]
  BY Zenon DEF ConversationInv, UsersInv
<1>4. PICK s : s = Pipeline(c) /\ s = (r \o i) \o d /\ IsSeq(s) /\ IsSeq(r) /\ IsSeq(i) /\ IsSeq(d)
  BY <1>1, <1>3, PipelineParts, Zenon
<1>5. /\ down' = [e \in Client |-> down'[e]] /\ down'[c] = <<>>
      /\ \A e \in Client : e # c => down'[e] = down[e]
  BY <1>2, QueueSet, Zenon
<1>6. inbox'[c] = Append(i, m) /\ \A e \in Client : e # c => inbox'[e] = inbox[e]
  BY <1>2, InboxElsewhere, Zenon
<1>7. PICK a, o, z : a = r \o i /\ o = <<m>> /\ z = <<>>
  BY Zenon
<1>8. IsCut(s, a) /\ IsSeq(Append(i, m)) /\ r \o Append(i, m) = a \o o /\ a \o z = a
  <2>1. Moves(r, i, d, m)
    BY <1>4, PipelineMoves, Zenon
  <2> QED
    BY <1>4, <1>7, <2>1, Zenon DEF Moves
<1>9. IsSeq(a) /\ IsSeq(o) /\ IsSeq(z) /\ \A k \in DOMAIN o : o[k] = m
  <2>1. IsSeq(o) /\ IsSeq(z) /\ Len(o) = 1 /\ o[1] = m
    BY <1>4, <1>7, SmallSeqs, Zenon
  <2>2. DOMAIN o = 1 .. 1
    BY <2>1, SeqFacts, Zenon
  <2>3. \A k \in 1 .. 1 : k = 1
    OBVIOUS
  <2> QED
    BY <1>8, <2>1, <2>2, <2>3, Zenon DEF IsCut
<1>10. PICK t : t = Pipeline(c)' /\ t = (a \o o) \o z
  <2>1. Pipeline(c)' = (received'[c] \o inbox'[c]) \o down'[c]
    BY Zenon DEF Pipeline
  <2> QED
    BY <1>1, <1>2, <1>5, <1>6, <1>7, <1>8, <2>1, Zenon
<1>11. IsNote(m) /\ IsDated(m, Len(log), LastSession(c))
  <2>1. "off" # "log" /\ "off" # "welcome"
    OBVIOUS
  <2> QED
    BY <1>1, <1>2, <1>3, <2>1, ToldNote, Zenon
<1>12. ASSUME NEW N, NEW S, Sound(a, N, S), N \in Nat, S = LastSession(c)
       PROVE  Sound(t, N, S)
  <2>1. IsDated(m, N, S)
    <3>1. m.n = 0
      BY <1>1 DEF Told
    <3> QED
      BY <1>11, <1>12, <3>1 DEF IsDated
  <2>2. \A k \in DOMAIN o : IsNote(o[k]) /\ IsDated(o[k], N, S)
    BY <1>9, <1>11, <2>1, Zenon
  <2>3. Sound(a \o z, N, S)
    BY <1>8, <1>12, Zenon
  <2>4. Sound((a \o o) \o z, N, S)
    BY <1>9, <2>2, <2>3, NotesBetween, Zenon
  <2> QED
    BY <1>10, <2>4, Zenon
<1>13. IsSeq(received'[c]) /\ IsSeq(inbox'[c]) /\ IsSeq(down'[c])
  BY <1>1, <1>2, <1>4, <1>5, <1>6, <1>7, <1>8, <1>9, Zenon
<1>14. LinkMoves(c) /\ ~ Reaches(c)'
  BY <1>2, <1>3, LinkStepMoves, Zenon
<1>15. IsReader(c)'
  BY <1>2, <1>3, <1>4, <1>8, <1>10, <1>12, <1>13, <1>14, CutReader, Zenon
<1>16. /\ received' = [e \in Client |-> received'[e]] /\ \A e \in Client : received'[e] = received[e]
       /\ \A e \in Client : e # c => link'[e] = link[e]
  <2>1. SlotsSet(c, "free", link[c].server, link[c].session, link[c].accepted)
    BY <1>2, <1>3, LinkSteps, Zenon
  <2> QED
    BY <1>2, <1>3, <2>1, Zenon DEF SlotsSet
<1> QED
  BY <1>2, <1>5, <1>6, <1>15, <1>16, OneReader, Zenon

\* A sequence of one message.
LEMMA OneMessage ==
  ASSUME NEW m
  PROVE  IsSeq(<<m>>) /\ \A k \in DOMAIN <<m>> : <<m>>[k] = m
<1>1. PICK o : o = <<m>>
  BY Zenon
<1>2. IsSeq(<<>>)
  BY EmptyIsSeq, Zenon
<1>3. IsSeq(o) /\ Len(o) = 1 /\ o[1] = m
  BY <1>1, <1>2, SmallSeqs, Zenon
<1>4. DOMAIN o = 1 .. 1
  BY <1>3, SeqFacts, Zenon
<1>5. \A k \in 1 .. 1 : k = 1
  OBVIOUS
<1> QED
  BY <1>1, <1>3, <1>4, <1>5, Zenon

\* The notice of success may come before what the server has sent meanwhile.
LEMMA ReadersEstablish ==
  ASSUME UsersInv, ConversationInv, NEW c \in Client, Establish(c)
  PROVE  ConversationInv'
<1>1. PICK r, i, d, m : r = received[c] /\ i = inbox[c] /\ d = down[c] /\ m = Told(c, "success", 0)
  BY Zenon
<1>2. /\ inbox' = [inbox EXCEPT ![c] = Append(i, m)] /\ down' = down
      /\ received' = received /\ UNCHANGED <<log, m_users, rpc>> /\ log' = log /\ m_users' = m_users
      /\ link[c].client = "greeted"
  BY <1>1, Zenon DEF Establish, Post, clients, server, wire
<1>3. /\ IsReader(c) /\ LinkType /\ IsSeq(log)
      /\ received = [e \in Client |-> received[e]] /\ down = [e \in Client |-> down[e]]
  BY Zenon DEF ConversationInv, UsersInv
<1>4. IsSeq(r) /\ IsSeq(i) /\ IsSeq(d) /\ IsSeq(r \o i) /\ Pipeline(c) = (r \o i) \o d
  BY <1>1, <1>3, PipelineParts, Zenon
<1>5. inbox'[c] = Append(i, m) /\ \A e \in Client : e # c => inbox'[e] = inbox[e]
  BY <1>2, InboxElsewhere, Zenon
<1>6. PICK a, o : a = r \o i /\ o = <<m>> /\ IsSeq(o) /\ \A k \in DOMAIN o : o[k] = m
  BY OneMessage, Zenon
<1>7. IsSeq(Append(i, m)) /\ r \o Append(i, m) = a \o o
  <2>1. Moves(r, i, d, m)
    BY <1>4, PipelineMoves, Zenon
  <2> QED
    BY <1>6, <2>1, Zenon DEF Moves
<1>8. Pipeline(c)' = (a \o o) \o d /\ Pipeline(c) = a \o d
  <2>1. Pipeline(c)' = (received'[c] \o inbox'[c]) \o down'[c]
    BY Zenon DEF Pipeline
  <2> QED
    BY <1>1, <1>2, <1>4, <1>5, <1>6, <1>7, <2>1, Zenon
<1>9. IsNote(m) /\ IsDated(m, Len(log), LastSession(c))
  <2>1. LastSession(c) = link[c].session /\ LastSession(c) \in Nat
    <3>1. PICK x : x = link[c] /\ x \in Slots
      BY <1>3, Zenon DEF LinkType
    <3> QED
      BY <1>2, <3>1 DEF LastSession, Slots
  <2>2. PICK S, N \in Nat : S = LastSession(c) /\ S = link[c].session /\ N = Len(log)
    BY <1>3, <2>1, SeqFacts, Zenon
  <2>3. m = [kind |-> "success", n |-> 0, session |-> S]
    BY <1>1, <2>2, Zenon DEF Told
  <2>4. IsNote(m) /\ IsDated(m, N, S)
    BY ONLY <2>3, S \in Nat, N \in Nat DEF IsDated, IsNote
  <2> QED
    BY <2>2, <2>4, Zenon
<1>10. \A k \in DOMAIN o : IsNote(o[k]) /\ IsDated(o[k], Len(log), LastSession(c))
  BY <1>6, <1>9, Zenon
<1>11. LinkMoves(c)
  BY <1>3, LinkStepMoves, Zenon
<1>12. IsSeq(received'[c]) /\ IsSeq(inbox'[c]) /\ IsSeq(down'[c]) /\ IsSeq(a)
  BY <1>1, <1>2, <1>4, <1>5, <1>6, <1>7, Zenon
<1>13. IsReader(c)'
  BY <1>2, <1>3, <1>4, <1>6, <1>8, <1>10, <1>11, <1>12, PaddedReader, Zenon
<1>14. SlotsSet(c, "up", "awaited", link[c].session, link[c].accepted)
  BY <1>3, LinkSteps, Zenon
<1>15. /\ received' = [e \in Client |-> received'[e]] /\ down' = [e \in Client |-> down'[e]]
       /\ \A e \in Client : received'[e] = received[e] /\ down'[e] = down[e]
       /\ \A e \in Client : e # c => link'[e] = link[e]
  BY <1>2, <1>3, <1>14, Zenon DEF SlotsSet
<1> QED
  BY <1>2, <1>5, <1>13, <1>15, OneReader, Zenon

\* More is under way.
LEMMA PipelineSent ==
  ASSUME NEW c, IsReader(c), NEW x, IsSeq(x), received'[c] = received[c], inbox'[c] = inbox[c],
         down'[c] = down[c] \o x
  PROVE  /\ IsSeq(received'[c]) /\ IsSeq(inbox'[c]) /\ IsSeq(down'[c])
         /\ Pipeline(c)' = Pipeline(c) \o x /\ IsSeq(Pipeline(c))
<1>1. PICK a, d : /\ a = received[c] \o inbox[c] /\ d = down[c] /\ IsSeq(a) /\ IsSeq(d)
                  /\ Pipeline(c) = a \o d /\ IsSeq(Pipeline(c))
  BY PipelineParts, Zenon
<1>2. IsAssoc(a, d, x)
  BY <1>1, ConcatAssoc, Zenon
<1>3. IsSeq(d \o x)
  <2>1. IsConcat(d, x, d \o x)
    BY <1>1, Concatenated, Zenon
  <2> QED
    BY <2>1, Zenon DEF IsConcat
<1>4. Pipeline(c)' = a \o (d \o x)
  BY <1>1, Zenon DEF Pipeline
<1>5. Pipeline(c)' = Pipeline(c) \o x
  BY <1>1, <1>2, <1>4, Zenon DEF IsAssoc
<1> QED
  BY <1>1, <1>3, <1>5, Zenon DEF IsReader

\* Notes are sent to c, and nothing else changes.
LEMMA NotesSent ==
  ASSUME NEW c \in Client, IsReader(c), LinkMoves(c), log' = log, m_users' = m_users, IsSeq(log),
         NEW x, IsSeq(x), received'[c] = received[c], inbox'[c] = inbox[c],
         down'[c] = down[c] \o x, \A k \in DOMAIN x : IsNote(x[k]),
         \A k \in DOMAIN x : IsDated(x[k], Len(log), LastSession(c))
  PROVE  IsReader(c)'
<1>1. PICK s : s = Pipeline(c) /\ IsSeq(s) /\ Pipeline(c)' = s \o x
  BY PipelineSent, Zenon
<1>2. IsSeq(received'[c]) /\ IsSeq(inbox'[c]) /\ IsSeq(down'[c])
  BY PipelineSent, Zenon
<1>3. PICK z, t : z = <<>> /\ t = s \o x /\ IsSeq(z)
  BY EmptyIsSeq, Zenon
<1>4. IsSeq(t)
  <2>1. IsConcat(s, x, t)
    BY <1>1, <1>3, Concatenated, Zenon
  <2> QED
    BY <2>1, Zenon DEF IsConcat
<1>5. s \o z = s
  BY <1>1, <1>3, SmallSeqs, Zenon
<1>6. t \o z = t
  BY <1>3, <1>4, SmallSeqs, Zenon
<1>7. Pipeline(c) = s \o z /\ Pipeline(c)' = (s \o x) \o z
  BY <1>1, <1>3, <1>5, <1>6, Zenon
<1> QED
  BY <1>1, <1>2, <1>3, <1>7, PaddedReader, Zenon

\* What SendToSpecific does to the queues.
IsSent(f, c, x, g) ==
  /\ g = [e \in Client |-> g[e]]
  /\ c \in Client /\ Reaches(c) => g[c] = f[c] \o x
  /\ c \in Client /\ ~ Reaches(c) => g[c] = f[c]
  /\ \A e \in Client : e # c => g[e] = f[e]

\* SendToSpecific has this effect.
LEMMA SentTo ==
  ASSUME NEW f, f = [e \in Client |-> f[e]], NEW c, NEW x
  PROVE  IsSent(f, c, x, SendToSpecific(f, c, x))
<1>1. PICK g : g = SendToSpecific(f, c, x)
  BY Zenon
<1>2. CASE Reaches(c)
  <2>1. PICK y : y = f[c] \o x
    BY Zenon
  <2>2. g = [f EXCEPT ![c] = y]
    BY <1>1, <1>2, <2>1, Zenon DEF SendToSpecific
  <2>3. DOMAIN f = Client
    BY Zenon
  <2>4. g = [e \in Client |-> IF e = c THEN y ELSE f[e]]
    BY ONLY <2>2, <2>3, Zenon
  <2>5. g = [e \in Client |-> g[e]] /\ (c \in Client => g[c] = y) /\ \A e \in Client : e # c => g[e] = f[e]
    BY ONLY <2>4
  <2>6. IsSent(f, c, x, g)
    BY <1>2, <2>1, <2>5, Zenon DEF IsSent
  <2> QED
    BY <1>1, <2>6, Zenon
<1>3. CASE ~ Reaches(c)
  <2>1. g = f
    BY <1>1, <1>3, Zenon DEF SendToSpecific
  <2>2. IsSent(f, c, x, g)
    BY <1>3, <2>1, Zenon DEF IsSent
  <2> QED
    BY <1>1, <2>2, Zenon
<1> QED
  BY <1>2, <1>3, Zenon

\* A signal is answered in private.
LEMMA ReadersSignal ==
  ASSUME UsersInv, ConversationInv, NEW c \in Client, TakeSignal(c)
  PROVE  ConversationInv'
<1>1. PICK b, x : b = Signal(rpc, "ExampleRPC") /\ x = [k \in DOMAIN b |-> Told(c, "note", 0)]
  BY Zenon
<1>2. /\ link' = link /\ inbox' = inbox /\ received' = received
      /\ UNCHANGED <<log, m_users, rpc>> /\ log' = log /\ m_users' = m_users
  BY Zenon DEF TakeSignal, server, clients
<1>3. /\ IsReader(c) /\ LinkType /\ IsSeq(log)
      /\ received = [e \in Client |-> received[e]] /\ down = [e \in Client |-> down[e]]
  BY Zenon DEF ConversationInv, UsersInv
<1>4. IsSeq(b)
  <2>1. CASE "ExampleRPC" \in DOMAIN rpc
    BY <1>1, <2>1, Zenon DEF Signal, ConversationInv
  <2>2. CASE "ExampleRPC" \notin DOMAIN rpc
    BY <1>1, <2>2, EmptyIsSeq, Zenon DEF Signal
  <2> QED
    BY <2>1, <2>2, Zenon
<1>5. IsSeq(x) /\ \A k \in DOMAIN x : x[k] = Told(c, "note", 0)
  <2>1. PICK n \in Nat : DOMAIN b = 1 .. n
    BY <1>4, SeqFacts, Zenon
  <2>2. PICK m : m = Told(c, "note", 0)
    BY Zenon
  <2>3. x = [k \in 1 .. n |-> m]
    BY <1>1, <2>1, <2>2, Zenon
  <2>4. x = [k \in 1 .. n |-> x[k]] /\ \A k \in DOMAIN x : x[k] = m
    BY ONLY <2>3
  <2> QED
    BY <2>2, <2>4, MadeSeq, Zenon
<1>6. /\ down' = [e \in Client |-> down'[e]] /\ (Reaches(c) => down'[c] = down[c] \o x)
      /\ (~ Reaches(c) => down'[c] = down[c]) /\ \A e \in Client : e # c => down'[e] = down[e]
  <2>1. down' = SendToSpecific(down, c, x)
    BY <1>1, Zenon DEF TakeSignal
  <2>2. IsSent(down, c, x, SendToSpecific(down, c, x))
    BY <1>3, SentTo, Zenon
  <2>3. IsSent(down, c, x, down')
    BY <2>1, <2>2, Zenon
  <2> QED
    BY <2>3, Zenon DEF IsSent
<1>7. LinkMoves(c) /\ received'[c] = received[c] /\ inbox'[c] = inbox[c]
  BY <1>2, <1>3, LinkStands, Zenon
<1>8. ASSUME Reaches(c)
      PROVE  IsReader(c)'
  <2>1. "note" # "log" /\ "note" # "welcome"
    OBVIOUS
  <2>2. \A k \in DOMAIN x : IsNote(x[k]) /\ IsDated(x[k], Len(log), LastSession(c))
    BY <1>3, <1>5, <1>8, <2>1, ToldNote, Zenon
  <2>3. down'[c] = down[c] \o x /\ IsSeq(x)
    BY <1>5, <1>6, <1>8, Zenon
  <2>4. log' = log /\ m_users' = m_users /\ IsReader(c) /\ IsSeq(log)
    BY <1>2, <1>3, Zenon
  <2> QED
    BY <1>7, <2>2, <2>3, <2>4, NotesSent, Zenon
<1>9. ASSUME ~ Reaches(c)
      PROVE  IsReader(c)'
  <2>1. Pipeline(c)' = Pipeline(c)
    BY <1>2, <1>6, <1>9, Zenon DEF Pipeline
  <2>2. IsSeq(received'[c]) /\ IsSeq(inbox'[c]) /\ IsSeq(down'[c])
    BY <1>3, <1>6, <1>7, <1>9, Zenon DEF IsReader
  <2>3. log' = log /\ m_users' = m_users /\ IsReader(c) /\ IsSeq(log)
    BY <1>2, <1>3, Zenon
  <2> QED
    BY <1>7, <2>1, <2>2, <2>3, SameReader, Zenon
<1>10. IsReader(c)'
  BY <1>8, <1>9, Zenon
<1>11. /\ received' = [e \in Client |-> received'[e]]
       /\ \A e \in Client : received'[e] = received[e] /\ inbox'[e] = inbox[e] /\ link'[e] = link[e]
  BY <1>2, <1>3, Zenon
<1> QED
  BY <1>2, <1>6, <1>10, <1>11, OneReader, Zenon

\* The steps that no client notices.
LEMMA ReadersQuiet ==
  ASSUME UsersInv, ConversationInv
  PROVE  /\ \A c \in Client :
              /\ ClientConnect(c) \/ ClientSends(c) \/ ClientDisconnects(c) \/ Greet(c) => ConversationInv'
              /\ Accept(c) \/ ServerDrops(c) \/ TakeDisconnect(c) \/ TakeMessage(c) => ConversationInv'
         /\ RpcRegisterSlot \/ MakeChannel \/ HandleIncomingPacket => ConversationInv'
<1>1. LinkType /\ \A i \in DOMAIN rpc : IsSeq(rpc[i])
  BY Zenon DEF UsersInv, ConversationInv
<1>2. ASSUME UNCHANGED <<received, down, log, m_users, rpc>>,
             \A d \in Client : inbox'[d] = inbox[d], \A d \in Client : LinkMoves(d)
      PROVE  ConversationInv'
  <2>1. \A i \in DOMAIN rpc' : IsSeq(rpc'[i])
    BY <1>1, <1>2, Zenon
  <2> QED
    BY <1>2, <2>1, QuietReaders, Zenon
<1>3. ASSUME NEW c \in Client, LinkMoves(c), \A d \in Client : d # c => link'[d] = link[d]
      PROVE  \A d \in Client : LinkMoves(d)
  BY <1>1, <1>3, LinkStands, Zenon
<1>4. ASSUME link' = link
      PROVE  \A d \in Client : LinkMoves(d)
  BY <1>1, <1>4, LinkStands, Zenon
<1>5. ASSUME NEW m, Post(Server, m)
      PROVE  \A d \in Client : inbox'[d] = inbox[d]
  <2>1. Server \in Process /\ \A d \in Client : d \in Process /\ d # Server
    BY ServerAssumption DEF Process
  <2>2. inbox' = [inbox EXCEPT ![Server] = Append(inbox[Server], m)] /\ inbox = [p \in Process |-> inbox[p]]
    BY <1>5, Zenon DEF Post, UsersInv
  <2>3. \A p \in Process : p # Server => inbox'[p] = inbox[p]
    BY <2>1, <2>2, OnePlace, Zenon
  <2> QED
    BY <2>1, <2>3, Zenon
<1>6. ASSUME NEW c \in Client, ClientConnect(c) \/ ClientDisconnects(c) \/ Greet(c)
      PROVE  ConversationInv'
  <2>1. UNCHANGED <<received, down, log, m_users, rpc>> /\ \A d \in Client : inbox'[d] = inbox[d]
    BY <1>6, Zenon DEF ClientConnect, ClientDisconnects, Greet, wire, server, clients
  <2>2. LinkMoves(c)
    BY <1>1, <1>6, LinkStepMoves, Zenon
  <2>3. \A d \in Client : d # c => link'[d] = link[d]
    BY <1>1, <1>6, LinkSteps, Zenon DEF SlotsSet
  <2> QED
    BY <1>2, <1>3, <2>1, <2>2, <2>3, Zenon
<1>7. ASSUME NEW c \in Client, ClientSends(c) \/ TakeMessage(c)
      PROVE  ConversationInv'
  <2>1. /\ UNCHANGED <<received, down, log, m_users, rpc>> /\ link' = link
        /\ \A d \in Client : inbox'[d] = inbox[d]
    BY <1>7, Zenon DEF ClientSends, TakeMessage, server, clients
  <2> QED
    BY <1>2, <1>4, <2>1, Zenon
<1>8. ASSUME NEW c \in Client, Accept(c) \/ ServerDrops(c) \/ TakeDisconnect(c)
      PROVE  ConversationInv'
  <2>1. UNCHANGED <<received, down, log, m_users, rpc>> /\ \E m : Post(Server, m)
    BY <1>8, Zenon DEF Accept, ServerDrops, TakeDisconnect, wire, server, clients
  <2>2. Accept(c) \/ ServerResets(c)
    BY <1>8, Zenon DEF ServerDrops, TakeDisconnect
  <2>3. LinkMoves(c)
    BY <1>1, <2>2, LinkStepMoves, Zenon
  <2>4. \A d \in Client : d # c => link'[d] = link[d]
    BY <1>1, <2>2, LinkSteps, Zenon DEF SlotsSet
  <2> QED
    BY <1>2, <1>3, <1>5, <2>1, <2>3, <2>4, Zenon
<1>9. ASSUME MakeChannel \/ HandleIncomingPacket
      PROVE  ConversationInv'
  <2>1. UNCHANGED <<received, down, log, m_users, rpc>> /\ link' = link
    BY <1>9, Zenon DEF MakeChannel, HandleIncomingPacket, wire, server, clients
  <2>2. \A d \in Client : inbox'[d] = inbox[d]
    BY <1>5, <1>9, Zenon DEF MakeChannel, HandleIncomingPacket
  <2> QED
    BY <1>2, <1>4, <2>1, <2>2, Zenon
<1>10. ASSUME RpcRegisterSlot
       PROVE  ConversationInv'
  <2>1. UNCHANGED <<received, down, log, m_users>> /\ link' = link /\ inbox' = inbox
    BY <1>10, Zenon DEF RpcRegisterSlot, wire, clients
  <2>2. rpc' = Slot(rpc, "ExampleRPC", "ExampleRPC")
    BY <1>10, Zenon DEF RpcRegisterSlot
  <2>3. ASSUME NEW i \in DOMAIN rpc'
        PROVE  IsSeq(rpc'[i])
    <3>1. PICK y : y = IF i \in DOMAIN rpc THEN rpc[i] ELSE <<>>
      BY Zenon
    <3>2. IsSeq(y)
      BY <1>1, <3>1, EmptyIsSeq, Zenon
    <3>3. IsAppend(y, "ExampleRPC", Append(y, "ExampleRPC"))
      BY <3>2, Appended, Zenon
    <3>4. IsSeq(Append(y, "ExampleRPC"))
      BY <3>3, Zenon DEF IsAppend
    <3>5. DOMAIN rpc' = DOMAIN rpc \cup {"ExampleRPC"}
      BY <2>2, Zenon DEF Slot
    <3>6. rpc'[i] = IF i # "ExampleRPC" THEN rpc[i] ELSE Append(y, "ExampleRPC")
      BY <2>2, <2>3, <3>1, <3>5, Zenon DEF Slot
    <3> QED
      BY <1>1, <2>3, <3>4, <3>5, <3>6, Zenon
  <2> QED
    BY <1>4, <2>1, <2>3, QuietReaders, Zenon
<1> QED
  BY <1>6, <1>7, <1>8, <1>9, <1>10, Zenon

-----------------------------------------------------------------------------
(***************************************************************************)
(* What a client reads: a turn of the server.                              *)
(***************************************************************************)

\* The log has grown by an entry, and this is all that concerns the client c.
Grown(c) ==
  /\ IsReader(c) /\ LinkType /\ IsSeq(log) /\ IsSeq(log') /\ Len(log') = Len(log) + 1
  /\ link' = link /\ received'[c] = received[c] /\ inbox'[c] = inbox[c]

\* The last of what the client was sent, and then m.
LEMMA ToldAtEnd ==
  ASSUME NEW c \in Client, Grown(c), Reaches(c), NEW m, down'[c] = down[c] \o <<m>>,
         \A s, t : Sound(s, Len(log), link[c].session) /\ IsSeq(s) /\ IsAppend(s, m, t)
                     /\ (c \in Ids(m_users) => UpToDate(s, link[c].session, Len(log)))
                   => Sound(t, Len(log) + 1, link[c].session) /\ UpToDate(t, link[c].session, Len(log) + 1)
  PROVE  IsReader(c)'
<1>1. IsReader(c) /\ LinkType /\ link' = link /\ received'[c] = received[c] /\ inbox'[c] = inbox[c]
  BY Zenon DEF Grown
<1>2. IsSeq(<<m>>)
  BY OneMessage, Zenon
<1>3. PICK s, t : s = Pipeline(c) /\ t = Pipeline(c)' /\ t = s \o <<m>> /\ IsSeq(s)
  BY <1>1, <1>2, PipelineSent, Zenon
<1>4. IsSeq(received'[c]) /\ IsSeq(inbox'[c]) /\ IsSeq(down'[c])
  BY <1>1, <1>2, PipelineSent, Zenon
<1>5. IsAppend(s, m, t)
  <2>1. Append(s, m) = s \o <<m>>
    BY <1>3, SmallSeqs, Zenon
  <2>2. IsAppend(s, m, Append(s, m))
    BY <1>3, Appended, Zenon
  <2>3. Append(s, m) = t
    BY <1>3, <2>1, Zenon
  <2> QED
    BY <2>2, <2>3, Zenon
<1>6. LastSession(c) = link[c].session /\ LastSession(c)' = link[c].session /\ link'[c].session = link[c].session
  BY <1>1, ReachedSession, Zenon DEF LastSession
<1>7. Sound(s, Len(log), link[c].session) /\ (c \in Ids(m_users) => UpToDate(s, link[c].session, Len(log)))
  BY <1>1, <1>3, <1>6, Zenon DEF IsReader, Reads
<1>8. Sound(t, Len(log) + 1, link[c].session) /\ UpToDate(t, link[c].session, Len(log) + 1)
  BY <1>3, <1>5, <1>7, Zenon
<1>9. Len(log') = Len(log) + 1
  BY Zenon DEF Grown
<1>10. Sound(t, Len(log'), LastSession(c)') /\ UpToDate(t, link'[c].session, Len(log'))
  BY <1>6, <1>8, <1>9, Zenon
<1>11. Sound(Pipeline(c)', Len(log'), LastSession(c)') /\ UpToDate(Pipeline(c)', link'[c].session, Len(log'))
  BY <1>3, <1>10, Zenon
<1> QED
  BY <1>4, <1>11, Zenon DEF IsReader, Reads

\* A user gets the entry.
LEMMA NewsTold ==
  ASSUME NEW c \in Client, Grown(c), Reaches(c), c \in Ids(m_users),
         down'[c] = down[c] \o <<Told(c, "log", Len(log) + 1)>>
  PROVE  IsReader(c)'
<1>1. PICK N, S \in Nat : N = Len(log) /\ S = link[c].session
  BY ReachedSession, SeqFacts, Zenon DEF Grown
<1>2. PICK m : m = [kind |-> "log", n |-> N + 1, session |-> S] /\ m = Told(c, "log", Len(log) + 1)
  BY <1>1, Zenon DEF Told
<1>3. m.kind = "log" /\ m.n = N + 1 /\ m.session = S
  BY ONLY <1>2
<1>4. ASSUME NEW s, NEW t, Sound(s, N, S), IsSeq(s), IsAppend(s, m, t), UpToDate(s, S, N)
      PROVE  Sound(t, N + 1, S) /\ UpToDate(t, S, N + 1)
  BY <1>3, <1>4, NewsAtEnd, Zenon
<1>5. \A s, t : Sound(s, Len(log), link[c].session) /\ IsSeq(s) /\ IsAppend(s, m, t)
                  /\ (c \in Ids(m_users) => UpToDate(s, link[c].session, Len(log)))
                => Sound(t, Len(log) + 1, link[c].session) /\ UpToDate(t, link[c].session, Len(log) + 1)
  BY <1>1, <1>4, Zenon
<1>6. down'[c] = down[c] \o <<m>>
  BY <1>2, Zenon
<1> QED
  BY <1>5, <1>6, ToldAtEnd, Zenon

\* Who joins gets the welcome.
LEMMA WelcomeTold ==
  ASSUME NEW c \in Client, Grown(c), Reaches(c),
         down'[c] = down[c] \o <<Told(c, "welcome", Len(log) + 1)>>
  PROVE  IsReader(c)'
<1>1. PICK N, S \in Nat : N = Len(log) /\ S = link[c].session
  BY ReachedSession, SeqFacts, Zenon DEF Grown
<1>2. PICK m : m = [kind |-> "welcome", n |-> N + 1, session |-> S] /\ m = Told(c, "welcome", Len(log) + 1)
  BY <1>1, Zenon DEF Told
<1>3. m.kind = "welcome" /\ m.n = N + 1 /\ m.session = S
  BY ONLY <1>2
<1>4. ASSUME NEW s, NEW t, Sound(s, N, S), IsSeq(s), IsAppend(s, m, t)
      PROVE  Sound(t, N + 1, S) /\ UpToDate(t, S, N + 1)
  BY <1>3, <1>4, WelcomeAtEnd, Zenon
<1>5. \A s, t : Sound(s, Len(log), link[c].session) /\ IsSeq(s) /\ IsAppend(s, m, t)
                  /\ (c \in Ids(m_users) => UpToDate(s, link[c].session, Len(log)))
                => Sound(t, Len(log) + 1, link[c].session) /\ UpToDate(t, link[c].session, Len(log) + 1)
  BY <1>1, <1>4, Zenon
<1>6. down'[c] = down[c] \o <<m>>
  BY <1>2, Zenon
<1> QED
  BY <1>5, <1>6, ToldAtEnd, Zenon

\* Who is not told is not, or no longer, a user who can be reached.
LEMMA NotTold ==
  ASSUME NEW c \in Client, Grown(c), down'[c] = down[c], ~ (Reaches(c) /\ c \in Ids(m_users'))
  PROVE  IsReader(c)'
<1>1. IsReader(c) /\ LinkType /\ link' = link /\ received'[c] = received[c] /\ inbox'[c] = inbox[c]
  BY Zenon DEF Grown
<1>2. IsSeq(received'[c]) /\ IsSeq(inbox'[c]) /\ IsSeq(down'[c])
  BY <1>1, Zenon DEF IsReader
<1>3. Pipeline(c)' = Pipeline(c)
  BY <1>1, Zenon DEF Pipeline
<1>4. PICK s, N, S, M, T : /\ s = Pipeline(c) /\ N = Len(log) /\ S = LastSession(c)
                           /\ M = Len(log') /\ T = LastSession(c)' /\ T = S
  BY <1>1, Zenon DEF LastSession
<1>5. Sound(s, N, S) /\ S \in Int
  BY <1>1, <1>4, ReachedSession, Zenon DEF IsReader, Reads
<1>6. N \in Nat /\ M = N + 1
  BY <1>4, SeqFacts, Zenon DEF Grown
<1>7. N \in Int /\ M \in Int /\ N <= M
  BY ONLY <1>6
<1>8. S <= S
  BY ONLY <1>5
<1>9. Sound(s, M, S)
  BY <1>5, <1>7, <1>8, SoundGrows, Zenon
<1>10. Sound(Pipeline(c)', Len(log'), LastSession(c)')
  BY <1>3, <1>4, <1>9, Zenon
<1>11. ~ (Reaches(c)' /\ c \in Ids(m_users'))
  BY <1>1, Zenon DEF Reaches
<1>12. Ids(m_users)' = Ids(m_users')
  BY Zenon DEF Ids
<1> QED
  BY <1>2, <1>10, <1>11, <1>12, Zenon DEF IsReader, Reads

\* What Broadcast leaves in the queues.
IsBroadcast(users, g) ==
  /\ g = [e \in Client |-> g[e]]
  /\ \A e \in Client :
       /\ e \in Ids(users) /\ Reaches(e) => g[e] = down[e] \o <<Told(e, "log", Len(log) + 1)>>
       /\ ~ (e \in Ids(users) /\ Reaches(e)) => g[e] = down[e]

\* Broadcast has this effect.
LEMMA BroadcastTells ==
  ASSUME down = [e \in Client |-> down[e]], NEW users
  PROVE  IsBroadcast(users, Broadcast(users))
<1>1. PICK g : g = Broadcast(users)
  BY Zenon
<1>2. g = [e \in Client |-> IF e \in Ids(users)
                            THEN SendToSpecific(down, e, <<Told(e, "log", Len(log) + 1)>>)[e]
                            ELSE down[e]]
  BY <1>1, Zenon DEF Broadcast
<1>3. g = [e \in Client |-> g[e]]
  BY <1>2, Zenon
<1>4. ASSUME NEW e \in Client
      PROVE  /\ e \in Ids(users) /\ Reaches(e) => g[e] = down[e] \o <<Told(e, "log", Len(log) + 1)>>
             /\ ~ (e \in Ids(users) /\ Reaches(e)) => g[e] = down[e]
  <2>1. PICK x, y : x = <<Told(e, "log", Len(log) + 1)>> /\ y = SendToSpecific(down, e, x)
    BY Zenon
  <2>2. g[e] = IF e \in Ids(users) THEN y[e] ELSE down[e]
    BY <1>2, <1>4, <2>1, Zenon
  <2>3. IsSent(down, e, x, SendToSpecific(down, e, x))
    BY SentTo, Zenon
  <2>4. (Reaches(e) => y[e] = down[e] \o x) /\ (~ Reaches(e) => y[e] = down[e])
    BY <1>4, <2>1, <2>3, Zenon DEF IsSent
  <2> QED
    BY <2>1, <2>2, <2>4, Zenon
<1>5. IsBroadcast(users, g)
  BY <1>3, <1>4, Zenon DEF IsBroadcast
<1> QED
  BY <1>1, <1>5, Zenon

\* What a turn of the server leaves alone.
IsServerTurn ==
  /\ inbox[Server] # <<>> /\ inbox' = DequeueIncoming(Server)
  /\ link' = link /\ received' = received /\ rpc' = rpc

\* A turn of the server takes nothing from the clients' inboxes.
LEMMA TurnElsewhere ==
  ASSUME UsersInv, IsServerTurn
  PROVE  \A e \in Client : inbox'[e] = inbox[e] /\ received'[e] = received[e]
<1>1. Server \in Process /\ \A d \in Client : d \in Process /\ d # Server
  BY ServerAssumption DEF Process
<1>2. inbox' = [inbox EXCEPT ![Server] = Tail(inbox[Server])] /\ inbox = [p \in Process |-> inbox[p]]
  BY Zenon DEF IsServerTurn, DequeueIncoming, UsersInv
<1>3. \A p \in Process : p # Server => inbox'[p] = inbox[p]
  BY <1>1, <1>2, OnePlace, Zenon
<1> QED
  BY <1>1, <1>3, Zenon DEF IsServerTurn

\* A turn in which the log grows by an entry.
LEMMA TurnGrows ==
  ASSUME UsersInv, ConversationInv, IsServerTurn, NEW x, log' = Append(log, x), NEW c \in Client
  PROVE  Grown(c)
<1>1. IsAppend(log, x, log')
  BY Appended, Zenon DEF UsersInv
<1>2. IsSeq(log) /\ IsSeq(log') /\ Len(log') = Len(log) + 1
  BY <1>1, Zenon DEF IsAppend, UsersInv
<1>3. IsReader(c) /\ LinkType /\ link' = link
  BY Zenon DEF UsersInv, ConversationInv, IsServerTurn
<1>4. received'[c] = received[c] /\ inbox'[c] = inbox[c]
  BY TurnElsewhere, Zenon
<1> QED
  BY <1>2, <1>3, <1>4, Zenon DEF Grown

\* It is enough to look at every client's reading.
LEMMA TurnReads ==
  ASSUME ConversationInv, IsServerTurn, down' = [e \in Client |-> down'[e]],
         \A e \in Client : IsReader(e)'
  PROVE  ConversationInv'
<1>1. received' = [e \in Client |-> received'[e]] /\ \A i \in DOMAIN rpc' : IsSeq(rpc'[i])
  BY Zenon DEF ConversationInv, IsServerTurn
<1> QED
  BY <1>1, Zenon DEF ConversationInv

\* An entry is broadcast, and nobody joins.
LEMMA ReadersNews ==
  ASSUME UsersInv, ConversationInv, IsServerTurn, NEW x, log' = Append(log, x),
         down' = Broadcast(m_users), Ids(m_users') \subseteq Ids(m_users)
  PROVE  ConversationInv'
<1>1. IsBroadcast(m_users, down')
  BY BroadcastTells, Zenon DEF ConversationInv
<1>2. ASSUME NEW e \in Client
      PROVE  IsReader(e)'
  <2>1. Grown(e)
    BY TurnGrows, Zenon
  <2>2. CASE e \in Ids(m_users) /\ Reaches(e)
    <3>1. down'[e] = down[e] \o <<Told(e, "log", Len(log) + 1)>>
      BY <1>1, <2>2, Zenon DEF IsBroadcast
    <3> QED
      BY <2>1, <2>2, <3>1, NewsTold, Zenon
  <2>3. CASE ~ (e \in Ids(m_users) /\ Reaches(e))
    <3>1. down'[e] = down[e]
      BY <1>1, <2>3, Zenon DEF IsBroadcast
    <3>2. ~ (Reaches(e) /\ e \in Ids(m_users'))
      BY <2>3, Zenon
    <3> QED
      BY <2>1, <3>1, <3>2, NotTold, Zenon
  <2> QED
    BY <2>2, <2>3, Zenon
<1>3. down' = [e \in Client |-> down'[e]]
  BY <1>1, Zenon DEF IsBroadcast
<1> QED
  BY <1>2, <1>3, TurnReads, Zenon

\* Someone joins who is not a user yet: the users get the entry, the newcomer
\* the welcome.
LEMMA ReadersJoin ==
  ASSUME UsersInv, ConversationInv, IsServerTurn, UserJoins(Receive(Server))
  PROVE  ConversationInv'
<1>1. PICK u, s, q, v, t, r : IsTurn(u, s, q, v, t, r)
  BY TurnParts, Zenon DEF IsServerTurn
<1>2. PICK m, c, b, w : /\ m = s[1] /\ c = m.from /\ b = <<c, m.session, 0>>
                        /\ w = <<Told(c, "welcome", Len(log) + 1)>>
  BY Zenon
<1>3. /\ m.kind = "incoming" /\ v = Append(u, [id |-> c, nick |-> b])
      /\ down' = SendToSpecific(Broadcast(m_users), c, w)
      /\ log' = Append(log, Entry("joined", b, m))
  BY <1>1, <1>2, Zenon DEF UserJoins, IsTurn
<1>4. IsSeq(u) /\ IsSeq(s) /\ s # <<>> /\ IsHistory(u, s, q) /\ Alternates(q) /\ u = m_users /\ v = m_users'
  BY <1>1, Zenon DEF IsTurn
<1>5. c \notin Ids(m_users)
  <2>1. IsJoin(s[1])
    BY <1>2, <1>3, Zenon DEF IsJoin
  <2>2. \A k \in DOMAIN u : s[1].from # u[k].id
    BY <1>4, <2>1, UsersOnce, Zenon
  <2> QED
    BY <1>2, <1>4, <2>2, Zenon DEF Ids
<1>6. PICK x : x = [id |-> c, nick |-> b] /\ x.id = c
  <2>1. PICK x : x = [id |-> c, nick |-> b]
    BY Zenon
  <2>2. x.id = c
    BY ONLY <2>1
  <2> QED
    BY <2>1, <2>2, Zenon
<1>7. \A e \in Ids(m_users') : e # c => e \in Ids(m_users)
  <2>1. IsAppend(u, x, v)
    BY <1>3, <1>4, <1>6, Appended, Zenon
  <2>2. PICK n \in Nat : n = Len(u) /\ DOMAIN u = 1 .. n /\ DOMAIN v = 1 .. n + 1
    <3>1. IsSeq(u) /\ IsSeq(v) /\ Len(v) = Len(u) + 1
      BY <1>4, <2>1, Zenon DEF IsAppend
    <3> QED
      BY <3>1, SeqFacts, Zenon
  <2>3. \A k \in 1 .. n + 1 : k \in 1 .. n \/ k = n + 1
    OBVIOUS
  <2>4. (\A k \in 1 .. n : v[k] = u[k]) /\ v[n + 1] = x
    BY <2>1, <2>2, Zenon DEF IsAppend
  <2>5. \A k \in DOMAIN v : v[k].id = c \/ v[k].id \in {u[i].id : i \in DOMAIN u}
    BY <1>6, <2>2, <2>3, <2>4, Zenon
  <2>6. Ids(m_users') = {v[k].id : k \in DOMAIN v} /\ Ids(m_users) = {u[i].id : i \in DOMAIN u}
    BY <1>4, Zenon DEF Ids
  <2>7. \A e \in {v[k].id : k \in DOMAIN v} : e # c => e \in {u[i].id : i \in DOMAIN u}
    BY <2>5, Zenon
  <2> QED
    BY <2>6, <2>7, Zenon
<1>8. PICK g : g = Broadcast(m_users) /\ IsBroadcast(m_users, g)
  BY BroadcastTells, Zenon DEF ConversationInv
<1>9. IsSent(g, c, w, down')
  <2>1. g = [e \in Client |-> g[e]]
    BY <1>8, Zenon DEF IsBroadcast
  <2>2. IsSent(g, c, w, SendToSpecific(g, c, w))
    BY <2>1, SentTo, Zenon
  <2> QED
    BY <1>3, <1>8, <2>2, Zenon
<1>10. ASSUME NEW e \in Client, e # c
       PROVE  IsReader(e)'
  <2>1. Grown(e) /\ down'[e] = g[e]
    BY <1>3, <1>9, <1>10, TurnGrows, Zenon DEF IsSent
  <2>2. CASE e \in Ids(m_users) /\ Reaches(e)
    <3>1. down'[e] = down[e] \o <<Told(e, "log", Len(log) + 1)>>
      BY <1>8, <1>10, <2>1, <2>2, Zenon DEF IsBroadcast
    <3> QED
      BY <2>1, <2>2, <3>1, NewsTold, Zenon
  <2>3. CASE ~ (e \in Ids(m_users) /\ Reaches(e))
    <3>1. down'[e] = down[e]
      BY <1>8, <1>10, <2>1, <2>3, Zenon DEF IsBroadcast
    <3>2. ~ (Reaches(e) /\ e \in Ids(m_users'))
      BY <1>7, <1>10, <2>3, Zenon
    <3> QED
      BY <2>1, <3>1, <3>2, NotTold, Zenon
  <2> QED
    BY <2>2, <2>3, Zenon
<1>11. ASSUME c \in Client
       PROVE  IsReader(c)'
  <2>1. Grown(c)
    BY <1>3, <1>11, TurnGrows, Zenon
  <2>2. g[c] = down[c]
    BY <1>5, <1>8, <1>11, Zenon DEF IsBroadcast
  <2>3. CASE Reaches(c)
    <3>1. down'[c] = down[c] \o <<Told(c, "welcome", Len(log) + 1)>>
      BY <1>2, <1>9, <1>11, <2>2, <2>3, Zenon DEF IsSent
    <3> QED
      BY <1>11, <2>1, <2>3, <3>1, WelcomeTold, Zenon
  <2>4. CASE ~ Reaches(c)
    <3>1. down'[c] = down[c]
      BY <1>9, <1>11, <2>2, <2>4, Zenon DEF IsSent
    <3> QED
      BY <1>11, <2>1, <2>4, <3>1, NotTold, Zenon
  <2> QED
    BY <2>3, <2>4, Zenon
<1>12. \A e \in Client : IsReader(e)'
  BY <1>10, <1>11, Zenon
<1>13. down' = [e \in Client |-> down'[e]]
  BY <1>9, Zenon DEF IsSent
<1> QED
  BY <1>12, <1>13, TurnReads, Zenon

\* No new user in a list whose users are all in the other.
LEMMA IdsWithin ==
  ASSUME NEW u, NEW v, \A k \in DOMAIN v : \E i \in DOMAIN u : v[k].id = u[i].id
  PROVE  Ids(v) \subseteq Ids(u)
<1>1. \A k \in DOMAIN v : v[k].id \in {u[i].id : i \in DOMAIN u}
  BY Zenon
<1>2. \A e \in {v[k].id : k \in DOMAIN v} : e \in {u[i].id : i \in DOMAIN u}
  BY <1>1, Zenon
<1> QED
  BY <1>2, Zenon DEF Ids

\* A turn in which nothing is sent.
LEMMA ReadersSilent ==
  ASSUME UsersInv, ConversationInv, IsServerTurn, UNCHANGED <<down, log, m_users>>
  PROVE  ConversationInv'
<1>1. UNCHANGED <<received, down, log, m_users>> /\ LinkType /\ link' = link
  BY Zenon DEF UsersInv, IsServerTurn
<1>2. \A c \in Client : LinkMoves(c)
  BY <1>1, LinkStands, Zenon
<1>3. \A c \in Client : inbox'[c] = inbox[c]
  BY TurnElsewhere, Zenon
<1>4. \A i \in DOMAIN rpc' : IsSeq(rpc'[i])
  BY Zenon DEF ConversationInv, IsServerTurn
<1> QED
  BY <1>1, <1>2, <1>3, <1>4, QuietReaders, Zenon

\* Someone leaves: an entry for all, or nothing if there is no such user.
LEMMA ReadersLeave ==
  ASSUME UsersInv, ConversationInv, IsServerTurn, UserLeaves(Receive(Server))
  PROVE  ConversationInv'
<1>1. PICK m, p : m = Receive(Server) /\ p = FindUser(m.from)
  BY Zenon
<1>2. /\ log' = IF p = 0 THEN log ELSE Append(log, Entry("left", m_users[p].nick, m))
      /\ down' = IF p = 0 THEN down ELSE Broadcast(m_users)
      /\ m_users' = IF p = 0 THEN m_users ELSE Erase(m_users, p)
  BY <1>1, Zenon DEF UserLeaves, Left
<1>3. CASE p = 0
  BY <1>2, <1>3, ReadersSilent, Zenon
<1>4. CASE p # 0
  <2>1. PICK u, v : u = m_users /\ v = m_users' /\ v = Erase(u, p) /\ IsSeq(u)
    BY <1>2, <1>4, Zenon DEF UsersInv
  <2>2. p \in DOMAIN u
    BY <1>1, <1>4, <2>1, FindUserFinds, Zenon
  <2>3. IsRemoval(u, p, v)
    BY <2>1, <2>2, Removed, Zenon
  <2>4. PICK n, l \in Nat : n = Len(v) /\ DOMAIN v = 1 .. n /\ l = Len(u) /\ DOMAIN u = 1 .. l
    BY <2>1, <2>3, SeqFacts, Zenon DEF IsRemoval
  <2>5. l = n + 1 /\ \A k \in 1 .. n : v[k] = u[IF k < p THEN k ELSE k + 1]
    BY <2>3, <2>4, Zenon DEF IsRemoval
  <2>6. \A k \in 1 .. n : (IF k < p THEN k ELSE k + 1) \in 1 .. l
    BY ONLY <2>5, n \in Nat
  <2>7. \A k \in DOMAIN v : \E i \in DOMAIN u : v[k].id = u[i].id
    BY <2>4, <2>5, <2>6, Zenon
  <2>8. Ids(v) \subseteq Ids(u)
    BY <2>7, IdsWithin, Zenon
  <2>9. Ids(m_users') \subseteq Ids(m_users) /\ down' = Broadcast(m_users)
    BY <1>2, <1>4, <2>1, <2>8, Zenon
  <2>10. PICK x : log' = Append(log, x)
    BY <1>2, <1>4, Zenon
  <2> QED
    BY <2>9, <2>10, ReadersNews, Zenon
<1> QED
  BY <1>3, <1>4, Zenon

\* An answer in private.
LEMMA ReadersAnswer ==
  ASSUME UsersInv, ConversationInv, IsServerTurn, UNCHANGED <<log, m_users>>, NEW c,
         down' = SendToSpecific(down, c, <<Told(c, "note", 0)>>)
  PROVE  ConversationInv'
<1>1. PICK x : x = <<Told(c, "note", 0)>>
  BY Zenon
<1>2. IsSent(down, c, x, down')
  BY <1>1, SentTo, Zenon DEF ConversationInv
<1>3. /\ down' = [e \in Client |-> down'[e]] /\ \A e \in Client : e # c => down'[e] = down[e]
      /\ log' = log /\ m_users' = m_users /\ IsSeq(log) /\ LinkType /\ link' = link
  BY <1>2, Zenon DEF IsSent, IsServerTurn, UsersInv
<1>4. ASSUME NEW e \in Client
      PROVE  /\ IsReader(e) /\ LinkMoves(e) /\ received'[e] = received[e] /\ inbox'[e] = inbox[e]
             /\ (down'[e] = down[e] => IsReader(e)')
  <2>1. IsReader(e) /\ LinkMoves(e) /\ received'[e] = received[e] /\ inbox'[e] = inbox[e]
    BY <1>3, <1>4, LinkStands, TurnElsewhere, Zenon DEF ConversationInv
  <2>2. ASSUME down'[e] = down[e]
        PROVE  IsReader(e)'
    <3>1. Pipeline(e)' = Pipeline(e)
      BY <2>1, <2>2, Zenon DEF Pipeline
    <3>2. IsSeq(received'[e]) /\ IsSeq(inbox'[e]) /\ IsSeq(down'[e])
      BY <2>1, <2>2, Zenon DEF IsReader
    <3> QED
      BY <1>3, <2>1, <3>1, <3>2, SameReader, Zenon
  <2> QED
    BY <2>1, <2>2, Zenon
<1>5. ASSUME c \in Client
      PROVE  IsReader(c)'
  <2>1. CASE Reaches(c)
    <3>1. "note" # "log" /\ "note" # "welcome"
      OBVIOUS
    <3>2. IsSeq(x) /\ \A k \in DOMAIN x : x[k] = Told(c, "note", 0)
      BY <1>1, OneMessage, Zenon
    <3>3. \A k \in DOMAIN x : IsNote(x[k]) /\ IsDated(x[k], Len(log), LastSession(c))
      BY <1>3, <1>5, <2>1, <3>1, <3>2, ToldNote, Zenon
    <3>4. down'[c] = down[c] \o x
      BY <1>2, <1>5, <2>1, Zenon DEF IsSent
    <3>5. log' = log /\ m_users' = m_users /\ IsSeq(log)
      BY <1>3, Zenon
    <3>6. IsReader(c) /\ LinkMoves(c) /\ received'[c] = received[c] /\ inbox'[c] = inbox[c]
      BY <1>4, <1>5, Zenon
    <3> QED
      BY <1>5, <3>2, <3>3, <3>4, <3>5, <3>6, NotesSent, Zenon
  <2>2. CASE ~ Reaches(c)
    BY <1>2, <1>4, <1>5, <2>2, Zenon DEF IsSent
  <2> QED
    BY <2>1, <2>2, Zenon
<1>6. \A e \in Client : IsReader(e)'
  BY <1>3, <1>4, <1>5, Zenon
<1> QED
  BY <1>3, <1>6, TurnReads, Zenon

\* A user says something, takes another nick or asks for the list.
LEMMA ReadersSpeak ==
  ASSUME UsersInv, ConversationInv, IsServerTurn, UserSpeaks(Receive(Server))
  PROVE  ConversationInv'
<1>1. PICK m, p : m = Receive(Server) /\ p = FindUser(m.from)
  BY Zenon
<1>2. IsSeq(m_users) /\ \A k \in DOMAIN m_users : IsUser(m_users[k])
  BY Zenon DEF UsersInv
<1>3. CASE p = 0
  <2>1. UNCHANGED <<down, log, m_users>>
    BY <1>1, <1>3, Zenon DEF UserSpeaks, GetUserByPeerID
  <2> QED
    BY <2>1, ReadersSilent, Zenon
<1>4. CASE p # 0
  <2>1. p \in DOMAIN m_users
    BY <1>1, <1>2, <1>4, FindUserFinds, Zenon
  <2>2. HandleChatMessage(p, m)
    BY <1>1, <1>4, Zenon DEF UserSpeaks, GetUserByPeerID
  <2>3. CASE /\ log' = Append(log, Entry("said", m_users[p].nick, m)) /\ down' = Broadcast(m_users)
             /\ m_users' = m_users
    <3>1. PICK x : log' = Append(log, x)
      BY <2>3, Zenon
    <3>2. Ids(m_users') \subseteq Ids(m_users)
      BY <2>3, Zenon
    <3> QED
      BY <2>3, <3>1, <3>2, ReadersNews, Zenon
  <2>4. CASE /\ log' = Append(log, Entry("renamed", m_users[p].nick, m)) /\ down' = Broadcast(m_users)
             /\ m_users' = [m_users EXCEPT ![p].nick = <<@[1], @[2], m.id>>]
    <3>1. PICK x : log' = Append(log, x)
      BY <2>4, Zenon
    <3>2. PICK u, v, d : u = m_users /\ v = m_users' /\ d = m.id
      BY Zenon
    <3>3. PICK n \in Nat : DOMAIN u = 1 .. n /\ u = [k \in 1 .. n |-> u[k]]
      BY <1>2, <3>2, SeqFacts, Zenon
    <3>4. PICK a, b : a = u[p].id /\ b = u[p].nick /\ u[p] = [id |-> a, nick |-> b]
      BY <1>2, <2>1, <3>2, Zenon DEF IsUser
    <3>5. v = [u EXCEPT ![p].nick = <<@[1], @[2], d>>] /\ p \in 1 .. n /\ u = [k \in 1 .. n |-> u[k]]
      BY <2>1, <2>4, <3>2, <3>3, Zenon
    <3>6. /\ v = [k \in 1 .. n |-> v[k]]
          /\ v[p] = [id |-> a, nick |-> <<b[1], b[2], d>>]
          /\ \A k \in 1 .. n : k # p => v[k] = u[k]
      BY <3>4, <3>5, Renamed, Zenon
    <3>7. v[p].id = u[p].id
      <4>1. PICK x1, x2, y : x1 = u[p] /\ x2 = v[p] /\ x1 = [id |-> a, nick |-> b] /\ x2 = [id |-> a, nick |-> y]
        BY <3>4, <3>6, Zenon
      <4>2. x1.id = x2.id
        BY ONLY <4>1
      <4> QED
        BY <4>1, <4>2, Zenon
    <3>8. DOMAIN v = 1 .. n
      BY <3>6, Zenon
    <3>9. \A k \in DOMAIN v : \E i \in DOMAIN u : v[k].id = u[i].id
      BY <3>3, <3>6, <3>7, <3>8, Zenon
    <3>10. Ids(v) \subseteq Ids(u)
      BY <3>9, IdsWithin, Zenon
    <3>11. Ids(m_users') \subseteq Ids(m_users) /\ down' = Broadcast(m_users)
      BY <2>4, <3>2, <3>10, Zenon
    <3> QED
      BY <3>1, <3>11, ReadersNews, Zenon
  <2>5. CASE /\ down' = SendToSpecific(down, m_users[p].id, <<Told(m_users[p].id, "note", 0)>>)
             /\ UNCHANGED <<log, m_users>>
    BY <2>5, ReadersAnswer, Zenon
  <2> QED
    BY <2>2, <2>3, <2>4, <2>5, Zenon DEF HandleChatMessage
<1> QED
  BY <1>3, <1>4, Zenon

\* A turn of the server keeps ConversationInv.
LEMMA ReadersServerTick == UsersInv /\ ConversationInv /\ ServerTick => ConversationInv'
<1> SUFFICES ASSUME UsersInv, ConversationInv, ServerTick PROVE ConversationInv'
  BY Zenon
<1>1. IsServerTurn
  BY Zenon DEF ServerTick, IsServerTurn, clients
<1>2. UserJoins(Receive(Server)) \/ UserLeaves(Receive(Server)) \/ UserSpeaks(Receive(Server))
  BY Zenon DEF ServerTick
<1> QED
  BY <1>1, <1>2, ReadersJoin, ReadersLeave, ReadersSpeak, Zenon

-----------------------------------------------------------------------------
(***************************************************************************)
(* What a client reads, in every step.                                     *)
(***************************************************************************)

\* A connection is given up, with what was under way to the client.
LEMMA ReadersReset ==
  ASSUME UsersInv, ConversationInv, NEW c \in Client, ClientFails(c) \/ ServerForgets(c) \/ ClientExits(c)
  PROVE  ConversationInv'
<1>1. LinkType
  BY Zenon DEF UsersInv
<1>2. ClientResets(c) \/ ServerResets(c) \/ ClientExits(c)
  BY Zenon DEF ClientFails, ServerForgets
<1>3. LinkMoves(c) /\ ~ Reaches(c)'
  BY <1>1, <1>2, LinkStepMoves, Zenon
<1>4. \A d \in Client : d # c => link'[d] = link[d]
  BY <1>1, <1>2, LinkSteps, Zenon DEF SlotsSet
<1>5. /\ down' = [down EXCEPT ![c] = <<>>] /\ UNCHANGED <<received, log, m_users, rpc>>
      /\ (inbox' = inbox \/ inbox' = [inbox EXCEPT ![c] = <<>>])
  BY Zenon DEF ClientFails, ServerForgets, ClientExits, ClientResets, server, clients
<1> QED
  BY <1>3, <1>4, <1>5, ReadersLose, Zenon

\* Nothing has been sent at first.
LEMMA ConversationInit == Init => ConversationInv
<1> SUFFICES ASSUME Init PROVE ConversationInv
  BY Zenon
<1>1. /\ received = [c \in Client |-> <<>>] /\ down = [c \in Client |-> <<>>]
      /\ inbox = [p \in Process |-> <<>>] /\ rpc = [i \in {} |-> <<>>]
  BY Zenon DEF Init
<1>2. received = [c \in Client |-> received[c]] /\ down = [c \in Client |-> down[c]]
  BY <1>1, Zenon
<1>3. \A i \in DOMAIN rpc : IsSeq(rpc[i])
  BY <1>1, Zenon
<1>4. ASSUME NEW c \in Client
      PROVE  IsReader(c)
  <2>1. PICK z : z = <<>>
    BY Zenon
  <2>2. c \in Process
    BY Zenon DEF Process
  <2>3. received[c] = z /\ down[c] = z /\ inbox[c] = z
    BY <1>1, <2>1, <2>2, Zenon
  <2>4. IsSeq(z)
    BY <2>1, EmptyIsSeq, Zenon
  <2>5. z \o z = z
    BY <2>1, <2>4, SmallSeqs, Zenon
  <2>6. Pipeline(c) = z
    BY <2>3, <2>5, Zenon DEF Pipeline
  <2>7. DOMAIN z = {}
    BY ONLY <2>1
  <2>8. Reads(z, c)
    BY <2>7, Zenon DEF Reads, Sound, UpToDate, InOrder, WithoutGaps
  <2> QED
    BY <2>3, <2>4, <2>6, <2>8, Zenon DEF IsReader
<1> QED
  BY <1>2, <1>3, <1>4, Zenon DEF ConversationInv

\* Every step keeps ConversationInv.
LEMMA ConversationNext == UsersInv /\ ConversationInv /\ [Next]_vars => ConversationInv'
<1> SUFFICES ASSUME UsersInv, ConversationInv, [Next]_vars PROVE ConversationInv'
  BY Zenon
<1>1. ASSUME NEW c \in Client,
             \/ ClientConnect(c) \/ ClientSends(c) \/ ClientDisconnects(c) \/ Greet(c)
             \/ Accept(c) \/ ServerDrops(c) \/ TakeDisconnect(c) \/ TakeMessage(c)
      PROVE  ConversationInv'
  BY <1>1, ReadersQuiet, Zenon
<1>2. ASSUME NEW c \in Client,
             \/ ClientExits(c) \/ ClientFails(c) \/ ServerForgets(c) \/ ClientDrops(c)
             \/ ClientTick(c) \/ ClientTakes(c) \/ Establish(c) \/ TakeSignal(c)
      PROVE  ConversationInv'
  BY <1>2, ReadersReset, ReadersDrop, ReadersTick, ReadersTake, ReadersEstablish, ReadersSignal, Zenon
<1>3. CASE RpcRegisterSlot \/ MakeChannel \/ HandleIncomingPacket
  BY <1>3, ReadersQuiet, Zenon
<1>4. CASE ServerTick
  BY <1>4, ReadersServerTick, Zenon
<1>5. CASE UNCHANGED vars
  <2>1. UNCHANGED <<received, down, log, m_users>> /\ link' = link /\ inbox' = inbox /\ rpc' = rpc
    BY <1>5, Zenon DEF vars, wire, server, clients
  <2>2. \A c \in Client : LinkMoves(c)
    BY <2>1, LinkStands, Zenon DEF UsersInv
  <2>3. \A i \in DOMAIN rpc' : IsSeq(rpc'[i])
    BY <2>1, Zenon DEF ConversationInv
  <2> QED
    BY <2>1, <2>2, <2>3, QuietReaders, Zenon
<1> QED
  BY <1>1, <1>2, <1>3, <1>4, <1>5, Zenon DEF Next

\* What a client has read is the first part of what there is to read.
LEMMA ConversationInvGives == ConversationInv => OneConversation
<1> SUFFICES ASSUME ConversationInv, NEW c \in Client
             PROVE  InOrder(received[c]) /\ WithoutGaps(received[c])
  BY Zenon DEF OneConversation
<1>1. IsReader(c)
  BY Zenon DEF ConversationInv
<1>2. PICK s, r, i, d, N, S : /\ r = received[c] /\ i = inbox[c] /\ d = down[c] /\ s = (r \o i) \o d
                              /\ IsSeq(r) /\ IsSeq(i) /\ IsSeq(d) /\ IsSeq(s) /\ Sound(s, N, S)
  BY <1>1, PipelineParts, Zenon DEF IsReader, Reads
<1>3. Moves(r, i, d, 0)
  BY <1>2, PipelineMoves, Zenon
<1>4. IsCut(s, r)
  BY <1>2, <1>3, Zenon DEF Moves
<1>5. Sound(r, N, S)
  BY <1>2, <1>4, SoundCut, Zenon
<1> QED
  BY <1>2, <1>5, Zenon DEF Sound

\* For any number of clients, connections and lines: what a client has read, what
\* waits in its inbox and what is under way to it form one sequence without gaps,
\* and who is a user and can be reached was sent all of the log since the welcome
\* (ChatServer::Broadcast, the list of users when it is called, Peer::Receive).
THEOREM ConversationInvHolds == Spec => []ConversationInv
<1>1. Init => UsersInv /\ ConversationInv
  BY UsersInit, ConversationInit, Zenon
<1>2. UsersInv /\ ConversationInv /\ [Next]_vars => (UsersInv /\ ConversationInv)'
  BY UsersNext, ConversationNext, Zenon
<1> QED
  BY <1>1, <1>2, PTL DEF Spec

\* Every client reads the same conversation, in the same order and from the welcome
\* on without gaps (ChatServer::Broadcast, ChatClient::Tick).
THEOREM OneConversationHolds == Spec => []OneConversation
<1> QED
  BY ConversationInvGives, ConversationInvHolds, PTL
=============================================================================
