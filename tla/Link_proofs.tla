---------------------------- MODULE Link_proofs ----------------------------
(***************************************************************************)
(* Proofs about Link.  As long as every packet of the connection is        *)
(* reliable, LinkInv is inductive for any message lengths, any MTU, any    *)
(* number of attempts and any loss, duplication and reordering.  Each      *)
(* conjunct of LinkInv has a lemma which goes through the actions that     *)
(* touch its variables: first the types and the datagrams (their numbers,  *)
(* the record of their packets in the sentbox and what an acknowledgement  *)
(* means), then the messages and the receipts.  The counters come last:    *)
(* m_bytesInFlight is the total over m_outgoing, and sendCount bounds the  *)
(* datagrams that carry a packet.  Both follow from LinkInv and an         *)
(* invariant of their own, FlightOK and AttemptsCounted.                   *)
(***************************************************************************)
EXTENDS Link, FiniteSetTheorems, WellFoundedInduction, TLAPS

\* Each of the two peers is the other's Other.
LEMMA OtherFacts ==
  ASSUME NEW p \in Peer
  PROVE  /\ Other(p) \in Peer /\ Other(p) # p
         /\ \A q \in Peer : q # p => q = Other(p)
         /\ Other(Other(p)) = p
<1>1. PICK a, b \in Peer : a # b /\ Peer = {a, b}
  BY PeerAssumption, Zenon
<1>2. \A q \in Peer : \E x \in Peer : x # q
  BY <1>1
<1>3. \A q \in Peer : Other(q) \in Peer /\ Other(q) # q
  BY <1>2, Zenon DEF Other
<1> QED
  BY <1>1, <1>3, Zenon

\* A count is an integer, is not negative and is not below itself.
LEMMA CountIs == \A n \in Nat : n \in Int /\ 0 <= n /\ ~ (n < n)
OBVIOUS

\* What is below a count, and the count itself, are below the next one.
LEMMA BelowNext == \A n \in Nat : n < n + 1 /\ \A m \in Nat : m < n => m < n + 1
OBVIOUS

\* Adding two counts in either order.
LEMMA SumEitherWay == \A m, n \in Nat : m + n = n + m
OBVIOUS

\* At most what is at most a third.
LEMMA LeqChain == \A m, n, k \in Nat : m <= n /\ n <= k => m <= k
OBVIOUS

\* Below what is at most a third.
LEMMA LessChain == \A m, n, k \in Nat : m < n /\ n <= k => m < k
OBVIOUS

\* Of two counts, one is not both below the other and at least it.
LEMMA NotBoth == \A m, n \in Nat : ~ (m < n /\ n <= m)
OBVIOUS

\* One more of what is not yet at its limit.
LEMMA OneMore ==
  \A m, n, k \in Nat : m <= n /\ n < k => /\ m <= n + 1 /\ m <= k
                                          /\ m + 1 <= n + 1 /\ m + 1 <= k
OBVIOUS

\* Ids are numbers, and a peer that may write has one left.
LEMMA IdsAre ==
  /\ \A i \in PacketIDs : i \in Nat
  /\ \A d \in DatagramIDs : d \in Nat
  /\ \A n \in 0 .. MaxPackets : n \in Nat
  /\ \A n \in 0 .. MaxDatagrams : n \in Nat
  /\ \A m, n \in Nat : m + n < MaxDatagrams => m \in DatagramIDs
BY LimitAssumption, SMT DEF PacketIDs, DatagramIDs

\* There are finitely many ids of packets.
LEMMA PacketsFinite == IsFiniteSet(PacketIDs)
BY LimitAssumption, FS_Interval DEF PacketIDs

\* The packets that a call of Send puts in the outbox, one for each part.
NewPackets(parts, options) ==
  {[id |-> i, options |-> options, sendCount |-> 0, sendNext |-> "past"] : i \in parts}

\* A new packet has the id of a part, and each part has one packet.
LEMMA PacketsOf ==
  \A parts, options : \A o \in NewPackets(parts, options) :
     /\ o.id \in parts
     /\ \A x \in NewPackets(parts, options) : o.id = x.id => o = x
BY SMT DEF NewPackets

\* The numbers of a packet in the outbox.
LEMMA PacketIs ==
  \A o \in OutgoingPacket : o.id \in PacketIDs /\ o.id \in Nat /\ o.sendCount \in Nat
BY IdsAre, Zenon DEF OutgoingPacket

(***************************************************************************)
(* The packets of the outbox.                                              *)
(***************************************************************************)

\* Another attempt or another deadline leaves a packet's identity alone.
LEMMA AgainFacts ==
  ASSUME NEW o \in OutgoingPacket, NEW n \in Nat, NEW t \in {"past", "future"}
  PROVE  /\ Again(o, n, t) \in OutgoingPacket
         /\ Again(o, n, t).id = o.id
         /\ Again(o, n, t).options = o.options
BY Zenon DEF Again, OutgoingPacket

\* The same for the step that puts a packet into a datagram.
LEMMA TouchedFacts ==
  ASSUME NEW o \in OutgoingPacket
  PROVE  /\ Touched(o) \in OutgoingPacket
         /\ Touched(o).id = o.id
         /\ Touched(o).options = o.options
<1>1. o.sendCount + 1 \in Nat
  BY DEF OutgoingPacket
<1> QED
  BY <1>1, AgainFacts, Zenon DEF Touched

\* Touching packets keeps the set of their ids.
LEMMA TouchedIds ==
  ASSUME NEW S \in SUBSET OutgoingPacket
  PROVE  Ids({Touched(o) : o \in S}) = Ids(S)
BY TouchedFacts DEF Ids

\* What SendDatagram does when nothing in the outbox is unreliable: the packets
\* it takes are touched and written, and the outbox keeps every packet.
SendEffect(p, again, fresh) ==
  LET d == nextDatagram[p]
      queue == again \cup fresh
      bytes == HEADER + Bytes(p, Ids(queue))
  IN
  /\ \A o \in queue : o.sendCount < SEND_RETRY_COUNT
  /\ nextDatagram' = [nextDatagram EXCEPT ![p] = d + 1]
  /\ outbox' = [outbox EXCEPT ![p] =
       (outbox[p] \ queue) \cup {Touched(o) : o \in queue}]
  /\ sentbox' = [sentbox EXCEPT ![p] = @ \cup {[id |-> d, packets |-> Ids(queue)]}]
  /\ wire' = wire \cup {[from |-> p, id |-> d, data |-> TRUE,
                         listed |-> Ids(queue), packets |-> Ids(queue),
                         acks |-> {}, nacks |-> {}]}
  /\ outgoing' = [outgoing EXCEPT ![p] = @ \cup {d}]
  /\ bytesInFlight' = [bytesInFlight EXCEPT ![p] = @ + bytes]
  /\ datagramBytes' = [datagramBytes EXCEPT ![p][d] = bytes]
  /\ UNCHANGED <<up, nextPacket, tracker, splits, inVars, reading, lost,
                 blobLength, sent, receipts, delivered>>

\* A send of reliable packets has this effect: Written erases nothing.
LEMMA SendIsEffect ==
  ASSUME TypeOK, OutboxReliable, NEW p \in Peer, SendDatagram(p)
  PROVE  \E again \in SUBSET outbox[p], fresh \in SUBSET outbox[p] :
           SendEffect(p, again, fresh)
<1> DEFINE box(again, fresh) == (outbox[p] \ (again \cup fresh))
                                \cup {Touched(o) : o \in again \cup fresh}
           out(again, fresh) == Written(box(again, fresh),
              {Touched(o) : o \in again}, {Touched(o) : o \in fresh})
<1>0. outbox[p] \subseteq OutgoingPacket
  BY Zenon DEF TypeOK
<1>1. \A S \in SUBSET outbox[p] : Ids({Touched(o) : o \in S}) = Ids(S)
  BY <1>0, TouchedIds, Zenon
<1>2. ASSUME NEW again \in SUBSET outbox[p], NEW fresh \in SUBSET outbox[p]
      PROVE  /\ out(again, fresh).outbox = box(again, fresh)
             /\ out(again, fresh).packets = Ids(again \cup fresh)
  <2> DEFINE a == {Touched(o) : o \in again}
             f == {Touched(o) : o \in fresh}
  <2>1. \A o \in outbox[p] : HasFlag(Touched(o), "RELIABLE")
    BY <1>0, TouchedFacts, Zenon DEF OutboxReliable, HasFlag
  <2>2. \A o \in a \cup f : HasFlag(o, "RELIABLE")
    BY <2>1, Zenon
  <2>3. a \cup f = {Touched(o) : o \in again \cup fresh}
    BY Zenon
  <2>4. Ids(a \cup f) = Ids(again \cup fresh)
    BY <1>1, <2>3, Zenon
  <2>5. out(again, fresh) = Written(box(again, fresh), a, f)
    BY Zenon
  <2> HIDE DEF box, a, f, out
  <2>6. Written(box(again, fresh), a, f)
          = [outbox |-> box(again, fresh), packets |-> Ids(a \cup f)]
    BY <2>2, Zenon DEF Written
  <2> QED
    BY <2>4, <2>5, <2>6
<1> HIDE DEF box, out
<1>3. PICK again \in SUBSET outbox[p], fresh \in SUBSET outbox[p] :
        /\ \A o \in again \cup fresh : o.sendCount < SEND_RETRY_COUNT
        /\ nextDatagram' = [nextDatagram EXCEPT ![p] = nextDatagram[p] + 1]
        /\ outbox' = [outbox EXCEPT ![p] = out(again, fresh).outbox]
        /\ sentbox' = [sentbox EXCEPT ![p] =
             @ \cup {[id |-> nextDatagram[p], packets |-> Ids(again \cup fresh)]}]
        /\ wire' = wire \cup {[from |-> p, id |-> nextDatagram[p], data |-> TRUE,
                               listed |-> Ids(again \cup fresh),
                               packets |-> out(again, fresh).packets,
                               acks |-> {}, nacks |-> {}]}
        /\ outgoing' = [outgoing EXCEPT ![p] = @ \cup {nextDatagram[p]}]
        /\ bytesInFlight' = [bytesInFlight EXCEPT ![p] =
             @ + (HEADER + Bytes(p, out(again, fresh).packets))]
        /\ datagramBytes' = [datagramBytes EXCEPT ![p][nextDatagram[p]] =
             HEADER + Bytes(p, out(again, fresh).packets)]
  BY ZenonT(30) DEF SendDatagram, out, box
<1>4. UNCHANGED <<up, nextPacket, tracker, splits, inVars, reading, lost,
                  blobLength, sent, receipts, delivered>>
  BY Zenon DEF SendDatagram
<1>5. SendEffect(p, again, fresh)
  BY <1>2, <1>3, <1>4, Zenon DEF SendEffect, box
<1> QED
  BY <1>5, Zenon

\* What each action leaves alone.
LEMMA Frames ==
  ASSUME NEW p \in Peer
  PROVE  /\ Enqueue(p) =>
              UNCHANGED <<up, nextDatagram, sentbox, outgoing, bytesInFlight, inVars,
                          reading, wire, lost, datagramBytes, receipts, delivered>>
         /\ SendDatagram(p) =>
              UNCHANGED <<up, nextPacket, tracker, splits, inVars, reading, lost,
                          blobLength, sent, receipts, delivered>>
         /\ GiveUp(p) \/ WriteError(p) \/ ReadCorrupt(p) =>
              /\ Reset(p)
              /\ UNCHANGED <<nextPacket, remoteDatagram, reading, wire, lost, blobLength,
                             datagramBytes, sent, delivered>>
         /\ WriteError(p) \/ ReadCorrupt(p) => UNCHANGED <<nextDatagram, receipts>>
         /\ SendAckgram(p) =>
              UNCHANGED <<up, nextPacket, outbox, tracker, splits, remoteDatagram,
                          datagramHistory, packetHistory, reading, lost, blobLength,
                          sent, receipts, delivered>>
         /\ RtoElapses(p) =>
              UNCHANGED <<up, nextPacket, nextDatagram, sentbox, outgoing, bytesInFlight,
                          tracker, splits, inVars, reading, wire, lost, logVars>>
         /\ UpdateInFlight(p) =>
              UNCHANGED <<up, nextPacket, nextDatagram, outbox, sentbox, tracker, splits,
                          inVars, reading, wire, lost, logVars>>
         /\ UpdateHistory(p) =>
              UNCHANGED <<up, outVars, remoteDatagram, acks, nacks, reading, wire, lost,
                          logVars>>
         /\ UpdateReceipts(p) =>
              UNCHANGED <<up, nextPacket, nextDatagram, outbox, outgoing, bytesInFlight,
                          splits, inVars, reading, wire, lost, sent, delivered>>
         /\ ReadDatagram(p) => UNCHANGED <<up, outVars, packetHistory, wire, lost, logVars>>
         /\ ReadAcks(p) =>
              UNCHANGED <<up, nextPacket, nextDatagram, inVars, wire, lost, blobLength,
                          datagramBytes, sent, delivered>>
         /\ ReadNacks(p) =>
              UNCHANGED <<up, nextPacket, nextDatagram, outgoing, bytesInFlight, tracker,
                          splits, inVars, wire, lost, logVars>>
         /\ ReadPacket(p) =>
              UNCHANGED <<up, outVars, remoteDatagram, datagramHistory, acks, nacks, wire,
                          lost, sent, receipts>>
BY Zenon DEF Enqueue, EnqueueOutgoing, SendDatagram, GiveUp, WriteError, ReadCorrupt, Reset,
   SendAckgram, RtoElapses, UpdateInFlight, UpdateHistory, UpdateReceipts,
   ReadDatagram, ReadAcks, ReadNacks, ReadPacket

(***************************************************************************)
(* Types.                                                                  *)
(***************************************************************************)

\* A step keeps every variable's type.
LEMMA TypeStep ==
  ASSUME TypeOK, OutboxReliable, [Next]_vars
  PROVE  TypeOK'
<1>1. ASSUME NEW p \in Peer, Enqueue(p) PROVE TypeOK'
  <2>1. PICK m \in Workload[p] : EnqueueOutgoing(p, m)
    BY <1>1, Zenon DEF Enqueue
  <2>2. m.options \in SUBSET PacketOptions /\ m.segments \in Nat \ {0}
    BY WorkloadAssumption, Zenon DEF Message
  <2> DEFINE container == nextPacket[p]
             parts == IF m.segments = 1 THEN {container}
                      ELSE container + 1 .. container + m.segments
             last == IF m.segments = 1 THEN container ELSE container + m.segments
             options == IF m.segments = 1 THEN m.options
                        ELSE m.options \cup {"RELIABLE"}
  <2>3. options \in SUBSET PacketOptions
    BY <2>2, Zenon DEF PacketOptions
  <2>4. container \in Nat /\ last \in Nat /\ container <= last /\ last < MaxPackets
    BY <2>1, <2>2, LimitAssumption DEF EnqueueOutgoing, TypeOK
  <2>5. container \in PacketIDs /\ parts \subseteq PacketIDs
    BY <2>2, <2>4, LimitAssumption DEF PacketIDs
  <2>6. nextPacket' \in [Peer -> 0 .. MaxPackets]
    <3>1. last + 1 \in 0 .. MaxPackets
      BY <2>4, LimitAssumption, SMTT(30)
    <3> QED
      BY <2>1, <3>1, Zenon DEF EnqueueOutgoing, TypeOK
  <2>7. outbox' \in [Peer -> SUBSET OutgoingPacket]
    <3>1. \A i \in parts : [id |-> i, options |-> options, sendCount |-> 0,
                            sendNext |-> "past"] \in OutgoingPacket
      BY <2>3, <2>5, Zenon DEF OutgoingPacket
    <3> QED
      BY <2>1, <3>1 DEF EnqueueOutgoing, TypeOK
  <2>8. tracker' \in [Peer -> SUBSET PacketIDs]
    BY <2>1, <2>5, Zenon DEF EnqueueOutgoing, TypeOK
  <2>9. splits' \in [Peer -> SUBSET SplitGroup]
    <3>1. [container |-> container, segments |-> parts] \in SplitGroup
      BY <2>5, Zenon DEF SplitGroup
    <3> QED
      BY <2>1, <3>1, Zenon DEF EnqueueOutgoing, TypeOK
  <2>10. sent' \in [Peer -> SUBSET SentMessage]
    <3>1. [id |-> container, parts |-> parts, options |-> options] \in SentMessage
      BY <2>3, <2>5, Zenon DEF SentMessage
    <3> QED
      BY <2>1, <3>1, Zenon DEF EnqueueOutgoing, TypeOK
  <2> QED
    BY <2>1, <2>6, <2>7, <2>8, <2>9, <2>10, Zenon DEF EnqueueOutgoing, TypeOK, inVars
<1>2. ASSUME NEW p \in Peer, SendDatagram(p) PROVE TypeOK'
  <2>1. PICK again \in SUBSET outbox[p], fresh \in SUBSET outbox[p] :
           SendEffect(p, again, fresh)
    BY <1>2, SendIsEffect, Zenon
  <2>2. nextDatagram[p] \in DatagramIDs
    BY <1>2, OtherFacts, LimitAssumption DEF SendDatagram, CanWrite, DatagramIDs, TypeOK
  <2>3. Ids(again \cup fresh) \subseteq PacketIDs
    BY DEF Ids, OutgoingPacket, TypeOK
  <2>4. \A o \in outbox[p] : Touched(o) \in OutgoingPacket
    BY TouchedFacts, Zenon DEF TypeOK
  <2>5. outbox' \in [Peer -> SUBSET OutgoingPacket]
    BY <2>1, <2>4 DEF SendEffect, TypeOK
  <2>6. nextDatagram' \in [Peer -> 0 .. MaxDatagrams]
    <3>1. nextDatagram[p] + 1 \in 0 .. MaxDatagrams
      BY <2>2, LimitAssumption DEF DatagramIDs
    <3> QED
      BY <2>1, <3>1, Zenon DEF SendEffect, TypeOK
  <2>7. sentbox' \in [Peer -> SUBSET OutgoingDatagram]
    <3>1. [id |-> nextDatagram[p], packets |-> Ids(again \cup fresh)] \in OutgoingDatagram
      BY <2>2, <2>3, Zenon DEF OutgoingDatagram
    <3> QED
      BY <2>1, <3>1, Zenon DEF SendEffect, TypeOK
  <2>8. wire' \subseteq Datagram
    <3>1. [from |-> p, id |-> nextDatagram[p], data |-> TRUE,
           listed |-> Ids(again \cup fresh), packets |-> Ids(again \cup fresh),
           acks |-> {}, nacks |-> {}] \in Datagram
      BY <2>2, <2>3, Zenon DEF Datagram
    <3> QED
      BY <2>1, <3>1, Zenon DEF SendEffect, TypeOK
  <2>9. outgoing' \in [Peer -> SUBSET DatagramIDs]
    BY <2>1, <2>2, Zenon DEF SendEffect, TypeOK
  <2> QED
    BY <2>1, <2>5, <2>6, <2>7, <2>8, <2>9, Zenon DEF SendEffect, TypeOK, inVars
<1>3. ASSUME NEW p \in Peer, GiveUp(p) PROVE TypeOK'
  <2>1. receipts' \in [Peer -> SUBSET Receipt]
    BY <1>3 DEF GiveUp, OutgoingPacket, Receipt, TypeOK
  <2>2. nextDatagram[p] + 1 \in 0 .. MaxDatagrams
    BY <1>3, OtherFacts, LimitAssumption DEF GiveUp, CanWrite, TypeOK
  <2>3. nextDatagram' \in [Peer -> 0 .. MaxDatagrams]
    BY <1>3, <2>2, Zenon DEF GiveUp, TypeOK
  <2>4. Reset(p)
    BY <1>3, Zenon DEF GiveUp
  <2> QED
    BY <2>1, <2>3, <2>4, Zenon DEF Reset, TypeOK
<1>4. ASSUME NEW p \in Peer, SendAckgram(p) PROVE TypeOK'
  <2>1. nextDatagram[p] \in DatagramIDs /\ nextDatagram[p] + 1 \in 0 .. MaxDatagrams
    BY <1>4, OtherFacts, LimitAssumption DEF SendAckgram, CanWrite, DatagramIDs, TypeOK
  <2>2. nextDatagram' \in [Peer -> 0 .. MaxDatagrams]
    BY <1>4, <2>1, Zenon DEF SendAckgram, TypeOK
  <2>3. sentbox' \in [Peer -> SUBSET OutgoingDatagram]
    <3>1. [id |-> nextDatagram[p], packets |-> {}] \in OutgoingDatagram
      BY <2>1, Zenon DEF OutgoingDatagram
    <3> QED
      BY <1>4, <3>1, Zenon DEF SendAckgram, TypeOK
  <2>4. wire' \subseteq Datagram
    <3>1. [from |-> p, id |-> nextDatagram[p], data |-> FALSE, listed |-> {},
           packets |-> {}, acks |-> acks[p], nacks |-> nacks[p]] \in Datagram
      BY <2>1, Zenon DEF Datagram, TypeOK
    <3> QED
      BY <1>4, <3>1, Zenon DEF SendAckgram, TypeOK
  <2>5. /\ outgoing' \in [Peer -> SUBSET DatagramIDs]
        /\ acks' \in [Peer -> SUBSET DatagramIDs]
        /\ nacks' \in [Peer -> SUBSET DatagramIDs]
    BY <1>4, <2>1, Zenon DEF SendAckgram, TypeOK
  <2> QED
    BY <1>4, <2>2, <2>3, <2>4, <2>5, Zenon DEF SendAckgram, TypeOK
<1>5. ASSUME NEW p \in Peer, RtoElapses(p) PROVE TypeOK'
  <2>1. PICK o \in outbox[p] :
          outbox' = [outbox EXCEPT ![p] = (@ \ {o}) \cup {Again(o, o.sendCount, "past")}]
    BY <1>5, Zenon DEF RtoElapses
  <2>2. o \in OutgoingPacket /\ o.sendCount \in Nat
    BY DEF TypeOK, OutgoingPacket
  <2>3. Again(o, o.sendCount, "past") \in OutgoingPacket
    BY <2>2, AgainFacts, Zenon
  <2>4. outbox' \in [Peer -> SUBSET OutgoingPacket]
    BY <2>1, <2>3, Zenon DEF TypeOK
  <2> QED
    BY <1>5, <2>4, Zenon DEF RtoElapses, TypeOK, inVars, logVars
<1>6. ASSUME NEW p \in Peer, UpdateInFlight(p) PROVE TypeOK'
  BY <1>6 DEF UpdateInFlight, LeaveFlight, TypeOK, inVars, logVars
<1>7. ASSUME NEW p \in Peer, UpdateHistory(p) PROVE TypeOK'
  <2>1. UNCHANGED <<up, outVars, remoteDatagram, acks, nacks, reading, wire, lost, logVars>>
    BY <1>7, Zenon DEF UpdateHistory
  <2>2. ASSUME NEW d, datagramHistory' = [datagramHistory EXCEPT ![p] = @ \ {d}],
               UNCHANGED packetHistory
        PROVE  TypeOK'
    BY <2>1, <2>2, Zenon DEF TypeOK, outVars, logVars
  <2>3. ASSUME NEW i, packetHistory' = [packetHistory EXCEPT ![p] = @ \ {i}],
               UNCHANGED datagramHistory
        PROVE  TypeOK'
    BY <2>1, <2>3, Zenon DEF TypeOK, outVars, logVars
  <2> QED
    BY <1>7, <2>2, <2>3, Zenon DEF UpdateHistory
<1>8. ASSUME NEW p \in Peer, UpdateReceipts(p) PROVE TypeOK'
  <2>1. receipts' \in [Peer -> SUBSET Receipt]
    BY <1>8, SMTT(20) DEF UpdateReceipts, Receipt, TypeOK
  <2>2. /\ sentbox' \in [Peer -> SUBSET OutgoingDatagram]
        /\ tracker' \in [Peer -> SUBSET PacketIDs]
    BY <1>8 DEF UpdateReceipts, TypeOK
  <2> QED
    BY <1>8, <2>1, <2>2, Frames, Zenon DEF TypeOK, inVars
<1>9. ASSUME NEW p \in Peer, WriteError(p) PROVE TypeOK'
  BY <1>9, Zenon DEF WriteError, Reset, TypeOK
<1>10. ASSUME NEW p \in Peer, ReadCorrupt(p) PROVE TypeOK'
  BY <1>10, Zenon DEF ReadCorrupt, Reset, TypeOK
<1>11. ASSUME NEW p \in Peer, ReadDatagram(p) PROVE TypeOK'
  <2>1. PICK m \in wire :
          /\ datagramHistory' = [datagramHistory EXCEPT ![p] = @ \cup {m.id}]
          /\ nacks' = [nacks EXCEPT ![p] = @ \cup (remoteDatagram[p] .. m.id - 1)]
          /\ acks' = [acks EXCEPT ![p] = IF m.data THEN @ \cup {m.id} ELSE @]
          /\ remoteDatagram' = [remoteDatagram EXCEPT ![p] = m.id + 1]
          /\ reading' = [reading EXCEPT ![p] = Rest(m.acks, m.nacks, m.packets)]
    BY <1>11, Zenon DEF ReadDatagram
  <2>2. /\ m.id \in DatagramIDs /\ m.acks \subseteq DatagramIDs
        /\ m.nacks \subseteq DatagramIDs /\ m.packets \subseteq PacketIDs
    BY Zenon DEF TypeOK, Datagram
  <2>3. m.id + 1 \in 0 .. MaxDatagrams /\ (remoteDatagram[p] .. m.id - 1) \subseteq DatagramIDs
    BY <2>2, LimitAssumption DEF DatagramIDs, TypeOK
  <2>4. Rest(m.acks, m.nacks, m.packets) \in Rests
    BY <2>2, Zenon DEF Rest, Rests
  <2>5. acks' \in [Peer -> SUBSET DatagramIDs]
    BY <2>1, <2>2, ZenonT(40) DEF TypeOK
  <2>6. /\ datagramHistory' \in [Peer -> SUBSET DatagramIDs]
        /\ nacks' \in [Peer -> SUBSET DatagramIDs]
    BY <2>1, <2>2, <2>3, Zenon DEF TypeOK
  <2>7. remoteDatagram' \in [Peer -> 0 .. MaxDatagrams] /\ reading' \in [Peer -> Rests]
    BY <2>1, <2>3, <2>4, Zenon DEF TypeOK
  <2> QED
    BY <1>11, <2>5, <2>6, <2>7, Frames, Zenon DEF TypeOK, outVars, logVars
<1>12. ASSUME NEW p \in Peer, ReadAcks(p) PROVE TypeOK'
  <2> DEFINE ids == UNION {s.packets : s \in Named(p, reading[p].acks)}
  <2>1. sentbox' \in [Peer -> SUBSET OutgoingDatagram]
    BY <1>12, Zenon DEF ReadAcks, TypeOK
  <2>2. outbox' \in [Peer -> SUBSET OutgoingPacket]
    BY <1>12, Zenon DEF ReadAcks, TypeOK
  <2>3. splits' \in [Peer -> SUBSET SplitGroup]
    <3>1. \A g \in splits[p] : [container |-> g.container, segments |-> g.segments \ ids]
                                 \in SplitGroup
      BY DEF TypeOK, SplitGroup
    <3>2. splits' = [splits EXCEPT ![p] =
            {[container |-> g.container, segments |-> g.segments \ ids] :
               g \in {g \in @ : ~ g.segments \subseteq ids}}]
      BY <1>12, Zenon DEF ReadAcks
    <3> HIDE DEF ids
    <3> QED
      BY <3>1, <3>2, SMTT(20) DEF TypeOK
  <2>4. tracker' \in [Peer -> SUBSET PacketIDs]
    BY <1>12, Zenon DEF ReadAcks, TypeOK
  <2>5. Confirmed(p, ids) \subseteq PacketIDs
    BY Zenon DEF Confirmed, TypeOK
  <2>6. receipts' \in [Peer -> SUBSET Receipt]
    <3>1. \A i \in Confirmed(p, ids) : [id |-> i, result |-> "ACKED"] \in Receipt
      BY <2>5, Zenon DEF Receipt
    <3>2. receipts' = [receipts EXCEPT ![p] =
            @ \cup {[id |-> i, result |-> "ACKED"] : i \in Confirmed(p, ids)}]
      BY <1>12, Zenon DEF ReadAcks
    <3> HIDE DEF ids
    <3> QED
      BY <3>1, <3>2 DEF TypeOK
  <2>7. outgoing' \in [Peer -> SUBSET DatagramIDs]
    BY <1>12, Zenon DEF ReadAcks, LeaveFlight, TypeOK
  <2>8. reading' \in [Peer -> Rests]
    BY <1>12, Zenon DEF ReadAcks, Rest, Rests, TypeOK
  <2> QED
    BY <1>12, <2>1, <2>2, <2>3, <2>4, <2>6, <2>7, <2>8, Zenon DEF ReadAcks, TypeOK, inVars
<1>13. ASSUME NEW p \in Peer, ReadNacks(p) PROVE TypeOK'
  <2>1. outbox' \in [Peer -> SUBSET OutgoingPacket]
    <3>1. \A o \in outbox[p] : Again(o, o.sendCount, "past") \in OutgoingPacket
      <4>1. \A o \in outbox[p] : o \in OutgoingPacket /\ o.sendCount \in Nat
        BY DEF TypeOK, OutgoingPacket
      <4> QED
        BY <4>1, AgainFacts, Zenon
    <3> QED
      BY <1>13, <3>1 DEF ReadNacks, TypeOK
  <2>2. sentbox' \in [Peer -> SUBSET OutgoingDatagram]
    BY <1>13, Zenon DEF ReadNacks, TypeOK
  <2>3. reading' \in [Peer -> Rests]
    BY <1>13, Zenon DEF ReadNacks, Rest, Rests, TypeOK
  <2> QED
    BY <1>13, <2>1, <2>2, <2>3, Zenon DEF ReadNacks, TypeOK, inVars, logVars
<1>14. ASSUME NEW p \in Peer, ReadPacket(p) PROVE TypeOK'
  <2>1. PICK i \in reading[p].packets :
          /\ packetHistory' = [packetHistory EXCEPT ![p] = @ \cup {i}]
          /\ delivered' = [delivered EXCEPT ![p][i] =
               IF IsNew(p, i) THEN @ + 1 ELSE @]
          /\ reading' = [reading EXCEPT ![p] = Rest({}, {}, @.packets \ {i})]
    BY <1>14, Zenon DEF ReadPacket
  <2>2. i \in PacketIDs
    BY Zenon DEF TypeOK, Rests
  <2>3. packetHistory' \in [Peer -> SUBSET PacketIDs]
    BY <2>1, <2>2, Zenon DEF TypeOK
  <2>4. delivered' \in [Peer -> [PacketIDs -> Nat]]
    <3>1. delivered \in [Peer -> [PacketIDs -> Nat]]
      BY Zenon DEF TypeOK
    <3>2. (IF IsNew(p, i) THEN delivered[p][i] + 1 ELSE delivered[p][i]) \in Nat
      BY <2>2, <3>1
    <3> QED
      BY <2>1, <2>2, <3>1, <3>2, Zenon
  <2>5. reading' \in [Peer -> Rests]
    BY <2>1, Zenon DEF Rest, Rests, TypeOK
  <2> QED
    BY <1>14, <2>3, <2>4, <2>5, Zenon DEF ReadPacket, TypeOK, outVars
<1>15. ASSUME Lose PROVE TypeOK'
  BY <1>15 DEF Lose, TypeOK, outVars, inVars, logVars
<1>16. CASE UNCHANGED vars
  BY <1>16, Zenon DEF vars, TypeOK, outVars, inVars, logVars
<1> QED
  BY Zenon, <1>1, <1>2, <1>3, <1>4, <1>5, <1>6, <1>7, <1>8, <1>9, <1>10, <1>11,
     <1>12, <1>13, <1>14, <1>15, <1>16 DEF Next

(***************************************************************************)
(* The outbox, the numbering of datagrams and what is received.            *)
(***************************************************************************)

\* A step puts only reliable packets into the outbox.
LEMMA OutboxReliableStep ==
  ASSUME OnlyReliable, TypeOK, OutboxReliable, [Next]_vars
  PROVE  OutboxReliable'
<1>t. outbox \in [Peer -> SUBSET OutgoingPacket]
  BY Zenon DEF TypeOK
<1>0. \A p \in Peer : \A o \in outbox[p] : o \in OutgoingPacket /\ o.sendCount \in Nat
  BY <1>t DEF OutgoingPacket
<1>1. ASSUME NEW p \in Peer, Enqueue(p) PROVE OutboxReliable'
  <2>1. PICK m \in Workload[p] : EnqueueOutgoing(p, m)
    BY <1>1, Zenon DEF Enqueue
  <2> DEFINE parts == IF m.segments = 1 THEN {nextPacket[p]}
                      ELSE nextPacket[p] + 1 .. nextPacket[p] + m.segments
             options == IF m.segments = 1 THEN m.options ELSE m.options \cup {"RELIABLE"}
             S == {[id |-> i, options |-> options,
                    sendCount |-> 0, sendNext |-> "past"] : i \in parts}
  <2>2. "RELIABLE" \in options
    BY DEF OnlyReliable, HasFlag
  <2>3. outbox' = [outbox EXCEPT ![p] = @ \cup S]
    BY <2>1, Zenon DEF EnqueueOutgoing
  <2> HIDE DEF parts, options
  <2>4. \A o \in S : HasFlag(o, "RELIABLE")
    BY <2>2 DEF HasFlag
  <2> HIDE DEF S
  <2> QED
    BY <1>t, <2>3, <2>4, Zenon DEF OutboxReliable
<1>2. ASSUME NEW p \in Peer, SendDatagram(p) PROVE OutboxReliable'
  <2>1. PICK again \in SUBSET outbox[p], fresh \in SUBSET outbox[p] :
           SendEffect(p, again, fresh)
    BY <1>2, SendIsEffect, Zenon
  <2>2. \A o \in outbox[p] : HasFlag(Touched(o), "RELIABLE")
    BY <1>0, TouchedFacts, Zenon DEF OutboxReliable, HasFlag
  <2> QED
    BY <1>t, <2>1, <2>2, Zenon DEF SendEffect, OutboxReliable
<1>3. ASSUME NEW p \in Peer, Reset(p) PROVE OutboxReliable'
  BY <1>t, <1>3, Zenon DEF Reset, OutboxReliable
<1>4. \A p \in Peer : \A o \in outbox[p] : HasFlag(Again(o, o.sendCount, "past"), "RELIABLE")
  BY <1>0, AgainFacts, Zenon DEF OutboxReliable, HasFlag
<1>5. ASSUME NEW p \in Peer, RtoElapses(p) PROVE OutboxReliable'
  BY <1>t, <1>4, <1>5, Zenon DEF RtoElapses, OutboxReliable
<1>6. ASSUME NEW p \in Peer, ReadAcks(p) PROVE OutboxReliable'
  BY <1>t, <1>6, Zenon DEF ReadAcks, OutboxReliable
<1>7. ASSUME NEW p \in Peer, ReadNacks(p) PROVE OutboxReliable'
  <2>1. \A q \in Peer : \A o \in outbox'[q] :
          \/ o \in outbox[q]
          \/ \E x \in outbox[q] : o = Again(x, x.sendCount, "past")
    BY <1>t, <1>7, Zenon DEF ReadNacks
  <2> QED
    BY <1>4, <2>1 DEF OutboxReliable
<1>8. CASE UNCHANGED outbox
  BY <1>8, Zenon DEF OutboxReliable
<1> QED
  BY <1>1, <1>2, <1>3, <1>5, <1>6, <1>7, <1>8, Frames, Zenon
     DEF Next, Lose, vars, outVars, inVars, logVars

\* The receive history holds what NotifyReceivedPacket let through.
LEMMA HistoryDeliveredStep ==
  ASSUME TypeOK, HistoryDelivered, [Next]_vars
  PROVE  HistoryDelivered'
<1>1. ASSUME NEW p \in Peer, ReadPacket(p) PROVE HistoryDelivered'
  <2>1. PICK i \in reading[p].packets :
          /\ packetHistory' = [packetHistory EXCEPT ![p] = @ \cup {i}]
          /\ delivered' = [delivered EXCEPT ![p][i] =
               IF IsNew(p, i) THEN @ + 1 ELSE @]
    BY <1>1, Zenon DEF ReadPacket
  <2>2. i \in PacketIDs
    BY Zenon DEF TypeOK, Rests
  <2>3. /\ packetHistory \in [Peer -> SUBSET PacketIDs]
        /\ delivered \in [Peer -> [PacketIDs -> Nat]]
    BY Zenon DEF TypeOK
  <2>4. \A q \in Peer, j \in PacketIDs :
          delivered[q][j] > 0 \/ (q = p /\ j = i) => delivered'[q][j] > 0
    <3>1. delivered[p][i] > 0 \/ IsNew(p, i)
      BY Zenon DEF HistoryDelivered, IsNew
    <3>2. \A q \in Peer, j \in PacketIDs :
            delivered'[q][j] = IF q = p /\ j = i /\ IsNew(p, i) THEN delivered[q][j] + 1
                               ELSE delivered[q][j]
      BY <2>1, <2>2, <2>3, Zenon
    <3> QED
      BY <2>2, <2>3, <3>1, <3>2
  <2>5. \A q \in Peer : \A j \in packetHistory'[q] :
          j \in packetHistory[q] \/ (q = p /\ j = i)
    BY <2>1, <2>3, Zenon
  <2> QED
    BY <2>2, <2>3, <2>4, <2>5, Zenon DEF HistoryDelivered
<1>2. ASSUME NEW p \in Peer, Reset(p) PROVE HistoryDelivered'
  BY <1>2, Zenon DEF Reset, HistoryDelivered, TypeOK
<1>3. ASSUME NEW p \in Peer, UpdateHistory(p) PROVE HistoryDelivered'
  <2>1. \A q \in Peer : packetHistory'[q] \subseteq packetHistory[q]
    <3>1. DOMAIN packetHistory = Peer
      BY Zenon DEF TypeOK
    <3> QED
      BY <1>3, <3>1, Zenon DEF UpdateHistory
  <2> QED
    BY <1>3, <2>1, Zenon DEF UpdateHistory, HistoryDelivered, logVars
<1>4. CASE UNCHANGED <<packetHistory, delivered>>
  BY <1>4, Zenon DEF HistoryDelivered
<1> QED
  BY <1>1, <1>2, <1>3, <1>4, Frames, Zenon
     DEF Next, Lose, vars, outVars, inVars, logVars

\* What is received stays received.
LEMMA ReceivedStep ==
  ASSUME TypeOK, HistoryDelivered, [Next]_vars,
         NEW q \in Peer, NEW i \in PacketIDs, Received(q, i)
  PROVE  Received(q, i)'
<1>1. ASSUME NEW p \in Peer, ReadPacket(p) PROVE Received(q, i)'
  <2>1. PICK j \in reading[p].packets :
          /\ delivered' = [delivered EXCEPT ![p][j] =
               IF IsNew(p, j) THEN @ + 1 ELSE @]
          /\ reading' = [reading EXCEPT ![p] = Rest({}, {}, @.packets \ {j})]
    BY <1>1, Zenon DEF ReadPacket
  <2>2. j \in PacketIDs
    BY Zenon DEF TypeOK, Rests
  <2>3. up' = up
    BY <1>1, Zenon DEF ReadPacket
  <2>4. CASE p # q
    BY <2>1, <2>3, <2>4, Zenon DEF Received, TypeOK
  <2>5. CASE p = q /\ j # i
    BY <2>1, <2>2, <2>3, <2>5, Zenon DEF Received, TypeOK, Rest
  <2>6. CASE p = q /\ j = i
    <3>1. delivered \in [Peer -> [PacketIDs -> Nat]]
      BY Zenon DEF TypeOK
    <3>2. delivered[p][j] > 0 \/ IsNew(p, j)
      BY Zenon DEF IsNew, HistoryDelivered
    <3>3. delivered'[p][j] > 0
      BY <2>1, <2>2, <3>1, <3>2
    <3> QED
      BY <2>6, <3>3, Zenon DEF Received
  <2> QED
    BY <2>4, <2>5, <2>6, Zenon
<1>2. ASSUME NEW p \in Peer, Reset(p) PROVE Received(q, i)'
  BY <1>2, Zenon DEF Reset, Received, TypeOK
<1>3. ASSUME NEW p \in Peer, ReadDatagram(p) PROVE Received(q, i)'
  <2>1. reading \in [Peer -> Rests]
    BY Zenon DEF TypeOK
  <2>2. /\ reading[p] = Idle /\ up' = up /\ delivered' = delivered
        /\ \A x \in Peer : x # p => reading'[x] = reading[x]
    BY <1>3, <2>1, Zenon DEF ReadDatagram, logVars
  <2> QED
    BY <2>2 DEF Received, Idle, Rest
<1>4. ASSUME NEW p \in Peer, ReadAcks(p) PROVE Received(q, i)'
  BY <1>4, Zenon DEF ReadAcks, Received, TypeOK, Rest
<1>5. ASSUME NEW p \in Peer, ReadNacks(p) PROVE Received(q, i)'
  BY <1>5, Zenon DEF ReadNacks, Received, TypeOK, Rest, logVars
<1>6. CASE UNCHANGED <<up, reading, delivered>>
  BY <1>6, Zenon DEF Received
<1> QED
  BY <1>1, <1>2, <1>3, <1>4, <1>5, <1>6, Frames, Zenon
     DEF Next, Lose, vars, outVars, inVars, logVars

\* An acknowledgement comes into being when a datagram is read, with whose
\* packets the read handler is then busy.
LEMMA AckComingStep ==
  ASSUME TypeOK, OutboxReliable, [Next]_vars, NEW p \in Peer, NEW d, AckComing(p, d)'
  PROVE  \/ AckComing(p, d)
         \/ \E m \in wire : /\ m.from = p /\ m.id = d
                            /\ reading'[Other(p)].packets = m.packets
<1> DEFINE Goal == \/ AckComing(p, d)
                   \/ \E m \in wire : /\ m.from = p /\ m.id = d
                                      /\ reading'[Other(p)].packets = m.packets
<1>0. Other(p) \in Peer /\ Other(p) # p /\ Other(Other(p)) = p
  BY OtherFacts, Zenon
<1>1. ASSUME NEW q \in Peer, SendDatagram(q) PROVE Goal
  <2>1. PICK again \in SUBSET outbox[q], fresh \in SUBSET outbox[q] :
           SendEffect(q, again, fresh)
    BY <1>1, SendIsEffect, Zenon
  <2> QED
    <3>1. \A m \in wire' : m \in wire \/ m.acks = {}
      BY <2>1 DEF SendEffect
    <3> QED
      BY <2>1, <3>1, Zenon DEF SendEffect, AckComing, inVars
<1>t. acks \in [Peer -> SUBSET DatagramIDs] /\ reading \in [Peer -> Rests]
  BY Zenon DEF TypeOK
<1>2. ASSUME NEW q \in Peer, SendAckgram(q) PROVE Goal
  BY <1>0, <1>t, <1>2 DEF SendAckgram, AckComing
<1>3. ASSUME NEW q \in Peer, Reset(q) PROVE Goal
  BY <1>0, <1>t, <1>3, Zenon DEF Reset, AckComing
<1>4. ASSUME NEW q \in Peer, ReadDatagram(q) PROVE Goal
  <2>1. PICK m \in wire :
          /\ m.from = Other(q)
          /\ acks' = [acks EXCEPT ![q] = IF m.data THEN @ \cup {m.id} ELSE @]
          /\ reading' = [reading EXCEPT ![q] = Rest(m.acks, m.nacks, m.packets)]
    BY <1>4, Zenon DEF ReadDatagram
  <2>2. wire' = wire
    BY <1>4, Zenon DEF ReadDatagram
  <2>3. CASE q = p
    BY <1>0, <1>t, <2>1, <2>2, <2>3, Zenon DEF AckComing, Rest
  <2>4. CASE q = Other(p)
    BY <1>0, <1>t, <2>1, <2>2, <2>4, Zenon DEF AckComing, Rest
  <2> QED
    BY <2>3, <2>4, OtherFacts, Zenon
<1>5. ASSUME NEW q \in Peer, ReadAcks(q) \/ ReadNacks(q) \/ ReadPacket(q) PROVE Goal
  <2>1. reading'[p].acks \subseteq reading[p].acks
    <3>1. CASE ReadAcks(q)
      BY <1>t, <3>1, Zenon DEF ReadAcks, Rest
    <3>2. CASE ReadNacks(q)
      BY <1>t, <3>2, Zenon DEF ReadNacks, Rest
    <3>3. CASE ReadPacket(q)
      BY <1>t, <3>3 DEF ReadPacket, Rest
    <3> QED
      BY <1>5, <3>1, <3>2, <3>3, Zenon
  <2>2. UNCHANGED <<acks, wire>>
    BY <1>5, Frames, Zenon DEF inVars
  <2> QED
    BY <2>1, <2>2, Zenon DEF AckComing
<1>8. ASSUME Lose PROVE Goal
  BY <1>8, Zenon DEF Lose, AckComing, inVars
<1>9. CASE UNCHANGED <<acks, reading, wire>>
  BY <1>9, Zenon DEF AckComing
<1> QED
  BY <1>1, <1>2, <1>3, <1>4, <1>5, <1>8, <1>9, Frames, Zenon
     DEF Next, Lose, vars, outVars, inVars, logVars

\* A datagram that a step adds carries the next number, in the sentbox as on the
\* wire, and the same packets in both.
LEMMA NewDatagrams ==
  ASSUME TypeOK, OutboxReliable, [Next]_vars
  PROVE  /\ \A p \in Peer : nextDatagram[p] <= nextDatagram'[p]
         /\ \A p \in Peer : \A s \in sentbox'[p] :
              s \in sentbox[p] \/ /\ s.id = nextDatagram[p]
                                  /\ nextDatagram'[p] = nextDatagram[p] + 1
                                  /\ s.packets \subseteq Ids(outbox[p])
         /\ \A m \in wire' :
              m \in wire \/ /\ m.id = nextDatagram[m.from]
                            /\ nextDatagram'[m.from] = nextDatagram[m.from] + 1
         /\ \A p \in Peer : \A s \in sentbox'[p] \ sentbox[p] : \A m \in wire' \ wire :
              m.from = p => m.packets = s.packets
<1> DEFINE Goal ==
         /\ \A p \in Peer : nextDatagram[p] <= nextDatagram'[p]
         /\ \A p \in Peer : \A s \in sentbox'[p] :
              s \in sentbox[p] \/ /\ s.id = nextDatagram[p]
                                  /\ nextDatagram'[p] = nextDatagram[p] + 1
                                  /\ s.packets \subseteq Ids(outbox[p])
         /\ \A m \in wire' :
              m \in wire \/ /\ m.id = nextDatagram[m.from]
                            /\ nextDatagram'[m.from] = nextDatagram[m.from] + 1
         /\ \A p \in Peer : \A s \in sentbox'[p] \ sentbox[p] : \A m \in wire' \ wire :
              m.from = p => m.packets = s.packets
<1>0. \A p \in Peer : nextDatagram[p] \in Nat
  BY LimitAssumption DEF TypeOK
<1>t. DOMAIN nextDatagram = Peer /\ DOMAIN sentbox = Peer
  BY Zenon DEF TypeOK
<1>1. ASSUME NEW p \in Peer, SendDatagram(p) PROVE Goal
  <2>1. PICK again \in SUBSET outbox[p], fresh \in SUBSET outbox[p] :
           SendEffect(p, again, fresh)
    BY <1>1, SendIsEffect, Zenon
  <2>2. Ids(again \cup fresh) \subseteq Ids(outbox[p])
    BY Zenon DEF Ids
  <2> DEFINE packets == Ids(again \cup fresh)
             s0 == [id |-> nextDatagram[p], packets |-> packets]
             m0 == [from |-> p, id |-> nextDatagram[p], data |-> TRUE,
                    listed |-> packets, packets |-> packets, acks |-> {}, nacks |-> {}]
  <2>3. /\ nextDatagram' = [nextDatagram EXCEPT ![p] = nextDatagram[p] + 1]
        /\ sentbox' = [sentbox EXCEPT ![p] = @ \cup {s0}]
        /\ wire' = wire \cup {m0}
    BY <2>1, Zenon DEF SendEffect
  <2>4. /\ s0.id = nextDatagram[p] /\ s0.packets = packets
        /\ m0.from = p /\ m0.id = nextDatagram[p] /\ m0.packets = packets
    BY Zenon
  <2>6. packets \subseteq Ids(outbox[p])
    BY <2>2, Zenon
  <2> HIDE DEF packets, s0, m0
  <2> QED
    BY <1>0, <1>t, <2>3, <2>4, <2>6
<1>2. ASSUME NEW p \in Peer, SendAckgram(p) PROVE Goal
  <2> DEFINE packets == {}
             s0 == [id |-> nextDatagram[p], packets |-> packets]
             m0 == [from |-> p, id |-> nextDatagram[p], data |-> FALSE, listed |-> {},
                    packets |-> packets, acks |-> acks[p], nacks |-> nacks[p]]
  <2>1. /\ nextDatagram' = [nextDatagram EXCEPT ![p] = nextDatagram[p] + 1]
        /\ sentbox' = [sentbox EXCEPT ![p] = @ \cup {s0}]
        /\ wire' = wire \cup {m0}
    BY <1>2, Zenon DEF SendAckgram
  <2>2. /\ s0.id = nextDatagram[p] /\ s0.packets = packets
        /\ m0.from = p /\ m0.id = nextDatagram[p] /\ m0.packets = packets
        /\ packets \subseteq Ids(outbox[p])
    BY Zenon
  <2> HIDE DEF packets, s0, m0
  <2> QED
    BY <1>0, <1>t, <2>1, <2>2
<1>3. CASE /\ \A p \in Peer : nextDatagram[p] <= nextDatagram'[p]
           /\ \A p \in Peer : sentbox'[p] \subseteq sentbox[p]
           /\ wire' \subseteq wire
  BY <1>3, Zenon
<1>4. ASSUME UNCHANGED <<nextDatagram, sentbox, wire>> PROVE Goal
  BY <1>0, <1>3, <1>4
<1>5. ASSUME NEW p \in Peer, Reset(p),
             nextDatagram' = nextDatagram \/ nextDatagram' = [nextDatagram EXCEPT ![p] = @ + 1]
      PROVE  Goal
  <2>1. \A q \in Peer : nextDatagram[q] <= nextDatagram'[q]
    <3>1. CASE nextDatagram' = nextDatagram
      BY <1>0, <3>1
    <3>2. CASE nextDatagram' = [nextDatagram EXCEPT ![p] = nextDatagram[p] + 1]
      BY <1>0, <3>2 DEF TypeOK
    <3> QED
      BY <1>5, <3>1, <3>2, Zenon
  <2>2. (\A q \in Peer : sentbox'[q] \subseteq sentbox[q]) /\ wire' \subseteq wire
    BY <1>5, ZenonT(30) DEF Reset, TypeOK
  <2> QED
    BY <1>3, <2>1, <2>2, Zenon
<1>6. ASSUME NEW p \in Peer, UpdateReceipts(p) \/ ReadAcks(p) \/ ReadNacks(p) PROVE Goal
  <2>1. \A q \in Peer : sentbox'[q] \subseteq sentbox[q]
    <3>1. DOMAIN sentbox = Peer
      BY Zenon DEF TypeOK
    <3>2. \E old : sentbox' = [sentbox EXCEPT ![p] = @ \ old]
      BY <1>6, Zenon DEF UpdateReceipts, ReadAcks, ReadNacks
    <3> QED
      BY <3>1, <3>2, Zenon
  <2>2. UNCHANGED <<nextDatagram, wire>>
    BY <1>6, Frames, Zenon DEF UpdateReceipts, ReadNacks
  <2> QED
    BY <1>0, <1>3, <2>1, <2>2
<1>7. ASSUME Lose PROVE Goal
  BY <1>0, <1>3, <1>7, SMTT(20) DEF Lose, outVars
<1> HIDE DEF Goal
<1>8. ASSUME NEW p \in Peer, GiveUp(p) \/ WriteError(p) \/ ReadCorrupt(p) PROVE Goal
  BY <1>5, <1>8, Zenon DEF GiveUp, WriteError, ReadCorrupt
<1>9. Goal
  BY <1>1, <1>2, <1>4, <1>6, <1>7, <1>8, Frames, Zenon
     DEF Next, Lose, vars, outVars, inVars, logVars
<1> QED
  BY <1>9, Zenon DEF Goal

\* Datagram numbers keep their order.
LEMMA DatagramsNumberedStep ==
  ASSUME TypeOK, OutboxReliable, DatagramsNumbered, [Next]_vars
  PROVE  DatagramsNumbered'
<1>0. \A p \in Peer : nextDatagram[p] \in Nat /\ nextDatagram'[p] \in Nat
  BY TypeStep, LimitAssumption DEF TypeOK
<1>t. /\ wire' \subseteq Datagram
      /\ sentbox \in [Peer -> SUBSET OutgoingDatagram]
  BY TypeStep, Zenon DEF TypeOK
<1>2. \A m \in wire' : m.from \in Peer /\ m.id \in Nat
  BY <1>t, LimitAssumption DEF Datagram, DatagramIDs
<1>3. \A p \in Peer : \A s \in sentbox[p] : s.id \in Nat
  BY <1>t, LimitAssumption DEF OutgoingDatagram, DatagramIDs
<1>4. ASSUME NEW p \in Peer, NEW s \in sentbox'[p] PROVE s.id < nextDatagram'[p]
  <2>1. nextDatagram[p] <= nextDatagram'[p]
    BY NewDatagrams, Zenon
  <2>2. CASE s \in sentbox[p]
    BY <1>0, <1>3, <2>1, <2>2 DEF DatagramsNumbered
  <2>3. CASE s \notin sentbox[p]
    <3>1. s.id = nextDatagram[p] /\ nextDatagram'[p] = nextDatagram[p] + 1
      BY <2>3, NewDatagrams, Zenon
    <3> QED
      BY <1>0, <3>1
  <2> QED
    BY <2>2, <2>3, Zenon
<1>5. ASSUME NEW m \in wire' PROVE m.id < nextDatagram'[m.from]
  <2>1. m.from \in Peer /\ m.id \in Nat /\ nextDatagram[m.from] <= nextDatagram'[m.from]
    BY <1>2, NewDatagrams, Zenon
  <2>2. CASE m \in wire
    BY <1>0, <2>1, <2>2 DEF DatagramsNumbered
  <2>3. CASE m \notin wire
    <3>1. m.id = nextDatagram[m.from] /\ nextDatagram'[m.from] = nextDatagram[m.from] + 1
      BY <2>3, NewDatagrams, Zenon
    <3> QED
      BY <1>0, <2>1, <3>1
  <2> QED
    BY <2>2, <2>3, Zenon
<1>6. ASSUME NEW p \in Peer, NEW d \in DatagramIDs, AckComing(p, d)'
      PROVE  d < nextDatagram'[p]
  <2>1. d \in Nat
    BY LimitAssumption DEF DatagramIDs
  <2>2. d < nextDatagram[p]
    BY <1>6, AckComingStep DEF DatagramsNumbered
  <2> QED
    BY <1>0, <2>1, <2>2, NewDatagrams
<1> QED
  BY <1>4, <1>5, <1>6, Zenon DEF DatagramsNumbered

\* Sentbox and wire keep agreeing on the packets of a datagram.
LEMMA RecordMatchesWireStep ==
  ASSUME TypeOK, OutboxReliable, DatagramsNumbered, RecordMatchesWire, [Next]_vars
  PROVE  RecordMatchesWire'
<1> SUFFICES ASSUME NEW p \in Peer, NEW s \in sentbox'[p], NEW m \in wire',
                    m.from = p, m.id = s.id
             PROVE  m.packets = s.packets
  BY Zenon DEF RecordMatchesWire
<1>0. nextDatagram[p] \in Nat
  BY LimitAssumption DEF TypeOK
<1>1. CASE s \in sentbox[p] /\ m \in wire
  BY <1>1, Zenon DEF RecordMatchesWire
<1>2. CASE s \in sentbox[p] /\ m \notin wire
  <2>1. s.id < nextDatagram[p]
    BY <1>2, Zenon DEF DatagramsNumbered
  <2>2. m.id = nextDatagram[p]
    BY <1>2, NewDatagrams, Zenon
  <2> QED
    BY <1>0, <2>1, <2>2
<1>3. CASE s \notin sentbox[p] /\ m \in wire
  <2>1. m.id < nextDatagram[p]
    BY <1>3, Zenon DEF DatagramsNumbered
  <2>2. s.id = nextDatagram[p]
    BY <1>3, NewDatagrams, Zenon
  <2> QED
    BY <1>0, <2>1, <2>2
<1>4. CASE s \notin sentbox[p] /\ m \notin wire
  BY <1>4, NewDatagrams
<1> QED
  BY <1>1, <1>2, <1>3, <1>4, Zenon

\* Acknowledgements keep telling the truth: the one a read adds is for a
\* datagram whose packets the reader is about to process.
LEMMA AcksTellTruthStep ==
  ASSUME TypeOK, OutboxReliable, DatagramsNumbered, RecordMatchesWire,
         HistoryDelivered, AcksTellTruth, [Next]_vars
  PROVE  AcksTellTruth'
<1> SUFFICES ASSUME NEW p \in Peer, NEW s \in sentbox'[p], AckComing(p, s.id)',
                    NEW i \in s.packets
             PROVE  Received(Other(p), i)'
  BY ZenonT(40) DEF AcksTellTruth
<1>0. Other(p) \in Peer /\ nextDatagram[p] \in Nat
  BY OtherFacts, LimitAssumption, SMTT(20) DEF TypeOK
<1>1. s.id \in DatagramIDs /\ i \in PacketIDs
  BY TypeStep, SMTT(20) DEF TypeOK, OutgoingDatagram
<1>2. \/ AckComing(p, s.id)
      \/ \E m \in wire : /\ m.from = p /\ m.id = s.id
                         /\ reading'[Other(p)].packets = m.packets
  BY AckComingStep
<1>3. s.id < nextDatagram[p]
  BY <1>1, <1>2, Zenon DEF DatagramsNumbered
<1>4. s \in sentbox[p]
  BY <1>0, <1>3, NewDatagrams
<1>5. CASE AckComing(p, s.id)
  <2>1. Received(Other(p), i)
    BY <1>4, <1>5, Zenon DEF AcksTellTruth
  <2> QED
    BY <1>0, <1>1, <2>1, ReceivedStep, Zenon
<1>6. CASE \E m \in wire : /\ m.from = p /\ m.id = s.id
                           /\ reading'[Other(p)].packets = m.packets
  BY <1>4, <1>6, Zenon DEF RecordMatchesWire, Received
<1> QED
  BY <1>2, <1>5, <1>6, Zenon

(***************************************************************************)
(* Messages, packets and receipts.                                         *)
(***************************************************************************)

\* What a call of Send adds: a message under a fresh id c, whose parts are
\* either c alone or later ids, and a packet for each part.
EnqueueEffect(p, c, parts, options) ==
  /\ c = nextPacket[p]
  /\ c \in Nat /\ nextPacket'[p] \in Nat /\ c < nextPacket'[p]
  /\ \A i \in parts : i \in Nat /\ c <= i /\ i < nextPacket'[p]
  /\ c \in parts => parts = {c}
  /\ sent' = [sent EXCEPT ![p] =
       @ \cup {[id |-> c, parts |-> parts, options |-> options]}]
  /\ outbox' = [outbox EXCEPT ![p] =
       @ \cup {[id |-> i, options |-> options, sendCount |-> 0,
                sendNext |-> "past"] : i \in parts}]
  /\ tracker' = tracker \/ tracker' = [tracker EXCEPT ![p] = @ \cup {c}]
  /\ \/ splits' = splits
     \/ /\ c \notin parts
        /\ splits' = [splits EXCEPT ![p] =
             @ \cup {[container |-> c, segments |-> parts]}]
  /\ \A q \in Peer : q # p => nextPacket'[q] = nextPacket[q]

\* EnqueueOutgoing has this effect.
LEMMA EnqueueIsEffect ==
  ASSUME TypeOK, NEW p \in Peer, Enqueue(p)
  PROVE  \E c, parts, options : EnqueueEffect(p, c, parts, options)
<1>1. PICK m \in Workload[p] : EnqueueOutgoing(p, m)
  BY Zenon DEF Enqueue
<1>2. m.segments \in Nat \ {0}
  BY WorkloadAssumption, Zenon DEF Message
<1> DEFINE c == nextPacket[p]
           parts == IF m.segments = 1 THEN {c} ELSE c + 1 .. c + m.segments
           last == IF m.segments = 1 THEN c ELSE c + m.segments
           options == IF m.segments = 1 THEN m.options
                      ELSE m.options \cup {"RELIABLE"}
<1>3. c \in Nat
  BY LimitAssumption DEF TypeOK
<1>4. nextPacket' = [nextPacket EXCEPT ![p] = last + 1]
  BY <1>1, Zenon DEF EnqueueOutgoing
<1>5. nextPacket'[p] = last + 1 /\ last \in Nat /\ c <= last
  BY <1>2, <1>3, <1>4 DEF TypeOK
<1>6. \A i \in parts : i \in Nat /\ c <= i /\ i <= last
  BY <1>2, <1>3
<1>7. c \in parts => parts = {c}
  BY <1>2, <1>3
<1>8. m.segments > 1 => c \notin parts
  BY <1>2, <1>3
<1>9. /\ sent' = [sent EXCEPT ![p] =
           @ \cup {[id |-> c, parts |-> parts, options |-> options]}]
      /\ outbox' = [outbox EXCEPT ![p] =
           @ \cup {[id |-> i, options |-> options, sendCount |-> 0,
                    sendNext |-> "past"] : i \in parts}]
  BY <1>1, Zenon DEF EnqueueOutgoing
<1>10. tracker' = tracker \/ tracker' = [tracker EXCEPT ![p] = @ \cup {c}]
  BY <1>1, Zenon DEF EnqueueOutgoing, TypeOK
<1>11. \/ splits' = splits
       \/ /\ m.segments > 1
          /\ splits' = [splits EXCEPT ![p] =
               @ \cup {[container |-> c, segments |-> parts]}]
  <2>1. CASE HasFlag(m, "WITH_RECEIPT") /\ m.segments > 1
    BY <1>1, <2>1, Zenon DEF EnqueueOutgoing
  <2>2. CASE ~ (HasFlag(m, "WITH_RECEIPT") /\ m.segments > 1)
    BY <1>1, <2>2, Zenon DEF EnqueueOutgoing, TypeOK
  <2> QED
    BY <2>1, <2>2, Zenon
<1>12. \A q \in Peer : q # p => nextPacket'[q] = nextPacket[q]
  BY <1>4, Zenon DEF TypeOK
<1> HIDE DEF c, parts, last, options
<1>13. EnqueueEffect(p, c, parts, options)
  <2>1. c < nextPacket'[p] /\ nextPacket'[p] \in Nat
    BY <1>3, <1>5
  <2>2. \A i \in parts : i \in Nat /\ c <= i /\ i < nextPacket'[p]
    BY <1>5, <1>6
  <2> QED
    BY <1>3, <1>7, <1>8, <1>9, <1>10, <1>11, <1>12, <2>1, <2>2, Zenon DEF EnqueueEffect, c
<1> QED
  BY <1>13, Zenon

\* Only Enqueue touches the log of messages and the packet numbers.
LEMMA SentStep ==
  ASSUME TypeOK, [Next]_vars
  PROVE  \/ \E p \in Peer : Enqueue(p)
         \/ UNCHANGED <<sent, nextPacket>>
BY Frames, Zenon DEF Next, Lose, vars, outVars, logVars

\* Packet numbers are used once.
LEMMA IdsUsedOnceStep ==
  ASSUME TypeOK, IdsUsedOnce, [Next]_vars
  PROVE  IdsUsedOnce'
<1>1. CASE UNCHANGED <<sent, nextPacket>>
  BY <1>1, Zenon DEF IdsUsedOnce
<1>2. ASSUME NEW p \in Peer, Enqueue(p) PROVE IdsUsedOnce'
  <2>1. PICK c, parts, options : EnqueueEffect(p, c, parts, options)
    BY <1>2, EnqueueIsEffect, Zenon
  <2> DEFINE new == [id |-> c, parts |-> parts, options |-> options]
  <2>2. new.id = c /\ new.parts = parts
    BY Zenon
  <2>3. sent' = [sent EXCEPT ![p] = @ \cup {new}]
    BY <2>1, Zenon DEF EnqueueEffect
  <2> HIDE DEF new
  <2>4. \A q \in Peer : \A m \in sent[q] : m.id \in Nat /\ \A i \in m.parts : i \in Nat
    <3>1. sent \in [Peer -> SUBSET SentMessage]
      BY Zenon DEF TypeOK
    <3> QED
      BY <3>1, LimitAssumption DEF SentMessage, PacketIDs
  <2>5. ASSUME NEW q \in Peer, q # p
        PROVE  sent'[q] = sent[q] /\ nextPacket'[q] = nextPacket[q]
    BY <2>1, <2>3, <2>5 DEF EnqueueEffect, TypeOK
  <2>6. sent'[p] = sent[p] \cup {new}
    BY <2>3, Zenon DEF TypeOK
  <2>7. /\ c = nextPacket[p] /\ c \in Nat /\ nextPacket'[p] \in Nat /\ c < nextPacket'[p]
        /\ \A i \in parts : i \in Nat /\ c <= i /\ i < nextPacket'[p]
        /\ c \in parts => parts = {c}
    BY <2>1, Zenon DEF EnqueueEffect
  <2>8. ASSUME NEW m \in sent[p]
        PROVE  /\ m.id < c /\ m.id < nextPacket'[p]
               /\ \A i \in m.parts : i < nextPacket'[p] /\ i # c
               /\ m.id \notin parts
    BY <2>4, <2>7 DEF IdsUsedOnce
  <2>9. ASSUME NEW m \in sent'[p]
        PROVE  /\ m.id < nextPacket'[p]
               /\ \A i \in m.parts : i < nextPacket'[p]
               /\ m.id \in m.parts => m.parts = {m.id}
               /\ \A n \in sent'[p] : m # n => m.id # n.id /\ m.id \notin n.parts
    <3>1. CASE m \in sent[p]
      BY <2>2, <2>4, <2>6, <2>7, <2>8, <3>1, SMTT(30) DEF IdsUsedOnce
    <3>2. CASE m = new
      BY <2>2, <2>4, <2>6, <2>7, <2>8, <3>2
    <3> QED
      BY <2>6, <3>1, <3>2, Zenon
  <2> QED
    BY <2>5, <2>9, Zenon DEF IdsUsedOnce
<1> QED
  BY <1>1, <1>2, SentStep, Zenon

\* How the ids of an outbox change: a call of Send adds some, acknowledgements
\* and the end of the connection remove some, everything else keeps them.
LEMMA OutboxIds ==
  ASSUME TypeOK, OutboxReliable, [Next]_vars, NEW p \in Peer
  PROVE  \/ Enqueue(p)
         \/ Ids(outbox'[p]) = Ids(outbox[p])
         \/ ~ up'[p] /\ outbox'[p] = {}
         \/ ReadAcks(p)
<1> DEFINE Goal == \/ Enqueue(p)
                   \/ Ids(outbox'[p]) = Ids(outbox[p])
                   \/ ~ up'[p] /\ outbox'[p] = {}
                   \/ ReadAcks(p)
<1>0. \A o \in outbox[p] : o \in OutgoingPacket /\ o.sendCount \in Nat
  BY DEF TypeOK, OutgoingPacket
<1>1. ASSUME NEW q \in Peer, Enqueue(q) PROVE Goal
  <2>1. PICK c, parts, options : EnqueueEffect(q, c, parts, options)
    BY <1>1, EnqueueIsEffect, Zenon
  <2>2. q # p => outbox'[p] = outbox[p]
    BY <2>1, Zenon DEF EnqueueEffect, TypeOK
  <2> QED
    BY <1>1, <2>2, Zenon
<1>2. ASSUME NEW q \in Peer, SendDatagram(q) PROVE Goal
  <2>1. PICK again \in SUBSET outbox[q], fresh \in SUBSET outbox[q] :
           SendEffect(q, again, fresh)
    BY <1>2, SendIsEffect, Zenon
  <2> DEFINE queue == again \cup fresh
  <2>2. outbox' = [outbox EXCEPT ![q] = (outbox[q] \ queue) \cup {Touched(o) : o \in queue}]
    BY <2>1, Zenon DEF SendEffect
  <2>3. CASE q = p
    <3>1. queue \in SUBSET OutgoingPacket /\ queue \subseteq outbox[p]
      BY <1>0, <2>3, Zenon
    <3>2. outbox'[p] = (outbox[p] \ queue) \cup {Touched(o) : o \in queue}
      BY <2>2, <2>3, Zenon DEF TypeOK
    <3> HIDE DEF queue
    <3>3. Ids({Touched(o) : o \in queue}) = Ids(queue)
      BY <3>1, TouchedIds, Zenon
    <3>4. Ids(outbox'[p]) = Ids(outbox[p] \ queue) \cup Ids({Touched(o) : o \in queue})
      BY <3>2, Zenon DEF Ids
    <3>5. Ids(outbox[p]) = Ids(outbox[p] \ queue) \cup Ids(queue)
      BY <3>1, Zenon DEF Ids
    <3> QED
      BY <3>3, <3>4, <3>5, Zenon
  <2>4. CASE q # p
    BY <2>2, <2>4, Zenon DEF TypeOK
  <2> QED
    BY <2>3, <2>4, Zenon
<1>3. ASSUME NEW q \in Peer, Reset(q) PROVE Goal
  BY <1>3, Zenon DEF Reset, TypeOK
<1>4. \A o \in outbox[p] : Again(o, o.sendCount, "past").id = o.id
  BY <1>0, AgainFacts, Zenon
<1>5. ASSUME NEW q \in Peer, RtoElapses(q) PROVE Goal
  <2>1. PICK o \in outbox[q] :
          outbox' = [outbox EXCEPT ![q] = (@ \ {o}) \cup {Again(o, o.sendCount, "past")}]
    BY <1>5, Zenon DEF RtoElapses
  <2>2. CASE q = p
    <3>1. outbox'[p] = (outbox[p] \ {o}) \cup {Again(o, o.sendCount, "past")}
      BY <2>1, <2>2, Zenon DEF TypeOK
    <3> QED
      BY <1>4, <2>2, <3>1, Zenon DEF Ids
  <2>3. CASE q # p
    BY <2>1, <2>3, Zenon DEF TypeOK
  <2> QED
    BY <2>2, <2>3, Zenon
<1>6. ASSUME NEW q \in Peer, ReadAcks(q) PROVE Goal
  <2>1. q # p => outbox'[p] = outbox[p]
    BY <1>6, Zenon DEF ReadAcks, TypeOK
  <2> QED
    BY <1>6, <2>1, Zenon
<1>7. ASSUME NEW q \in Peer, ReadNacks(q) PROVE Goal
  <2> DEFINE ids == UNION {s.packets : s \in Named(q, reading[q].nacks)}
  <2>1. outbox' = [outbox EXCEPT ![q] =
           {IF o.id \in ids THEN Again(o, o.sendCount, "past") ELSE o : o \in @}]
    BY <1>7, Zenon DEF ReadNacks
  <2> HIDE DEF ids
  <2>2. CASE q = p
    <3>1. outbox'[p] =
            {IF o.id \in ids THEN Again(o, o.sendCount, "past") ELSE o : o \in outbox[p]}
      BY <2>1, <2>2, Zenon DEF TypeOK
    <3> QED
      BY <1>4, <3>1 DEF Ids
  <2>3. CASE q # p
    BY <2>1, <2>3, Zenon DEF TypeOK
  <2> QED
    BY <2>2, <2>3, Zenon
<1>8. ASSUME UNCHANGED outbox PROVE Goal
  BY <1>8, Zenon
<1> HIDE DEF Goal
<1>9. ASSUME Lose \/ UNCHANGED vars PROVE Goal
  BY <1>8, <1>9, Zenon DEF Lose, vars, outVars
<1>10. ASSUME NEW q \in Peer,
              \/ SendAckgram(q) \/ UpdateInFlight(q) \/ UpdateHistory(q)
              \/ UpdateReceipts(q) \/ ReadDatagram(q) \/ ReadPacket(q)
       PROVE  Goal
  BY <1>8, <1>10, Frames, Zenon DEF outVars
<1>11. ASSUME NEW q \in Peer, GiveUp(q) \/ WriteError(q) \/ ReadCorrupt(q) PROVE Goal
  BY <1>3, <1>11, Frames, Zenon
<1>12. Goal
  BY <1>1, <1>2, <1>5, <1>6, <1>7, <1>9, <1>10, <1>11, Zenon DEF Next
<1> QED
  BY <1>12, Zenon DEF Goal


\* The log of messages only grows, and packet numbers with it.
LEMMA SentGrows ==
  ASSUME TypeOK, [Next]_vars, NEW p \in Peer
  PROVE  sent[p] \subseteq sent'[p] /\ nextPacket[p] <= nextPacket'[p]
<1>t. nextPacket \in [Peer -> 0 .. MaxPackets]
  BY Zenon DEF TypeOK
<1>0. nextPacket[p] \in Nat
  BY <1>t, LimitAssumption
<1>1. ASSUME NEW q \in Peer, Enqueue(q)
      PROVE  sent[p] \subseteq sent'[p] /\ nextPacket[p] <= nextPacket'[p]
  <2>1. PICK c, parts, options : EnqueueEffect(q, c, parts, options)
    BY <1>1, EnqueueIsEffect, Zenon
  <2>t. DOMAIN sent = Peer /\ DOMAIN nextPacket = Peer
    BY SMTT(20) DEF TypeOK
  <2>e. /\ sent' = [sent EXCEPT ![q] =
             @ \cup {[id |-> c, parts |-> parts, options |-> options]}]
        /\ c = nextPacket[q] /\ nextPacket'[q] \in Nat /\ c < nextPacket'[q]
        /\ \A x \in Peer : x # q => nextPacket'[x] = nextPacket[x]
    BY <2>1, Zenon DEF EnqueueEffect
  <2>2. CASE q = p
    BY <1>0, <2>e, <2>t, <2>2
  <2>3. CASE q # p
    BY <1>0, <2>e, <2>t, <2>3
  <2> QED
    BY <2>2, <2>3, Zenon
<1>2. CASE UNCHANGED <<sent, nextPacket>>
  BY <1>0, <1>2
<1> QED
  BY <1>1, <1>2, SentStep, Zenon

\* A message that is new to the log of p was enqueued in this very step.
LEMMA NewMessage ==
  ASSUME TypeOK, [Next]_vars, NEW p \in Peer, NEW m \in sent'[p], m \notin sent[p]
  PROVE  /\ Enqueue(p)
         /\ m.id = nextPacket[p]
         /\ \A i \in m.parts : i \in Ids(outbox'[p])
<1>1. PICK q \in Peer : Enqueue(q)
  BY SentStep, Zenon
<1>2. PICK c, parts, options : EnqueueEffect(q, c, parts, options)
  BY <1>1, EnqueueIsEffect, Zenon
<1> DEFINE new == [id |-> c, parts |-> parts, options |-> options]
           box == {[id |-> i, options |-> options, sendCount |-> 0,
                    sendNext |-> "past"] : i \in parts}
<1>3. sent' = [sent EXCEPT ![q] = @ \cup {new}]
  BY <1>2, Zenon DEF EnqueueEffect
<1>4. outbox' = [outbox EXCEPT ![q] = @ \cup box]
  BY <1>2, Zenon DEF EnqueueEffect
<1>5. new.id = c /\ new.parts = parts
  BY Zenon
<1>6. ASSUME NEW i \in parts PROVE \E o \in box : o.id = i
  <2> DEFINE o == [id |-> i, options |-> options, sendCount |-> 0, sendNext |-> "past"]
  <2>1. o \in box /\ o.id = i
    BY Zenon
  <2> HIDE DEF o, box
  <2> QED
    BY <2>1, Zenon
<1> HIDE DEF new, box
<1>7. q = p /\ m = new
  BY <1>3, Zenon DEF TypeOK
<1>8. outbox'[p] = outbox[p] \cup box
  BY <1>4, <1>7, Zenon DEF TypeOK
<1>9. c = nextPacket[p]
  BY <1>2, <1>7, Zenon DEF EnqueueEffect
<1> QED
  BY <1>1, <1>5, <1>6, <1>7, <1>8, <1>9, Zenon DEF Ids

\* Nothing but a call of Send adds to the tracker.
LEMMA TrackerStep ==
  ASSUME TypeOK, [Next]_vars, NEW p \in Peer
  PROVE  Enqueue(p) \/ tracker'[p] \subseteq tracker[p]
<1> DEFINE Goal == Enqueue(p) \/ tracker'[p] \subseteq tracker[p]
<1>1. ASSUME NEW q \in Peer, Enqueue(q) PROVE Goal
  <2>1. PICK c, parts, options : EnqueueEffect(q, c, parts, options)
    BY <1>1, EnqueueIsEffect, Zenon
  <2>2. q # p => tracker'[p] = tracker[p]
    BY <2>1, Zenon DEF EnqueueEffect, TypeOK
  <2> QED
    BY <1>1, <2>2, Zenon
<1>2. ASSUME NEW q \in Peer, Reset(q) PROVE Goal
  BY <1>2, Zenon DEF Reset, TypeOK
<1>3. ASSUME NEW q \in Peer, UpdateReceipts(q) PROVE Goal
  <2>1. PICK gone : tracker' = [tracker EXCEPT ![q] = @ \ gone]
    BY <1>3, Zenon DEF UpdateReceipts
  <2> QED
    BY <2>1, Zenon DEF TypeOK
<1>4. ASSUME NEW q \in Peer, ReadAcks(q) PROVE Goal
  <2>1. PICK gone : tracker' = [tracker EXCEPT ![q] = @ \ gone]
    BY <1>4, Zenon DEF ReadAcks
  <2> QED
    BY <2>1, Zenon DEF TypeOK
<1>5. ASSUME UNCHANGED tracker PROVE Goal
  BY <1>5, Zenon
<1> HIDE DEF Goal
<1>6. ASSUME Lose \/ UNCHANGED vars PROVE Goal
  BY <1>5, <1>6, Zenon DEF Lose, vars, outVars
<1>7. ASSUME NEW q \in Peer,
             \/ SendDatagram(q) \/ SendAckgram(q) \/ RtoElapses(q) \/ UpdateInFlight(q)
             \/ UpdateHistory(q) \/ ReadDatagram(q) \/ ReadNacks(q) \/ ReadPacket(q)
      PROVE  Goal
  BY <1>5, <1>7, Frames, SMTT(20) DEF outVars
<1>8. ASSUME NEW q \in Peer, GiveUp(q) \/ WriteError(q) \/ ReadCorrupt(q) PROVE Goal
  BY <1>2, <1>8, Frames, Zenon
<1>9. Goal
  BY <1>1, <1>3, <1>4, <1>6, <1>7, <1>8, Zenon DEF Next
<1> QED
  BY <1>9, Zenon DEF Goal

\* Packets, records of datagrams and due receipts stem from a call of Send.
LEMMA FromSentStep ==
  ASSUME TypeOK, OutboxReliable, FromSent, [Next]_vars
  PROVE  FromSent'
<1> SUFFICES ASSUME NEW p \in Peer
             PROVE  /\ \A i \in Ids(outbox'[p]) : \E m \in sent'[p] : i \in m.parts
                    /\ \A s \in sentbox'[p] : \A i \in s.packets :
                         \E m \in sent'[p] : i \in m.parts
                    /\ \A i \in tracker'[p] : \E m \in sent'[p] : m.id = i
  BY ZenonT(40) DEF FromSent, Ids
<1>1. /\ \A i \in Ids(outbox[p]) : \E m \in sent'[p] : i \in m.parts
      /\ \A s \in sentbox[p] : \A i \in s.packets : \E m \in sent'[p] : i \in m.parts
      /\ \A i \in tracker[p] : \E m \in sent'[p] : m.id = i
  <2>1. sent[p] \subseteq sent'[p]
    BY SentGrows, Zenon
  <2>2. \A i \in Ids(outbox[p]) : \E m \in sent'[p] : i \in m.parts
    BY <2>1 DEF FromSent, Ids
  <2>3. \A s \in sentbox[p] : \A i \in s.packets : \E m \in sent'[p] : i \in m.parts
    BY <2>1, Zenon DEF FromSent
  <2>4. \A i \in tracker[p] : \E m \in sent'[p] : m.id = i
    BY <2>1, Zenon DEF FromSent
  <2> QED
    BY <2>2, <2>3, <2>4, Zenon
<1>2. \A s \in sentbox'[p] : \A i \in s.packets : \E m \in sent'[p] : i \in m.parts
  BY <1>1, NewDatagrams, Zenon
<1>3. CASE Enqueue(p)
  <2>1. PICK c, parts, options : EnqueueEffect(p, c, parts, options)
    BY <1>3, EnqueueIsEffect, Zenon
  <2> DEFINE new == [id |-> c, parts |-> parts, options |-> options]
             box == {[id |-> i, options |-> options, sendCount |-> 0,
                      sendNext |-> "past"] : i \in parts}
  <2>2. new.id = c /\ new.parts = parts
    BY Zenon
  <2>3. \A o \in box : o.id \in parts
    BY SMTT(20)
  <2>4. sent' = [sent EXCEPT ![p] = @ \cup {new}]
    BY <2>1, Zenon DEF EnqueueEffect
  <2>5. outbox' = [outbox EXCEPT ![p] = @ \cup box]
    BY <2>1, Zenon DEF EnqueueEffect
  <2> HIDE DEF new, box
  <2>6. new \in sent'[p]
    BY <2>4, Zenon DEF TypeOK
  <2>7. outbox'[p] = outbox[p] \cup box
    BY <2>5, Zenon DEF TypeOK
  <2>8. tracker'[p] \subseteq tracker[p] \cup {c}
    BY <2>1, Zenon DEF EnqueueEffect, TypeOK
  <2>9. \A i \in Ids(outbox'[p]) : i \in Ids(outbox[p]) \/ i \in parts
    BY <2>3, <2>7, SMTT(20) DEF Ids
  <2> QED
    BY <1>1, <1>2, <2>2, <2>6, <2>8, <2>9, Zenon
<1>4. CASE ~ Enqueue(p)
  <2>1. tracker'[p] \subseteq tracker[p]
    BY <1>4, TrackerStep, Zenon
  <2>2. Ids(outbox'[p]) \subseteq Ids(outbox[p])
    <3>1. CASE ReadAcks(p)
      <4>1. outbox'[p] \subseteq outbox[p]
        BY <3>1, Zenon DEF ReadAcks, TypeOK
      <4> QED
        BY <4>1, Zenon DEF Ids
    <3>2. CASE outbox'[p] = {}
      BY <3>2, ZenonT(40) DEF Ids
    <3> QED
      BY <1>4, <3>1, <3>2, OutboxIds, Zenon
  <2> QED
    BY <1>1, <1>2, <2>1, <2>2, Zenon
<1> QED
  BY <1>3, <1>4, Zenon

\* A connection that is closed stays closed.
LEMMA UpStep ==
  ASSUME TypeOK, [Next]_vars, NEW p \in Peer, up'[p]
  PROVE  up[p]
<1>1. ASSUME NEW q \in Peer, Reset(q) PROVE up[p]
  BY <1>1, Zenon DEF Reset, TypeOK
<1>2. ASSUME UNCHANGED up PROVE up[p]
  BY <1>2, Zenon
<1>3. ASSUME Lose \/ UNCHANGED vars PROVE up[p]
  BY <1>2, <1>3, Zenon DEF Lose, vars
<1>4. ASSUME NEW q \in Peer, GiveUp(q) \/ WriteError(q) \/ ReadCorrupt(q) PROVE up[p]
  BY <1>1, <1>4, Frames, Zenon
<1> QED
  BY <1>2, <1>3, <1>4, Frames, Zenon DEF Next

\* The packets that an acknowledgement confirms, with whole datagrams.
AckedIds(p) == UNION {s.packets : s \in Named(p, reading[p].acks)}

\* They were received, and their senders know them.
LEMMA AckedPackets ==
  ASSUME TypeOK, HistoryDelivered, AcksTellTruth, FromSent, [Next]_vars,
         NEW p \in Peer, NEW i \in AckedIds(p)
  PROVE  /\ i \in PacketIDs
         /\ Received(Other(p), i)'
         /\ \E m \in sent[p] : i \in m.parts
<1>1. PICK s \in sentbox[p] : s.id \in reading[p].acks /\ i \in s.packets
  BY Zenon DEF AckedIds, Named
<1>2. i \in PacketIDs
  BY <1>1 DEF TypeOK, OutgoingDatagram
<1>3. Received(Other(p), i)
  BY <1>1, Zenon DEF AcksTellTruth, AckComing
<1>4. Received(Other(p), i)'
  BY <1>2, <1>3, ReceivedStep, OtherFacts, Zenon
<1> QED
  BY <1>1, <1>2, <1>4, Zenon DEF FromSent

\* HandleAcknowledgements in terms of the acknowledged packets.
LEMMA ReadAcksEffect ==
  ASSUME TypeOK, NEW p \in Peer, ReadAcks(p)
  PROVE  /\ outbox'[p] = {o \in outbox[p] : o.id \notin AckedIds(p)}
         /\ splits'[p] =
              {[container |-> g.container, segments |-> g.segments \ AckedIds(p)] :
                 g \in {g \in splits[p] : ~ g.segments \subseteq AckedIds(p)}}
         /\ tracker'[p] = tracker[p] \ Confirmed(p, AckedIds(p))
         /\ receipts'[p] = receipts[p] \cup
              {[id |-> i, result |-> "ACKED"] : i \in Confirmed(p, AckedIds(p))}
         /\ UNCHANGED <<sent, nextPacket>>
<1> DEFINE ids == AckedIds(p)
<1>1. /\ outbox' = [outbox EXCEPT ![p] = {o \in @ : o.id \notin ids}]
      /\ splits' = [splits EXCEPT ![p] =
           {[container |-> g.container, segments |-> g.segments \ ids] :
              g \in {g \in @ : ~ g.segments \subseteq ids}}]
      /\ tracker' = [tracker EXCEPT ![p] = @ \ Confirmed(p, ids)]
      /\ receipts' = [receipts EXCEPT ![p] =
           @ \cup {[id |-> i, result |-> "ACKED"] : i \in Confirmed(p, ids)}]
  BY Zenon DEF ReadAcks, AckedIds
<1>2. UNCHANGED <<sent, nextPacket>>
  BY Zenon DEF ReadAcks
<1> HIDE DEF ids
<1>3. outbox'[p] = {o \in outbox[p] : o.id \notin ids}
  BY <1>1, Zenon DEF TypeOK
<1>4. splits'[p] = {[container |-> g.container, segments |-> g.segments \ ids] :
                       g \in {g \in splits[p] : ~ g.segments \subseteq ids}}
  BY <1>1, Zenon DEF TypeOK
<1>5. tracker'[p] = tracker[p] \ Confirmed(p, ids)
  BY <1>1, Zenon DEF TypeOK
<1>6. receipts'[p] = receipts[p] \cup
        {[id |-> i, result |-> "ACKED"] : i \in Confirmed(p, ids)}
  BY <1>1, Zenon DEF TypeOK
<1> QED
  BY <1>2, <1>3, <1>4, <1>5, <1>6, Zenon DEF ids

\* How the split groups change.
LEMMA SplitsStep ==
  ASSUME TypeOK, [Next]_vars, NEW p \in Peer
  PROVE  Enqueue(p) \/ ReadAcks(p) \/ splits'[p] = splits[p] \/ splits'[p] = {}
<1> DEFINE Goal == Enqueue(p) \/ ReadAcks(p) \/ splits'[p] = splits[p] \/ splits'[p] = {}
<1>1. ASSUME NEW q \in Peer, Enqueue(q) PROVE Goal
  <2>1. PICK c, parts, options : EnqueueEffect(q, c, parts, options)
    BY <1>1, EnqueueIsEffect, Zenon
  <2>2. q # p => splits'[p] = splits[p]
    BY <2>1, Zenon DEF EnqueueEffect, TypeOK
  <2> QED
    BY <1>1, <2>2, Zenon
<1>2. ASSUME NEW q \in Peer, Reset(q) PROVE Goal
  BY <1>2, Zenon DEF Reset, TypeOK
<1>3. ASSUME NEW q \in Peer, ReadAcks(q) PROVE Goal
  <2>1. q # p => splits'[p] = splits[p]
    BY <1>3, Zenon DEF ReadAcks, TypeOK
  <2> QED
    BY <1>3, <2>1, Zenon
<1>4. ASSUME UNCHANGED splits PROVE Goal
  BY <1>4, Zenon
<1> HIDE DEF Goal
<1>5. ASSUME Lose \/ UNCHANGED vars PROVE Goal
  BY <1>4, <1>5, Zenon DEF Lose, vars, outVars
<1>6. ASSUME NEW q \in Peer,
             \/ SendDatagram(q) \/ SendAckgram(q) \/ RtoElapses(q) \/ UpdateInFlight(q)
             \/ UpdateHistory(q) \/ UpdateReceipts(q) \/ ReadDatagram(q)
             \/ ReadNacks(q) \/ ReadPacket(q)
      PROVE  Goal
  BY <1>4, <1>6, Frames, Zenon DEF outVars
<1>7. ASSUME NEW q \in Peer, GiveUp(q) \/ WriteError(q) \/ ReadCorrupt(q) PROVE Goal
  BY <1>2, <1>7, Frames, Zenon
<1>8. Goal
  BY <1>1, <1>3, <1>5, <1>6, <1>7, Zenon DEF Next
<1> QED
  BY <1>8, Zenon DEF Goal

\* The segments a split group no longer waits for were received.
LEMMA SplitsCountStep ==
  ASSUME TypeOK, HistoryDelivered, AcksTellTruth, FromSent, SplitsCount, [Next]_vars
  PROVE  SplitsCount'
<1> SUFFICES ASSUME NEW p \in Peer, NEW g \in splits'[p]
             PROVE  \E m \in sent'[p] :
                      /\ m.id = g.container /\ m.id \notin m.parts
                      /\ \A i \in m.parts \ g.segments : Received(Other(p), i)'
  BY Zenon DEF SplitsCount
<1>1. ASSUME NEW h \in splits[p]
      PROVE  \E m \in sent'[p] :
               /\ m.id = h.container /\ m.id \notin m.parts
               /\ \A i \in m.parts \ h.segments : Received(Other(p), i)'
  <2>1. PICK m \in sent[p] : /\ m.id = h.container /\ m.id \notin m.parts
                             /\ \A i \in m.parts \ h.segments : Received(Other(p), i)
    BY <1>1, Zenon DEF SplitsCount
  <2>2. m.parts \subseteq PacketIDs
    BY DEF TypeOK, SentMessage
  <2>3. \A i \in m.parts \ h.segments : Received(Other(p), i)'
    BY <2>1, <2>2, ReceivedStep, OtherFacts, Zenon
  <2> QED
    BY <2>1, <2>3, SentGrows, Zenon
<1>2. CASE Enqueue(p)
  <2>1. PICK c, parts, options : EnqueueEffect(p, c, parts, options)
    BY <1>2, EnqueueIsEffect, Zenon
  <2> DEFINE new == [id |-> c, parts |-> parts, options |-> options]
             group == [container |-> c, segments |-> parts]
  <2>2. new.id = c /\ new.parts = parts /\ group.container = c /\ group.segments = parts
    BY Zenon
  <2>3. sent' = [sent EXCEPT ![p] = @ \cup {new}]
    BY <2>1, Zenon DEF EnqueueEffect
  <2>4. \/ splits' = splits
        \/ c \notin parts /\ splits' = [splits EXCEPT ![p] = @ \cup {group}]
    BY <2>1, Zenon DEF EnqueueEffect
  <2> HIDE DEF new, group
  <2>5. new \in sent'[p]
    BY <2>3, Zenon DEF TypeOK
  <2>6. g \in splits[p] \/ (c \notin parts /\ g = group)
    BY <2>4 DEF TypeOK
  <2> QED
    BY <1>1, <2>2, <2>5, <2>6, Zenon
<1>3. CASE ReadAcks(p)
  <2>1. PICK h \in splits[p] :
          g = [container |-> h.container, segments |-> h.segments \ AckedIds(p)]
    BY <1>3, ReadAcksEffect
  <2>2. g.container = h.container /\ g.segments = h.segments \ AckedIds(p)
    BY <2>1, Zenon
  <2>3. \A i \in AckedIds(p) : Received(Other(p), i)'
    BY AckedPackets, Zenon
  <2> QED
    BY <1>1, <2>2, <2>3, Zenon
<1>4. CASE splits'[p] = splits[p]
  BY <1>1, <1>4, Zenon
<1> QED
  BY <1>2, <1>3, <1>4, SplitsStep, Zenon

\* A reliable packet leaves the outbox only after it was received.
LEMMA ReliableIsKeptStep ==
  ASSUME TypeOK, OutboxReliable, HistoryDelivered, AcksTellTruth, FromSent,
         ReliableIsKept, [Next]_vars
  PROVE  ReliableIsKept'
<1> SUFFICES ASSUME NEW p \in Peer, NEW m \in sent'[p], up'[p], HasFlag(m, "RELIABLE"),
                    NEW i \in m.parts
             PROVE  i \in Ids(outbox'[p]) \/ Received(Other(p), i)'
  BY Zenon DEF ReliableIsKept, HasFlag, Ids
<1>1. CASE m \notin sent[p]
  BY <1>1, NewMessage, Zenon
<1>2. CASE m \in sent[p]
  <2>1. i \in Ids(outbox[p]) \/ Received(Other(p), i)
    BY <1>2, UpStep, Zenon DEF ReliableIsKept
  <2>2. CASE Received(Other(p), i)
    <3>1. i \in PacketIDs
      BY <1>2 DEF TypeOK, SentMessage
    <3> QED
      BY <2>2, <3>1, ReceivedStep, OtherFacts, ZenonT(40)
  <2>3. CASE i \in Ids(outbox[p])
    <3>1. CASE Enqueue(p)
      <4>1. PICK c, parts, options : EnqueueEffect(p, c, parts, options)
        BY <3>1, EnqueueIsEffect, Zenon
      <4>2. outbox[p] \subseteq outbox'[p]
        BY <4>1, Zenon DEF EnqueueEffect, TypeOK
      <4> QED
        BY <2>3, <4>2, Zenon DEF Ids
    <3>2. CASE ReadAcks(p)
      <4>1. outbox'[p] = {o \in outbox[p] : o.id \notin AckedIds(p)}
        BY <3>2, ReadAcksEffect, Zenon
      <4>2. CASE i \in AckedIds(p)
        BY <4>2, AckedPackets, Zenon
      <4>3. CASE i \notin AckedIds(p)
        BY <2>3, <4>1, <4>3, Zenon DEF Ids
      <4> QED
        BY <4>2, <4>3, Zenon
    <3> QED
      BY <2>3, <3>1, <3>2, OutboxIds, Zenon
  <2> QED
    BY <2>1, <2>2, <2>3, Zenon
<1> QED
  BY <1>1, <1>2, Zenon

\* Where receipts come from: ReceiptTracker::Update reports what it forgets,
\* MakeDatagram the packet it gives up, HandleAcknowledgements what is acked.
LEMMA NewReceipts ==
  ASSUME TypeOK, [Next]_vars, NEW p \in Peer
  PROVE  \/ receipts'[p] = receipts[p]
         \/ /\ UpdateReceipts(p)
            /\ \A r \in receipts'[p] \ receipts[p] :
                 r.result = "LOST" /\ r.id \in tracker[p] /\ r.id \notin tracker'[p]
         \/ /\ GiveUp(p) /\ tracker'[p] = {} /\ outbox'[p] = {}
            /\ \A r \in receipts'[p] \ receipts[p] :
                 r.result = "LOST" /\ r.id \in Ids(outbox[p])
         \/ /\ ReadAcks(p)
            /\ \A r \in receipts'[p] \ receipts[p] :
                 r.result = "ACKED" /\ r.id \in Confirmed(p, AckedIds(p))
<1> DEFINE ByUpdate == /\ UpdateReceipts(p)
                       /\ \A r \in receipts'[p] \ receipts[p] :
                            /\ r.result = "LOST"
                            /\ r.id \in tracker[p] /\ r.id \notin tracker'[p]
           ByGiveUp == /\ GiveUp(p) /\ tracker'[p] = {} /\ outbox'[p] = {}
                       /\ \A r \in receipts'[p] \ receipts[p] :
                            r.result = "LOST" /\ r.id \in Ids(outbox[p])
           ByAck == /\ ReadAcks(p)
                    /\ \A r \in receipts'[p] \ receipts[p] :
                         r.result = "ACKED" /\ r.id \in Confirmed(p, AckedIds(p))
           Goal == receipts'[p] = receipts[p] \/ ByUpdate \/ ByGiveUp \/ ByAck
<1>1. ASSUME NEW q \in Peer, UpdateReceipts(q) PROVE Goal
  <2>1. PICK S : /\ tracker' = [tracker EXCEPT ![q] = @ \ (tracker[q] \cap S)]
                 /\ receipts' = [receipts EXCEPT ![q] =
                      @ \cup {[id |-> i, result |-> "LOST"] : i \in tracker[q] \cap S}]
    BY <1>1, Zenon DEF UpdateReceipts
  <2>2. CASE q # p
    BY <2>1, <2>2, Zenon DEF TypeOK
  <2>3. CASE q = p
    <3>1. tracker'[p] = tracker[p] \ (tracker[p] \cap S)
      BY <2>1, <2>3, Zenon DEF TypeOK
    <3>2. receipts'[p] =
            receipts[p] \cup {[id |-> i, result |-> "LOST"] : i \in tracker[p] \cap S}
      BY <2>1, <2>3, Zenon DEF TypeOK
    <3>3. \A r \in receipts'[p] \ receipts[p] :
            r.result = "LOST" /\ r.id \in tracker[p] \cap S
      BY <3>2
    <3> QED
      BY <1>1, <2>3, <3>1, <3>3, Zenon
  <2> QED
    BY <2>2, <2>3, Zenon
<1>2. ASSUME NEW q \in Peer, GiveUp(q) PROVE Goal
  <2>1. PICK o \in outbox[q] :
          receipts' = [receipts EXCEPT ![q] =
            IF HasFlag(o, "WITH_RECEIPT")
            THEN @ \cup {[id |-> o.id, result |-> "LOST"]} ELSE @]
    BY <1>2, Zenon DEF GiveUp
  <2>2. CASE q # p
    BY <2>1, <2>2, Zenon DEF TypeOK
  <2>3. CASE q = p
    <3>1. tracker'[p] = {} /\ outbox'[p] = {}
      BY <1>2, <2>3, Zenon DEF GiveUp, Reset, TypeOK
    <3> DEFINE new == [id |-> o.id, result |-> "LOST"]
    <3>2. receipts'[p] \subseteq receipts[p] \cup {new}
      BY <2>1, <2>3, Zenon DEF TypeOK
    <3>4. new.result = "LOST" /\ new.id = o.id
      BY Zenon
    <3> HIDE DEF new
    <3>3. \A r \in receipts'[p] \ receipts[p] : r.result = "LOST" /\ r.id = o.id
      BY <3>2, <3>4, Zenon
    <3> QED
      BY <1>2, <2>3, <3>1, <3>3, Zenon DEF Ids
  <2> QED
    BY <2>2, <2>3, Zenon
<1>3. ASSUME NEW q \in Peer, ReadAcks(q) PROVE Goal
  <2>1. CASE q # p
    <3>1. PICK S : receipts' = [receipts EXCEPT ![q] = S]
      BY <1>3, Zenon DEF ReadAcks
    <3> QED
      BY <2>1, <3>1, Zenon DEF TypeOK
  <2>2. CASE q = p
    <3>1. receipts'[p] = receipts[p] \cup
            {[id |-> i, result |-> "ACKED"] : i \in Confirmed(p, AckedIds(p))}
      BY <1>3, <2>2, ReadAcksEffect, Zenon
    <3>2. \A r \in receipts'[p] \ receipts[p] :
            r.result = "ACKED" /\ r.id \in Confirmed(p, AckedIds(p))
      BY <3>1
    <3> QED
      BY <1>3, <2>2, <3>2, Zenon
  <2> QED
    BY <2>1, <2>2, Zenon
<1>4. ASSUME UNCHANGED receipts PROVE Goal
  BY <1>4, Zenon
<1> HIDE DEF Goal
<1>5. ASSUME Lose \/ UNCHANGED vars PROVE Goal
  BY <1>4, <1>5, Zenon DEF Lose, vars, logVars
<1>6. ASSUME NEW q \in Peer,
             \/ Enqueue(q) \/ SendDatagram(q) \/ SendAckgram(q) \/ RtoElapses(q)
             \/ UpdateInFlight(q) \/ UpdateHistory(q) \/ WriteError(q)
             \/ ReadCorrupt(q) \/ ReadDatagram(q) \/ ReadNacks(q) \/ ReadPacket(q)
      PROVE  Goal
  BY <1>4, <1>6, Frames, Zenon DEF logVars
<1>7. Goal
  BY <1>1, <1>2, <1>3, <1>5, <1>6, Zenon DEF Next
<1> QED
  BY <1>7, Zenon DEF Goal

\* What Confirmed names: a packet that was acknowledged, or a split packet whose
\* remaining segments all were.
LEMMA ConfirmedFacts ==
  ASSUME NEW p \in Peer, NEW S, NEW i \in Confirmed(p, S)
  PROVE  /\ i \in tracker[p]
         /\ i \in S \/ \E g \in splits[p] : g.container = i /\ g.segments \subseteq S
BY Zenon DEF Confirmed

\* A message is reported acked only after all of it was received.
LEMMA AckedIsReceivedStep ==
  ASSUME TypeOK, HistoryDelivered, AcksTellTruth, IdsUsedOnce, FromSent, SplitsCount,
         AckedIsReceived, ReceiptsOpen, [Next]_vars
  PROVE  AckedIsReceived'
<1> SUFFICES ASSUME NEW p \in Peer, NEW m \in sent'[p],
                    [id |-> m.id, result |-> "ACKED"] \in receipts'[p],
                    NEW i \in m.parts
             PROVE  Received(Other(p), i)'
  BY Zenon DEF AckedIsReceived
<1> DEFINE r == [id |-> m.id, result |-> "ACKED"]
<1>0. r.id = m.id /\ r.result = "ACKED" /\ r \in receipts'[p]
  BY Zenon
<1> HIDE DEF r
<1>1. CASE r \in receipts[p]
  <2>0. nextPacket[p] \in 0 .. MaxPackets
    BY Zenon DEF TypeOK
  <2>1. m.id < nextPacket[p] /\ nextPacket[p] \in Nat
    BY <1>0, <1>1, <2>0, LimitAssumption DEF ReceiptsOpen
  <2>2. m \in sent[p]
    BY <2>1, NewMessage
  <2>3. Received(Other(p), i)
    BY <1>1, <2>2, Zenon DEF AckedIsReceived, r
  <2>4. i \in PacketIDs
    BY <2>2 DEF TypeOK, SentMessage
  <2> QED
    BY <2>3, <2>4, ReceivedStep, OtherFacts, Zenon
<1>2. CASE r \notin receipts[p]
  <2>1. ReadAcks(p) /\ m.id \in Confirmed(p, AckedIds(p))
    BY <1>0, <1>2, NewReceipts, Zenon
  <2>2. m \in sent[p]
    BY <2>1, ReadAcksEffect, Zenon
  <2>3. CASE m.id \in AckedIds(p)
    <3>1. PICK n \in sent[p] : m.id \in n.parts
      BY <2>3, AckedPackets, Zenon
    <3>2. n = m
      BY <2>2, <3>1, Zenon DEF IdsUsedOnce
    <3>3. i = m.id
      BY <2>2, <3>1, <3>2 DEF IdsUsedOnce
    <3> QED
      BY <2>3, <3>3, AckedPackets, Zenon
  <2>4. CASE \E g \in splits[p] : g.container = m.id /\ g.segments \subseteq AckedIds(p)
    <3>1. PICK g \in splits[p] : g.container = m.id /\ g.segments \subseteq AckedIds(p)
      BY <2>4, Zenon
    <3>2. PICK n \in sent[p] : /\ n.id = g.container
                               /\ \A j \in n.parts \ g.segments : Received(Other(p), j)
      BY Zenon DEF SplitsCount
    <3>3. n = m
      BY <2>2, <3>1, <3>2, Zenon DEF IdsUsedOnce
    <3>4. i \in PacketIDs
      BY <2>2 DEF TypeOK, SentMessage
    <3>5. CASE i \in g.segments
      BY <3>1, <3>5, AckedPackets, Zenon
    <3>6. CASE i \notin g.segments
      BY <3>2, <3>3, <3>4, <3>6, ReceivedStep, OtherFacts, Zenon
    <3> QED
      BY <3>5, <3>6, Zenon
  <2> QED
    BY <2>1, <2>3, <2>4, ConfirmedFacts
<1> QED
  BY <1>1, <1>2, Zenon

\* A receipt that was given is not due any more, and a packet reported as acked
\* is not in the outbox.
LEMMA ReceiptsOpenStep ==
  ASSUME TypeOK, OutboxReliable, HistoryDelivered, AcksTellTruth, IdsUsedOnce,
         FromSent, SplitsCount, ReceiptsOpen, [Next]_vars
  PROVE  ReceiptsOpen'
<1> SUFFICES ASSUME NEW p \in Peer, NEW r \in receipts'[p]
             PROVE  /\ r.id \notin tracker'[p]
                    /\ r.id < nextPacket'[p]
                    /\ r.result = "ACKED" => r.id \notin Ids(outbox'[p])
  BY Zenon DEF ReceiptsOpen, Ids
<1>1. /\ nextPacket[p] \in Nat /\ nextPacket'[p] \in Nat /\ r.id \in Nat
      /\ nextPacket[p] <= nextPacket'[p]
  <2>0. /\ nextPacket \in [Peer -> 0 .. MaxPackets]
        /\ nextPacket' \in [Peer -> 0 .. MaxPackets]
        /\ receipts' \in [Peer -> SUBSET Receipt]
    BY TypeStep, Zenon DEF TypeOK
  <2>1. nextPacket[p] \in Nat /\ nextPacket'[p] \in Nat
    BY <2>0, LimitAssumption
  <2>2. r.id \in Nat
    BY <2>0, LimitAssumption DEF Receipt, PacketIDs
  <2> QED
    BY <2>1, <2>2, SentGrows, Zenon
<1>2. CASE r \in receipts[p]
  <2>1. /\ r.id \notin tracker[p] /\ r.id < nextPacket[p]
        /\ r.result = "ACKED" => r.id \notin Ids(outbox[p])
    BY <1>2, Zenon DEF ReceiptsOpen
  <2>2. CASE Enqueue(p)
    <3>1. PICK c, parts, options : EnqueueEffect(p, c, parts, options)
      BY <2>2, EnqueueIsEffect, Zenon
    <3> DEFINE box == {[id |-> i, options |-> options, sendCount |-> 0,
                        sendNext |-> "past"] : i \in parts}
    <3>2. \A o \in box : o.id \in parts
      OBVIOUS
    <3>3. outbox' = [outbox EXCEPT ![p] = @ \cup box]
      BY <3>1, Zenon DEF EnqueueEffect
    <3> HIDE DEF box
    <3>4. outbox'[p] = outbox[p] \cup box
      BY <3>3, Zenon DEF TypeOK
    <3>5. tracker'[p] \subseteq tracker[p] \cup {c}
      BY <3>1, Zenon DEF EnqueueEffect, TypeOK
    <3>6. c = nextPacket[p] /\ \A i \in parts : i \in Nat /\ c <= i
      BY <3>1, Zenon DEF EnqueueEffect
    <3>7. r.id \notin parts /\ r.id # c
      BY <1>1, <2>1, <3>6
    <3>8. r.id \in Ids(outbox'[p]) => r.id \in Ids(outbox[p])
      BY <3>2, <3>4, <3>7, Zenon DEF Ids
    <3> QED
      BY <1>1, <2>1, <3>5, <3>7, <3>8
  <2>3. CASE ~ Enqueue(p)
    <3>1. tracker'[p] \subseteq tracker[p]
      BY <2>3, TrackerStep, Zenon
    <3>2. Ids(outbox'[p]) \subseteq Ids(outbox[p])
      <4>1. CASE ReadAcks(p)
        BY <4>1, ReadAcksEffect, Zenon DEF Ids
      <4>2. CASE outbox'[p] = {}
        BY <4>2, Zenon DEF Ids
      <4> QED
        BY <2>3, <4>1, <4>2, OutboxIds, Zenon
    <3> QED
      BY <1>1, <2>1, <3>1, <3>2
  <2> QED
    BY <2>2, <2>3, Zenon
<1>3. CASE r \notin receipts[p]
  <2>1. ASSUME NEW i \in tracker[p] PROVE i < nextPacket[p]
    BY <2>1 DEF FromSent, IdsUsedOnce
  <2>2. ASSUME NEW i \in Ids(outbox[p]) PROVE i < nextPacket[p]
    BY <2>2 DEF FromSent, IdsUsedOnce, Ids
  <2>3. CASE UpdateReceipts(p) /\ r.result = "LOST" /\ r.id \in tracker[p]
                /\ r.id \notin tracker'[p]
    BY <1>1, <2>1, <2>3
  <2>4. CASE r.result = "LOST" /\ r.id \in Ids(outbox[p]) /\ tracker'[p] = {}
    BY <1>1, <2>2, <2>4
  <2>5. CASE ReadAcks(p) /\ r.id \in Confirmed(p, AckedIds(p))
    <3>1. r.id \in tracker[p]
      BY <2>5, ConfirmedFacts, Zenon
    <3>2. r.id \notin tracker'[p]
      BY <2>5, ReadAcksEffect, Zenon
    <3>3. outbox'[p] = {o \in outbox[p] : o.id \notin AckedIds(p)}
      BY <2>5, ReadAcksEffect, SMTT(20)
    <3>4. CASE r.id \in AckedIds(p)
      BY <1>1, <2>1, <3>1, <3>2, <3>3, <3>4, SMTT(30) DEF Ids
    <3>5. CASE \E g \in splits[p] : g.container = r.id
      <4>1. PICK m \in sent[p] : m.id = r.id /\ m.id \notin m.parts
        BY <3>5, Zenon DEF SplitsCount
      <4>2. \A n \in sent[p] : r.id \notin n.parts
        BY <4>1, Zenon DEF IdsUsedOnce
      <4>3. r.id \notin Ids(outbox[p])
        BY <4>2 DEF FromSent, Ids
      <4> QED
        BY <1>1, <2>1, <3>1, <3>2, <3>3, <4>3 DEF Ids
    <3> QED
      BY <2>5, <3>4, <3>5, ConfirmedFacts
  <2> QED
    BY <1>3, <2>3, <2>4, <2>5, NewReceipts, Zenon
<1> QED
  BY <1>2, <1>3, Zenon

\* No message gets both receipts.
LEMMA ReceiptsAgreeStep ==
  ASSUME TypeOK, ReceiptsOpen, ReceiptsAgree, [Next]_vars
  PROVE  ReceiptsAgree'
<1> SUFFICES ASSUME NEW p \in Peer, NEW r \in receipts'[p], NEW x \in receipts'[p],
                    r.id = x.id
             PROVE  r.result = x.result
  BY Zenon DEF ReceiptsAgree
<1>1. ASSUME NEW a \in receipts[p], NEW b \in receipts'[p], b \notin receipts[p],
             a.id = b.id
      PROVE  a.result = b.result
  <2>1. a.id \notin tracker[p] /\ (a.result = "ACKED" => a.id \notin Ids(outbox[p]))
    BY Zenon DEF ReceiptsOpen
  <2>2. b.result = "LOST" /\ b.id \in Ids(outbox[p])
    <3>1. b.id \notin tracker[p] /\ b \in receipts'[p] \ receipts[p]
      BY <1>1, <2>1, Zenon
    <3>2. \A i \in Confirmed(p, AckedIds(p)) : i \in tracker[p]
      BY ConfirmedFacts, Zenon
    <3> QED
      BY <3>1, <3>2, NewReceipts, Zenon
  <2>3. a.result \in {"ACKED", "LOST"}
    BY DEF TypeOK, Receipt
  <2> QED
    BY <1>1, <2>1, <2>2, <2>3, Zenon
<1>2. CASE r \in receipts[p] /\ x \in receipts[p]
  BY <1>2, Zenon DEF ReceiptsAgree
<1>3. CASE r \notin receipts[p] /\ x \notin receipts[p]
  BY <1>3, NewReceipts, Zenon
<1> QED
  BY <1>1, <1>2, <1>3, Zenon

-----------------------------------------------------------------------------
(***************************************************************************)
(* The theorems.                                                           *)
(***************************************************************************)

\* A fresh connection satisfies the invariant.
LEMMA LinkInvInit ==
  ASSUME Init
  PROVE  LinkInv
<1>1. 0 \in 0 .. MaxPackets /\ 0 \in 0 .. MaxDatagrams
  BY LimitAssumption
<1>2. Idle \in Rests
  BY Zenon DEF Idle, Rest, Rests
<1>3. TypeOK
  BY <1>1, <1>2, Zenon DEF Init, TypeOK
<1>4. OutboxReliable /\ RecordMatchesWire /\ HistoryDelivered /\ AcksTellTruth
  BY Zenon DEF Init, OutboxReliable, RecordMatchesWire, HistoryDelivered, AcksTellTruth
<1>5. DatagramsNumbered
  BY OtherFacts, Zenon DEF Init, DatagramsNumbered, AckComing, Idle, Rest
<1>6. IdsUsedOnce /\ FromSent /\ SplitsCount
  BY Zenon DEF Init, IdsUsedOnce, FromSent, SplitsCount
<1>7. ReliableIsKept /\ AckedIsReceived /\ ReceiptsOpen /\ ReceiptsAgree
  BY Zenon DEF Init, ReliableIsKept, AckedIsReceived, ReceiptsOpen, ReceiptsAgree
<1> QED
  BY <1>3, <1>4, <1>5, <1>6, <1>7, Zenon DEF LinkInv

\* LinkInv is inductive: every step of the application, the worker, the socket
\* thread and the network preserves it while all traffic is reliable.
THEOREM LinkInvariant ==
  ASSUME OnlyReliable
  PROVE  Spec => []LinkInv
<1>1. Init => LinkInv
  BY LinkInvInit, Zenon
<1>2. LinkInv /\ [Next]_vars => LinkInv'
  <2> SUFFICES ASSUME LinkInv, [Next]_vars PROVE LinkInv'
    BY Zenon
  <2>1. TypeOK' /\ OutboxReliable' /\ HistoryDelivered'
    BY TypeStep, OutboxReliableStep, HistoryDeliveredStep, Zenon DEF LinkInv
  <2>2. DatagramsNumbered' /\ RecordMatchesWire' /\ AcksTellTruth'
    BY DatagramsNumberedStep, RecordMatchesWireStep, AcksTellTruthStep, Zenon DEF LinkInv
  <2>3. IdsUsedOnce' /\ FromSent' /\ SplitsCount'
    BY IdsUsedOnceStep, FromSentStep, SplitsCountStep, Zenon DEF LinkInv
  <2>4. ReliableIsKept' /\ AckedIsReceived'
    BY ReliableIsKeptStep, AckedIsReceivedStep, Zenon DEF LinkInv
  <2>5. ReceiptsOpen' /\ ReceiptsAgree'
    BY ReceiptsOpenStep, ReceiptsAgreeStep, Zenon DEF LinkInv
  <2> QED
    BY <2>1, <2>2, <2>3, <2>4, <2>5, Zenon DEF LinkInv
<1> QED
  BY <1>1, <1>2, PTL DEF Spec

\* Type correctness of a connection with reliable traffic.
THEOREM TypeCorrect ==
  ASSUME OnlyReliable
  PROVE  Spec => []TypeOK
<1>1. LinkInv => TypeOK
  BY Zenon DEF LinkInv
<1> QED
  BY <1>1, LinkInvariant, PTL

\* MakeDatagram records in the sentbox what it writes, so a datagram's record
\* and its copies on the wire carry the same packets.
THEOREM RecordFaithful ==
  ASSUME OnlyReliable
  PROVE  Spec => []RecordMatchesWire
<1>1. LinkInv => RecordMatchesWire
  BY Zenon DEF LinkInv
<1> QED
  BY <1>1, LinkInvariant, PTL

\* HandleAcknowledgements takes a packet out of the outbox only when it has
\* reached the other side: no reliable packet of an open connection vanishes.
THEOREM ReliableKept ==
  ASSUME OnlyReliable
  PROVE  Spec => []ReliableIsKept
<1>1. LinkInv => ReliableIsKept
  BY Zenon DEF LinkInv
<1> QED
  BY <1>1, LinkInvariant, PTL

\* OnMessageReceipt tells the truth about acked messages, split ones included.
THEOREM AckedReceived ==
  ASSUME OnlyReliable
  PROVE  Spec => []AckedIsReceived
<1>1. LinkInv => AckedIsReceived
  BY Zenon DEF LinkInv
<1> QED
  BY <1>1, LinkInvariant, PTL

\* The three places that post receipts never contradict each other.
THEOREM ReceiptsConsistent ==
  ASSUME OnlyReliable
  PROVE  Spec => []ReceiptsAgree
<1>1. LinkInv => ReceiptsAgree
  BY Zenon DEF LinkInv
<1> QED
  BY <1>1, LinkInvariant, PTL

\* What makes NotifyReceivedPacket a filter: on an open connection the history
\* holds every packet that passed it.
DedupInv ==
  /\ up \in [Peer -> BOOLEAN]
  /\ packetHistory = [p \in Peer |-> packetHistory[p]]
  /\ delivered \in [Peer -> [PacketIDs -> Nat]]
  /\ \A p \in Peer : \A i \in PacketIDs :
       /\ delivered[p][i] <= 1
       /\ up[p] /\ delivered[p][i] > 0 => i \in packetHistory[p]

\* Whatever the traffic, a packet is delivered at most once as long as its
\* datagrams do not travel longer than the receive history remembers.
THEOREM DeliveredOnce ==
  ASSUME ~ HistoryExpires
  PROVE  Spec => []AtMostOnce
<1>1. Init => DedupInv
  BY DEF Init, DedupInv
<1>2. DedupInv /\ [Next]_vars => DedupInv'
  <2> SUFFICES ASSUME DedupInv, [Next]_vars PROVE DedupInv'
    BY Zenon
  <2>1. ASSUME UNCHANGED <<up, packetHistory, delivered>> PROVE DedupInv'
    BY <2>1, Zenon DEF DedupInv
  <2>2. ASSUME NEW p \in Peer, Reset(p) PROVE DedupInv'
    <3>1. up' = [up EXCEPT ![p] = FALSE] /\ delivered' = delivered
          /\ packetHistory' = [packetHistory EXCEPT ![p] = {}]
      BY <2>2, Zenon DEF Reset
    <3>2. up' \in [Peer -> BOOLEAN] /\ ~ up'[p]
      BY <3>1, Zenon DEF DedupInv
    <3>3. packetHistory' = [q \in Peer |-> packetHistory'[q]]
      BY <3>1, Zenon DEF DedupInv
    <3>4. \A q \in Peer : q # p => up'[q] = up[q] /\ packetHistory'[q] = packetHistory[q]
      BY <3>1, Zenon DEF DedupInv
    <3> QED
      BY <3>1, <3>2, <3>3, <3>4, Zenon DEF DedupInv
  <2>3. ASSUME NEW p \in Peer, ReadPacket(p) PROVE DedupInv'
    <3>1. PICK i : /\ packetHistory' = [packetHistory EXCEPT ![p] = @ \cup {i}]
                   /\ delivered' = [delivered EXCEPT ![p][i] =
                        IF i \notin packetHistory[p] THEN @ + 1 ELSE @]
      BY <2>3, Zenon DEF ReadPacket, IsNew
    <3>2. up[p] /\ up' = up
      BY <2>3, Zenon DEF ReadPacket
    <3>3. packetHistory' = [q \in Peer |-> packetHistory'[q]]
      BY <3>1, Zenon DEF DedupInv
    <3>4. \A q \in Peer : packetHistory'[q] =
            IF q = p THEN packetHistory[p] \cup {i} ELSE packetHistory[q]
      BY <3>1, Zenon DEF DedupInv
    <3>5. /\ delivered' \in [Peer -> [PacketIDs -> Nat]]
          /\ \A q \in Peer : \A j \in PacketIDs :
               delivered'[q][j] = IF q = p /\ j = i /\ i \notin packetHistory[p]
                                  THEN delivered[p][i] + 1 ELSE delivered[q][j]
      <4>1. delivered[p] \in [PacketIDs -> Nat]
        BY Zenon DEF DedupInv
      <4> DEFINE f == [delivered[p] EXCEPT ![i] =
                         IF i \notin packetHistory[p] THEN @ + 1 ELSE @]
      <4>2. f \in [PacketIDs -> Nat]
        <5>1. CASE i \in PacketIDs
          <6>1. (IF i \notin packetHistory[p] THEN delivered[p][i] + 1
                                              ELSE delivered[p][i]) \in Nat
            BY <4>1, <5>1
          <6> QED
            BY <4>1, <6>1, Zenon
        <5>2. CASE i \notin PacketIDs
          BY <4>1, <5>2, Zenon
        <5> QED
          BY <5>1, <5>2, Zenon
      <4>3. \A j \in PacketIDs : f[j] = IF j = i /\ i \notin packetHistory[p]
                                       THEN delivered[p][i] + 1 ELSE delivered[p][j]
        BY <4>1, Zenon
      <4>4. delivered' = [delivered EXCEPT ![p] = f]
        BY <3>1, Zenon
      <4> HIDE DEF f
      <4> QED
        BY <4>2, <4>3, <4>4, Zenon DEF DedupInv
    <3> QED
      BY <3>2, <3>3, <3>4, <3>5 DEF DedupInv
  <2>4. ASSUME NEW p \in Peer, GiveUp(p) \/ WriteError(p) \/ ReadCorrupt(p)
        PROVE  DedupInv'
    BY <2>2, <2>4, Frames, Zenon
  <2>5. ASSUME NEW p \in Peer,
               \/ Enqueue(p) \/ SendDatagram(p) \/ SendAckgram(p) \/ RtoElapses(p)
               \/ UpdateInFlight(p) \/ UpdateReceipts(p) \/ ReadDatagram(p)
               \/ ReadAcks(p) \/ ReadNacks(p)
        PROVE  DedupInv'
    BY <2>1, <2>5, Frames, Zenon DEF inVars, logVars
  <2>6. ASSUME Lose \/ UNCHANGED vars PROVE DedupInv'
    BY <2>1, <2>6, Zenon DEF Lose, vars, inVars, logVars
  <2>7. \A p \in Peer : ~ UpdateHistory(p)
    BY Zenon DEF UpdateHistory
  <2> QED
    BY <2>3, <2>4, <2>5, <2>6, <2>7, Zenon DEF Next
<1>3. DedupInv => AtMostOnce
  BY Zenon DEF DedupInv, AtMostOnce
<1> QED
  BY <1>1, <1>2, <1>3, PTL DEF Spec

(***************************************************************************)
(* Totals.  MapThenSumSet picks the elements of a set in an order of its   *)
(* own.  By induction over the subsets of a finite set, in the form of a   *)
(* smallest counterexample, its value does not depend on that order.       *)
(***************************************************************************)

\* A nonempty set of naturals has a least element.
LEMMA LeastExists ==
  ASSUME NEW S, S \subseteq Nat, S # {}
  PROVE  \E m \in S : \A k \in S : m <= k
<1>1. PICK m \in S : \A k \in S : ~ (<<k, m>> \in OpToRel(<, Nat))
  BY WFMin, NatLessThanWellFounded, Zenon
<1>2. \A k \in S : k \in Nat /\ m \in Nat /\ ~ (k < m)
  BY <1>1, Zenon DEF OpToRel
<1> QED
  BY <1>2

\* Induction over the subsets of a finite set, for a set T of them.
LEMMA Subsets ==
  ASSUME NEW S, IsFiniteSet(S), NEW T,
         \A s \in SUBSET S : (\A t \in SUBSET s : t # s => t \in T) => s \in T
  PROVE  \A s \in SUBSET S : s \in T
<1> DEFINE Bad == {s \in SUBSET S : s \notin T}
           Sizes == {Cardinality(s) : s \in Bad}
<1>1. \A s \in SUBSET S : IsFiniteSet(s) /\ Cardinality(s) \in Nat
  BY FS_Subset, FS_CardinalityType, Zenon
<1> SUFFICES ASSUME Bad # {} PROVE FALSE
  BY Zenon
<1>2. Sizes \subseteq Nat /\ Sizes # {}
  BY <1>1
<1>3. PICK n \in Sizes : \A k \in Sizes : n <= k
  <2> HIDE DEF Sizes
  <2> QED
    BY <1>2, LeastExists, Zenon
<1>4. PICK s \in Bad : Cardinality(s) = n
  BY <1>3, Zenon
<1>5. ASSUME NEW t \in SUBSET s, t # s PROVE t \in T
  <2>1. Cardinality(t) < n
    <3>1. IsFiniteSet(s) /\ Cardinality(s) = n /\ n \in Nat /\ t \in SUBSET S
      BY <1>1, <1>4, Zenon
    <3>2. Cardinality(t) \in Nat
      BY <1>1, <3>1, Zenon
    <3>3. Cardinality(t) <= Cardinality(s) /\ (Cardinality(s) = Cardinality(t) => s = t)
      BY <1>5, <3>1, FS_Subset, Zenon
    <3> QED
      BY <1>5, <3>1, <3>2, <3>3
  <2>2. Cardinality(t) \notin Sizes
    <3> HIDE DEF Sizes
    <3>1. t \in SUBSET S
      BY <1>4, Zenon
    <3> QED
      BY <1>1, <1>2, <1>3, <2>1, <3>1
  <2> QED
    BY <1>4, <2>2, Zenon
<1> QED
  BY <1>4, <1>5, Zenon

\* The element that MapThenSumSet takes next, and the function it is defined by.
Pick(s) == CHOOSE x \in s : TRUE
IsSum(length, S, g) ==
  g = [s \in SUBSET S |->
         IF s = {} THEN 0 ELSE length[Pick(s)] + g[s \ {Pick(s)}]]

\* Total is that sum.
LEMMA TotalIs ==
  ASSUME NEW length, NEW S
  PROVE  Total(length, S) = (CHOOSE g : IsSum(length, S, g))[S]
BY Zenon DEF Total, MapThenSumSet, MapThenFoldSet, IsSum, Pick

\* Total takes the elements out one by one.
LEMMA TotalSteps ==
  ASSUME NEW length, NEW S, IsFiniteSet(S)
  PROVE  /\ Total(length, {}) = 0
         /\ S # {} => /\ Pick(S) \in S
                     /\ Total(length, S) = length[Pick(S)] + Total(length, S \ {Pick(S)})
<1> DEFINE Step(s) == IF s = {} THEN 0 ELSE length[Pick(s)] + Total(length, s \ {Pick(s)})
           T == {s \in SUBSET S : Total(length, s) = Step(s)}
<1>0. \A s : s # {} => Pick(s) \in s
  BY Zenon DEF Pick
<1>1. ASSUME NEW s \in SUBSET S, \A t \in SUBSET s : t # s => t \in T
      PROVE  s \in T
  <2> DEFINE g == [t \in SUBSET s |-> Step(t)]
  <2>1. \A t \in SUBSET s : t # {} => t \ {Pick(t)} \in SUBSET s /\ t \ {Pick(t)} # s
    BY <1>0, Zenon
  <2>2. \A t \in SUBSET s : t # {} => Total(length, t \ {Pick(t)}) = g[t \ {Pick(t)}]
    <3> HIDE DEF Step
    <3> QED
      BY <1>1, <2>1, Zenon
  <2>3. \A t \in SUBSET s : Step(t) = IF t = {} THEN 0 ELSE length[Pick(t)] + g[t \ {Pick(t)}]
    <3> HIDE DEF g
    <3> QED
      BY <2>2, Zenon
  <2>4. IsSum(length, s, g)
    <3>1. g = [t \in SUBSET s |-> IF t = {} THEN 0 ELSE length[Pick(t)] + g[t \ {Pick(t)}]]
      <4> HIDE DEF Step
      <4> QED
        BY <2>3, Zenon
    <3> HIDE DEF g
    <3> QED
      BY <3>1, Zenon DEF IsSum
  <2> DEFINE k == CHOOSE h : IsSum(length, s, h)
  <2>5. IsSum(length, s, k)
    <3> HIDE DEF g
    <3> QED
      BY <2>4, Zenon
  <2>6. Total(length, s) = k[s]
    BY TotalIs, Zenon
  <2> HIDE DEF k
  <2>7. \A t \in SUBSET s : t \in {u \in SUBSET s : k[u] = g[u]}
    <3> DEFINE V == {u \in SUBSET s : k[u] = g[u]}
    <3>1. ASSUME NEW t \in SUBSET s, \A u \in SUBSET t : u # t => u \in V PROVE t \in V
      <4>1. k[t] = IF t = {} THEN 0 ELSE length[Pick(t)] + k[t \ {Pick(t)}]
        BY <2>5, Zenon DEF IsSum
      <4>2. g[t] = IF t = {} THEN 0 ELSE length[Pick(t)] + g[t \ {Pick(t)}]
        <5> HIDE DEF g
        <5> QED
          BY <2>4, Zenon DEF IsSum
      <4> HIDE DEF g
      <4>3. t # {} => t \ {Pick(t)} \in SUBSET t /\ t \ {Pick(t)} # t
        BY <1>0, Zenon
      <4>4. t # {} => k[t \ {Pick(t)}] = g[t \ {Pick(t)}]
        BY <3>1, <4>3, Zenon
      <4> QED
        BY <4>1, <4>2, <4>4, Zenon
    <3>2. IsFiniteSet(s)
      BY FS_Subset, Zenon
    <3> HIDE DEF V
    <3>3. \A t \in SUBSET s : t \in V
      BY <3>1, <3>2, Subsets, Zenon
    <3> QED
      BY <3>3, Zenon DEF V
  <2>8. k[s] = g[s] /\ g[s] = Step(s)
    <3> HIDE DEF Step
    <3> QED
      BY <2>7, Zenon
  <2> HIDE DEF g, Step
  <2> QED
    BY <2>6, <2>8, Zenon
<1> HIDE DEF T
<1>2. \A s \in SUBSET S : s \in T
  BY <1>1, Subsets, Zenon
<1>3. \A s \in SUBSET S : Total(length, s) = Step(s)
  BY <1>2, Zenon DEF T
<1>4. {} \in SUBSET S /\ S \in SUBSET S
  BY Zenon
<1> QED
  BY <1>0, <1>3, <1>4, Zenon

\* A total of lengths is a natural number, and does not depend on other lengths.
LEMMA TotalType ==
  ASSUME NEW D, NEW length \in [D -> Nat], NEW S \in SUBSET D, IsFiniteSet(S)
  PROVE  /\ Total(length, S) \in Nat
         /\ \A other : (\A x \in S : other[x] = length[x])
                         => Total(other, S) = Total(length, S)
<1> SUFFICES ASSUME NEW other, \A x \in S : other[x] = length[x]
             PROVE  Total(length, S) \in Nat /\ Total(other, S) = Total(length, S)
  <2>1. \A x \in S : length[x] = length[x]
    BY Zenon
  <2> QED
    BY <2>1, Zenon
<1> DEFINE T == {s \in SUBSET S : Total(length, s) \in Nat /\ Total(other, s) = Total(length, s)}
<1>1. ASSUME NEW s \in SUBSET S, \A t \in SUBSET s : t # s => t \in T PROVE s \in T
  <2>0. IsFiniteSet(s)
    BY FS_Subset, Zenon
  <2>1. CASE s = {}
    <3>1. Total(length, s) = 0 /\ Total(other, s) = 0
      BY <2>0, <2>1, TotalSteps, Zenon
    <3> QED
      BY <3>1
  <2>2. CASE s # {}
    <3>1. PICK x : x = Pick(s)
      BY Zenon
    <3>2. x \in s /\ Total(length, s) = length[x] + Total(length, s \ {x})
      BY <2>0, <2>2, <3>1, TotalSteps, Zenon
    <3>3. Total(other, s) = other[x] + Total(other, s \ {x})
      BY <2>0, <2>2, <3>1, TotalSteps, Zenon
    <3>4. s \ {x} \in SUBSET s /\ s \ {x} # s
      BY <3>2, Zenon
    <3>5. s \ {x} \in T
      BY <1>1, <3>4, Zenon
    <3>6. Total(length, s \ {x}) \in Nat /\ Total(other, s \ {x}) = Total(length, s \ {x})
      BY <3>5, Zenon
    <3>7. length[x] \in Nat /\ other[x] = length[x]
      BY <3>2, Zenon
    <3>8. Total(length, s) \in Nat /\ Total(other, s) = Total(length, s)
      BY <3>2, <3>3, <3>6, <3>7
    <3> QED
      BY <3>8, Zenon
  <2> QED
    BY <2>1, <2>2, Zenon
<1> HIDE DEF T
<1>2. S \in T
  BY <1>1, Subsets, Zenon
<1> QED
  BY <1>2, Zenon DEF T

\* The order in which Total takes the elements makes no difference.
LEMMA TotalWithout ==
  ASSUME NEW D, NEW length \in [D -> Nat], NEW S \in SUBSET D, IsFiniteSet(S), NEW x \in S
  PROVE  Total(length, S) = length[x] + Total(length, S \ {x})
<1> DEFINE T == {s \in SUBSET S :
                   \A y \in s : Total(length, s) = length[y] + Total(length, s \ {y})}
<1>1. ASSUME NEW s \in SUBSET S, \A t \in SUBSET s : t # s => t \in T PROVE s \in T
  <2>0. IsFiniteSet(s) /\ \A u \in SUBSET s : Total(length, u) \in Nat
    <3>1. \A u \in SUBSET S : IsFiniteSet(u)
      BY FS_Subset, Zenon
    <3>2. \A u \in SUBSET S : Total(length, u) \in Nat
      BY <3>1, TotalType, Zenon
    <3> QED
      BY <3>1, <3>2, Zenon
  <2>1. ASSUME NEW y \in s PROVE Total(length, s) = length[y] + Total(length, s \ {y})
    <3>1. PICK c : c = Pick(s)
      BY Zenon
    <3>2. c \in s /\ Total(length, s) = length[c] + Total(length, s \ {c})
      BY <2>0, <3>1, TotalSteps, Zenon
    <3>3. CASE c = y
      BY <3>2, <3>3, Zenon
    <3>4. CASE c # y
      <4>1. PICK a, b : a = s \ {c} /\ b = s \ {y}
        BY Zenon
      <4>2. a \in SUBSET s /\ a # s /\ b \in SUBSET s /\ b # s /\ y \in a /\ c \in b
        BY <3>2, <3>4, <4>1, Zenon
      <4>3. a \in T /\ b \in T
        BY <1>1, <4>2, Zenon
      <4>4. Total(length, a) = length[y] + Total(length, a \ {y})
        BY <4>2, <4>3, Zenon
      <4>5. Total(length, b) = length[c] + Total(length, b \ {c})
        BY <4>2, <4>3, Zenon
      <4>6. a \ {y} = b \ {c}
        BY <4>1, Zenon
      <4>7. length[c] \in Nat /\ length[y] \in Nat /\ Total(length, a \ {y}) \in Nat
        BY <2>0, <3>2, <4>2, Zenon
      <4>8. Total(length, s) = length[c] + Total(length, a)
        BY <3>2, <4>1, Zenon
      <4>9. Total(length, s) = length[y] + Total(length, b)
        BY <4>4, <4>5, <4>6, <4>7, <4>8
      <4> QED
        BY <4>1, <4>9, Zenon
    <3> QED
      BY <3>3, <3>4, Zenon
  <2> QED
    BY <2>1, Zenon
<1> HIDE DEF T
<1>2. S \in T
  BY <1>1, Subsets, Zenon
<1> QED
  BY <1>2, Zenon DEF T

\* Taking a part out of a set takes its total out of the total.
LEMMA TotalDifference ==
  ASSUME NEW D, NEW length \in [D -> Nat], NEW S \in SUBSET D, IsFiniteSet(S),
         NEW R \in SUBSET S
  PROVE  Total(length, S \ R) = Total(length, S) - Total(length, R)
<1> DEFINE Leaves(s) == Total(length, S \ s) = Total(length, S) - Total(length, s)
           T == {s \in SUBSET S : Leaves(s)}
<1>0. \A u \in SUBSET S : u \in SUBSET D /\ IsFiniteSet(u) /\ Total(length, u) \in Nat
  <2>1. \A u \in SUBSET S : IsFiniteSet(u)
    BY FS_Subset, Zenon
  <2> QED
    BY <2>1, TotalType, Zenon
<1>1. ASSUME NEW s \in SUBSET S, \A t \in SUBSET s : t # s => t \in T PROVE s \in T
  <2>1. CASE s = {}
    <3>1. Total(length, s) = 0 /\ S \ s = S
      BY <1>0, <2>1, TotalSteps, Zenon
    <3>2. Total(length, S) \in Nat
      BY <1>0, Zenon
    <3>3. Leaves(s)
      BY <3>1, <3>2
    <3> HIDE DEF Leaves
    <3> QED
      BY <3>3, Zenon
  <2>2. CASE s # {}
    <3>1. PICK x : x \in s
      BY <2>2, Zenon
    <3>2. PICK t, u : t = s \ {x} /\ u = S \ t
      BY Zenon
    <3>3. t \in SUBSET s /\ t # s /\ t \in SUBSET S /\ u \in SUBSET S /\ x \in u
      BY <3>1, <3>2, Zenon
    <3>4. t \in T
      BY <1>1, <3>3, Zenon
    <3>5. Total(length, u) = Total(length, S) - Total(length, t)
      BY <3>2, <3>4, Zenon
    <3>6. Total(length, s) = length[x] + Total(length, t)
      BY <1>0, <3>1, <3>2, TotalWithout
    <3>7. Total(length, u) = length[x] + Total(length, u \ {x})
      BY <1>0, <3>3, TotalWithout
    <3>8. u \ {x} = S \ s
      BY <3>1, <3>2, Zenon
    <3>9. /\ Total(length, S) \in Nat /\ Total(length, t) \in Nat
          /\ Total(length, S \ s) \in Nat /\ length[x] \in Nat
      BY <1>0, <3>1, <3>3, Zenon
    <3>10. Total(length, u) = length[x] + Total(length, S \ s)
      BY <3>7, <3>8, Zenon
    <3>11. Leaves(s)
      BY <3>5, <3>6, <3>9, <3>10
    <3> HIDE DEF Leaves
    <3> QED
      BY <3>11, Zenon
  <2> QED
    BY <2>1, <2>2, Zenon
<1> HIDE DEF T
<1>2. \A s \in SUBSET S : s \in T
  BY <1>1, Subsets, Zenon
<1> QED
  BY <1>2, Zenon DEF T

(***************************************************************************)
(* The bytes in flight.                                                    *)
(***************************************************************************)

\* The datagrams of a peer are finitely many, so their lengths have a total.
LEMMA FlightTotals ==
  ASSUME FlightOK, NEW p \in Peer, NEW S \in SUBSET DatagramIDs
  PROVE  /\ IsFiniteSet(S) /\ datagramBytes[p] \in [DatagramIDs -> Nat]
         /\ WireBytes(p, S) = Total(datagramBytes[p], S) /\ WireBytes(p, S) \in Nat
<1>1. MaxDatagrams - 1 \in Int /\ 0 \in Int
  BY LimitAssumption
<1>2. IsFiniteSet(DatagramIDs)
  BY <1>1, FS_Interval, Zenon DEF DatagramIDs
<1>3. IsFiniteSet(S)
  BY <1>2, FS_Subset, Zenon
<1>4. datagramBytes[p] \in [DatagramIDs -> Nat]
  BY Zenon DEF FlightOK
<1> QED
  BY <1>3, <1>4, TotalType, Zenon DEF WireBytes

\* A new datagram of p, of so many bytes, takes the next number.
Launch(p, bytes) ==
  LET d == nextDatagram[p] IN
  /\ bytes \in Nat /\ d \in DatagramIDs
  /\ nextDatagram' = [nextDatagram EXCEPT ![p] = d + 1]
  /\ outgoing' = [outgoing EXCEPT ![p] = @ \cup {d}]
  /\ bytesInFlight' = [bytesInFlight EXCEPT ![p] = @ + bytes]
  /\ datagramBytes' = [datagramBytes EXCEPT ![p][d] = bytes]
  /\ UNCHANGED blobLength

\* A datagram that is written adds its bytes.
LEMMA LaunchCounted ==
  ASSUME TypeOK, FlightOK, NEW p \in Peer, NEW bytes, Launch(p, bytes)
  PROVE  FlightOK'
<1>1. PICK d : d = nextDatagram[p]
  BY Zenon
<1>2. d \in DatagramIDs /\ d \in Nat /\ bytes \in Nat
  BY <1>1, IdsAre, Zenon DEF Launch
<1>3. d \notin outgoing[p] /\ outgoing[p] \in SUBSET DatagramIDs
  BY <1>1, <1>2, CountIs, Zenon DEF TypeOK, FlightOK
<1>4. \A q \in Peer : q # p => /\ nextDatagram'[q] = nextDatagram[q]
                              /\ outgoing'[q] = outgoing[q]
                              /\ bytesInFlight'[q] = bytesInFlight[q]
                              /\ datagramBytes'[q] = datagramBytes[q]
  BY Zenon DEF Launch, TypeOK, FlightOK
<1>5. /\ nextDatagram'[p] = d + 1 /\ outgoing'[p] = outgoing[p] \cup {d}
      /\ bytesInFlight'[p] = bytesInFlight[p] + bytes
      /\ datagramBytes'[p] = [datagramBytes[p] EXCEPT ![d] = bytes]
  <2>1. DOMAIN bytesInFlight = Peer
    BY Zenon DEF FlightOK
  <2> QED
    BY <1>1, <2>1, Zenon DEF Launch, TypeOK, FlightOK
<1>6. datagramBytes' \in [Peer -> [DatagramIDs -> Nat]] /\ blobLength' = blobLength
  BY <1>2, Zenon DEF Launch, FlightOK
<1>7. bytesInFlight' = [q \in Peer |-> bytesInFlight'[q]]
  BY Zenon DEF Launch, FlightOK
<1>8. \A q \in Peer : \A x \in outgoing'[q] : x < nextDatagram'[q]
  <2>1. \A x \in outgoing[p] : x \in Nat /\ x < d
    BY <1>1, <1>3, IdsAre, Zenon DEF FlightOK
  <2>2. \A x \in outgoing'[p] : x < nextDatagram'[p]
    BY <1>2, <1>5, <2>1, BelowNext, Zenon
  <2> QED
    BY <1>4, <2>2, Zenon DEF FlightOK
<1>9. bytesInFlight'[p] = Total(datagramBytes'[p], outgoing'[p])
  <2>1. PICK length, longer, S, U :
          /\ length = datagramBytes[p] /\ longer = datagramBytes'[p]
          /\ S = outgoing[p] /\ U = outgoing'[p]
    BY Zenon
  <2>2. length \in [DatagramIDs -> Nat] /\ longer \in [DatagramIDs -> Nat]
    BY <1>6, <2>1, Zenon DEF FlightOK
  <2>3. S \in SUBSET DatagramIDs /\ U \in SUBSET DatagramIDs /\ d \in U /\ U \ {d} = S
    BY <1>2, <1>3, <1>5, <2>1, Zenon
  <2>4. IsFiniteSet(S) /\ IsFiniteSet(U)
    BY <2>3, FlightTotals, Zenon
  <2>5. Total(longer, U) = longer[d] + Total(longer, S)
    <3>1. Total(longer, U) = longer[d] + Total(longer, U \ {d})
      BY <2>2, <2>3, <2>4, TotalWithout, SMTT(30)
    <3> QED
      BY <2>3, <3>1, Zenon
  <2>6. \A x \in S : longer[x] = length[x]
    BY <1>3, <1>5, <2>1, <2>2, <2>3, Zenon
  <2>7. Total(longer, S) = Total(length, S) /\ Total(length, S) \in Nat
    BY <2>2, <2>3, <2>4, <2>6, TotalType, ZenonT(30)
  <2>8. longer[d] = bytes
    BY <1>2, <1>5, <2>1, <2>2, Zenon
  <2>9. bytesInFlight[p] = Total(length, S)
    BY <2>1, Zenon DEF FlightOK, BytesAccounted, WireBytes
  <2>10. bytesInFlight'[p] = Total(longer, U)
    BY <1>2, <1>5, <2>5, <2>7, <2>8, <2>9, SumEitherWay, Zenon
  <2> QED
    BY <2>1, <2>10, Zenon
<1>10. \A q \in Peer : q # p => bytesInFlight'[q] = Total(datagramBytes'[q], outgoing'[q])
  BY <1>4, Zenon DEF FlightOK, BytesAccounted, WireBytes
<1>11. BytesAccounted'
  BY <1>9, <1>10, Zenon DEF BytesAccounted, WireBytes
<1> QED
  BY <1>6, <1>7, <1>8, <1>11, Zenon DEF FlightOK

\* Datagrams that leave m_outgoing take their bytes with them.
LEMMA LeaveCounted ==
  ASSUME TypeOK, FlightOK, NEW p \in Peer, NEW ds \in SUBSET outgoing[p], LeaveFlight(p, ds),
         UNCHANGED <<nextDatagram, blobLength, datagramBytes>>
  PROVE  FlightOK'
<1>1. outgoing[p] \in SUBSET DatagramIDs /\ ds \in SUBSET DatagramIDs
  BY Zenon DEF TypeOK
<1>2. \A q \in Peer : q # p => outgoing'[q] = outgoing[q] /\ bytesInFlight'[q] = bytesInFlight[q]
  BY Zenon DEF LeaveFlight, TypeOK, FlightOK
<1>3. /\ outgoing'[p] = outgoing[p] \ ds
      /\ bytesInFlight'[p] = bytesInFlight[p] - WireBytes(p, ds)
  <2>1. DOMAIN bytesInFlight = Peer /\ DOMAIN outgoing = Peer
    BY Zenon DEF FlightOK, TypeOK
  <2> QED
    BY <2>1, Zenon DEF LeaveFlight
<1>4. bytesInFlight' = [q \in Peer |-> bytesInFlight'[q]]
  BY Zenon DEF LeaveFlight, FlightOK
<1>5. \A q \in Peer : \A x \in outgoing'[q] : x < nextDatagram'[q]
  BY <1>2, <1>3, Zenon DEF FlightOK
<1>6. bytesInFlight'[p] = WireBytes(p, outgoing'[p])
  <2>1. Total(datagramBytes[p], outgoing[p] \ ds)
          = Total(datagramBytes[p], outgoing[p]) - Total(datagramBytes[p], ds)
    <3>1. PICK length, S : length = datagramBytes[p] /\ S = outgoing[p]
      BY Zenon
    <3>2. length \in [DatagramIDs -> Nat] /\ S \in SUBSET DatagramIDs /\ ds \in SUBSET S
      BY <1>1, <3>1, Zenon DEF FlightOK
    <3>3. IsFiniteSet(S)
      BY <3>2, FlightTotals, ZenonT(40)
    <3>4. Total(length, S \ ds) = Total(length, S) - Total(length, ds)
      BY <3>2, <3>3, TotalDifference, SMTT(30)
    <3> QED
      BY <3>1, <3>4, Zenon
  <2> QED
    BY <1>3, <2>1, Zenon DEF FlightOK, BytesAccounted, WireBytes
<1>7. BytesAccounted'
  BY <1>2, <1>6, Zenon DEF FlightOK, BytesAccounted, WireBytes
<1> QED
  BY <1>4, <1>5, <1>7, Zenon DEF FlightOK

\* Every step keeps the count of bytes.
LEMMA FlightStep ==
  ASSUME TypeOK, OutboxReliable, FlightOK, [Next]_vars
  PROVE  FlightOK'
<1>0. \A p \in Peer : CanWrite(p) => nextDatagram[p] \in DatagramIDs
  <2> SUFFICES ASSUME NEW p \in Peer, CanWrite(p) PROVE nextDatagram[p] \in DatagramIDs
    BY Zenon
  <2>1. nextDatagram[p] \in Nat /\ nextDatagram[Other(p)] \in Nat
    BY OtherFacts, IdsAre, Zenon DEF TypeOK
  <2> QED
    BY <2>1, IdsAre, Zenon DEF CanWrite
<1>1. ASSUME NEW p \in Peer, Enqueue(p) PROVE FlightOK'
  <2>1. PICK m \in Workload[p] : EnqueueOutgoing(p, m)
    BY <1>1, Zenon DEF Enqueue
  <2>2. m.length \in Nat
    BY <2>1, WorkloadAssumption, Zenon DEF Message
  <2>3. PICK parts : blobLength' = [blobLength EXCEPT ![p] =
                       [i \in PacketIDs |-> IF i \in parts THEN m.length ELSE @[i]]]
    BY <2>1, Zenon DEF EnqueueOutgoing
  <2>4. blobLength' \in [Peer -> [PacketIDs -> Nat]]
    BY <2>2, <2>3, Zenon DEF FlightOK
  <2>5. UNCHANGED <<nextDatagram, outgoing, bytesInFlight, datagramBytes>>
    BY <1>1, Frames, Zenon
  <2> QED
    BY <2>4, <2>5, Zenon DEF FlightOK, BytesAccounted, WireBytes
<1>2. ASSUME NEW p \in Peer, SendDatagram(p) PROVE FlightOK'
  <2>1. PICK again \in SUBSET outbox[p], fresh \in SUBSET outbox[p] :
           SendEffect(p, again, fresh)
    BY <1>2, SendIsEffect, Zenon
  <2>2. PICK S : S = Ids(again \cup fresh)
    BY Zenon
  <2>3. S \in SUBSET PacketIDs
    BY <2>2, SMTT(30) DEF Ids, TypeOK, OutgoingPacket
  <2>4. IsFiniteSet(S)
    <3>1. IsFiniteSet(PacketIDs)
      BY PacketsFinite, Zenon
    <3> QED
      BY <2>3, <3>1, FS_Subset, ZenonT(40)
  <2>5. Bytes(p, S) \in Nat
    <3>1. blobLength[p] \in [PacketIDs -> Nat]
      BY Zenon DEF FlightOK
    <3> QED
      BY <2>3, <2>4, <3>1, TotalType, Zenon DEF Bytes
  <2>6. HEADER + Bytes(p, S) \in Nat
    BY <2>5, SizeAssumption, SMTT(30)
  <2>7. nextDatagram[p] \in DatagramIDs
    BY <1>0, <1>2, Zenon DEF SendDatagram
  <2>8. Launch(p, HEADER + Bytes(p, S))
    BY <2>1, <2>2, <2>6, <2>7, Zenon DEF SendEffect, Launch
  <2> QED
    BY <2>8, LaunchCounted, Zenon
<1>3. ASSUME NEW p \in Peer, SendAckgram(p) PROVE FlightOK'
  <2>1. HEADER \in Nat /\ nextDatagram[p] \in DatagramIDs
    BY <1>0, <1>3, SizeAssumption, Zenon DEF SendAckgram
  <2>2. Launch(p, HEADER)
    BY <1>3, <2>1, Zenon DEF SendAckgram, Launch
  <2> QED
    BY <2>2, LaunchCounted, Zenon
<1>4. ASSUME NEW p \in Peer, GiveUp(p) \/ WriteError(p) \/ ReadCorrupt(p) PROVE FlightOK'
  <2>1. Reset(p) /\ UNCHANGED <<blobLength, datagramBytes>>
    BY <1>4, Frames, Zenon
  <2>2. /\ \A q \in Peer : q # p => outgoing'[q] = outgoing[q] /\ bytesInFlight'[q] = bytesInFlight[q]
        /\ bytesInFlight' = [q \in Peer |-> bytesInFlight'[q]]
    BY <2>1, Zenon DEF Reset, TypeOK, FlightOK
  <2>3. outgoing'[p] = {} /\ bytesInFlight'[p] = 0
    <3>1. DOMAIN bytesInFlight = Peer /\ DOMAIN outgoing = Peer
      BY Zenon DEF FlightOK, TypeOK
    <3> QED
      BY <2>1, <3>1, Zenon DEF Reset
  <2>4. \A q \in Peer : q # p => nextDatagram'[q] = nextDatagram[q]
    BY <1>4, Zenon DEF GiveUp, WriteError, ReadCorrupt, TypeOK
  <2>5. \A q \in Peer : \A x \in outgoing'[q] : x < nextDatagram'[q]
    BY <2>2, <2>3, <2>4, Zenon DEF FlightOK
  <2>6. Total(datagramBytes[p], {}) = 0
    BY FS_EmptySet, TotalSteps, Zenon
  <2>7. BytesAccounted'
    BY <2>1, <2>2, <2>3, <2>6, Zenon DEF FlightOK, BytesAccounted, WireBytes
  <2> QED
    BY <2>1, <2>2, <2>5, <2>7, Zenon DEF FlightOK
<1>5. ASSUME NEW p \in Peer, UpdateInFlight(p) PROVE FlightOK'
  <2>1. UNCHANGED <<nextDatagram, blobLength, datagramBytes>>
    BY <1>5, Frames, Zenon DEF logVars
  <2>2. PICK ds \in SUBSET outgoing[p] : LeaveFlight(p, ds)
    BY <1>5, Zenon DEF UpdateInFlight
  <2> QED
    BY <2>1, <2>2, LeaveCounted, Zenon
<1>6. ASSUME NEW p \in Peer, ReadAcks(p) PROVE FlightOK'
  <2>1. UNCHANGED <<nextDatagram, blobLength, datagramBytes>>
    BY <1>6, Frames, Zenon
  <2>2. PICK ds \in SUBSET outgoing[p] : LeaveFlight(p, ds)
    BY <1>6, Zenon DEF ReadAcks
  <2> QED
    BY <2>1, <2>2, LeaveCounted, Zenon
<1>7. ASSUME UNCHANGED <<nextDatagram, outgoing, bytesInFlight, blobLength, datagramBytes>>
      PROVE  FlightOK'
  BY <1>7, Zenon DEF FlightOK, BytesAccounted, WireBytes
<1>8. ASSUME NEW p \in Peer,
             \/ RtoElapses(p) \/ UpdateHistory(p) \/ UpdateReceipts(p)
             \/ ReadDatagram(p) \/ ReadNacks(p) \/ ReadPacket(p)
      PROVE  FlightOK'
  <2>1. UNCHANGED <<nextDatagram, outgoing, bytesInFlight, blobLength, datagramBytes>>
    BY <1>8, Zenon DEF RtoElapses, UpdateHistory, UpdateReceipts, ReadDatagram, ReadNacks,
       ReadPacket, outVars, logVars
  <2> QED
    BY <1>7, <2>1, Zenon
<1>9. ASSUME Lose \/ UNCHANGED vars PROVE FlightOK'
  BY <1>7, <1>9, Zenon DEF Lose, vars, outVars, logVars
<1> QED
  BY <1>1, <1>2, <1>3, <1>4, <1>5, <1>6, <1>8, <1>9, ZenonT(40) DEF Next

\* CongestionControl's count of the bytes in flight is the sum over m_outgoing, as
\* the assertion in Update says, however acks, expiries and sends interleave.
THEOREM BytesAreAccounted ==
  ASSUME OnlyReliable
  PROVE  Spec => []BytesAccounted
<1>1. Init => FlightOK
  <2> SUFFICES ASSUME Init PROVE FlightOK
    BY Zenon
  <2>1. \A p \in Peer : Total(datagramBytes[p], {}) = 0
    BY FS_EmptySet, TotalSteps, Zenon
  <2>2. BytesAccounted
    BY <2>1, Zenon DEF Init, BytesAccounted, WireBytes
  <2> QED
    BY <2>2, Zenon DEF Init, FlightOK
<1>2. LinkInv /\ FlightOK /\ [Next]_vars => FlightOK'
  BY FlightStep, Zenon DEF LinkInv
<1>3. FlightOK => BytesAccounted
  BY Zenon DEF FlightOK
<1> QED
  BY <1>1, <1>2, <1>3, LinkInvariant, PTL DEF Spec

(***************************************************************************)
(* The attempts.                                                           *)
(***************************************************************************)

\* A packet is in the outbox of p once.
Once(box) == \A o, x \in box : o.id = x.id => o = x

\* A step that puts no packet of the outbox on the wire keeps AttemptsCounted, if
\* packets keep their counts and those that it adds are new.
LEMMA AttemptsKept ==
  ASSUME TypeOK, TypeOK', AttemptsCounted,
         \A m \in wire' : m \in wire \/ m.packets = {},
         \A p \in Peer : nextPacket[p] <= nextPacket'[p],
         \A p \in Peer : Once(outbox'[p]),
         \A p \in Peer : \A o \in outbox'[p] :
           \/ \E x \in outbox[p] : x.id = o.id /\ x.sendCount = o.sendCount
           \/ nextPacket[p] <= o.id
  PROVE  AttemptsCounted'
<1>1. \A p \in Peer, i \in PacketIDs : Carriers(p, i)' \in SUBSET Carriers(p, i)
  BY Zenon DEF Carriers
<1>2. \A p \in Peer, i \in PacketIDs : /\ IsFiniteSet(Carriers(p, i))
                                        /\ Cardinality(Carriers(p, i)) \in Nat
                                        /\ Cardinality(Carriers(p, i)) <= SEND_RETRY_COUNT
  BY FS_CardinalityType, Zenon DEF AttemptsCounted, RetriesBounded
<1>3. \A p \in Peer, i \in PacketIDs : /\ IsFiniteSet(Carriers(p, i)')
                                        /\ Cardinality(Carriers(p, i)') \in Nat
                                        /\ Cardinality(Carriers(p, i)') <= Cardinality(Carriers(p, i))
  <2> SUFFICES ASSUME NEW p \in Peer, NEW i \in PacketIDs
               PROVE  /\ IsFiniteSet(Carriers(p, i)')
                      /\ Cardinality(Carriers(p, i)') \in Nat
                      /\ Cardinality(Carriers(p, i)') <= Cardinality(Carriers(p, i))
    BY Zenon
  <2>1. PICK C, D : C = Carriers(p, i) /\ D = Carriers(p, i)'
    BY Zenon
  <2>2. D \in SUBSET C /\ IsFiniteSet(C)
    BY <1>1, <1>2, <2>1, Zenon
  <2>3. IsFiniteSet(D) /\ Cardinality(D) <= Cardinality(C)
    BY <2>2, FS_Subset, Zenon
  <2>4. Cardinality(D) \in Nat
    BY <2>3, FS_CardinalityType, Zenon
  <2> QED
    BY <2>1, <2>3, <2>4, Zenon
<1>4. \A m \in wire' : \A i \in m.packets : i < nextPacket'[m.from]
  <2> SUFFICES ASSUME NEW m \in wire', NEW i \in m.packets PROVE i < nextPacket'[m.from]
    BY Zenon
  <2>1. m \in wire /\ m.from \in Peer /\ i \in PacketIDs
    BY Zenon DEF TypeOK, Datagram
  <2>2. i < nextPacket[m.from] /\ nextPacket[m.from] <= nextPacket'[m.from]
    BY <2>1, ZenonT(40) DEF AttemptsCounted
  <2>3. i \in Nat /\ nextPacket[m.from] \in Nat /\ nextPacket'[m.from] \in Nat
    BY <2>1, IdsAre, Zenon DEF TypeOK
  <2> QED
    BY <2>2, <2>3, LessChain, Zenon
<1>5. ASSUME NEW p \in Peer, NEW o \in outbox'[p]
      PROVE  Cardinality(Carriers(p, o.id)') <= o.sendCount
  <2>1. o.id \in PacketIDs /\ o.sendCount \in Nat
    BY <1>5, PacketIs, Zenon DEF TypeOK
  <2>2. CASE \E x \in outbox[p] : x.id = o.id /\ x.sendCount = o.sendCount
    <3>1. Cardinality(Carriers(p, o.id)) <= o.sendCount
      BY <2>2, Zenon DEF AttemptsCounted
    <3>2. PICK j, k : j = Cardinality(Carriers(p, o.id)) /\ k = Cardinality(Carriers(p, o.id)')
      BY Zenon
    <3>3. j \in Nat /\ k \in Nat /\ k <= j /\ j <= o.sendCount
      BY <1>2, <1>3, <2>1, <3>1, <3>2, Zenon
    <3>4. k <= o.sendCount
      BY <2>1, <3>3, LeqChain, Zenon
    <3> QED
      BY <3>2, <3>4, Zenon
  <2>3. CASE nextPacket[p] <= o.id
    <3>1. Carriers(p, o.id) = {}
      <4> SUFFICES ASSUME NEW m \in wire, m.from = p, o.id \in m.packets PROVE FALSE
        BY Zenon DEF Carriers
      <4>1. o.id < nextPacket[p]
        BY ZenonT(40) DEF AttemptsCounted
      <4>2. nextPacket[p] \in Nat /\ o.id \in Nat
        BY <1>5, <2>1, IdsAre, Zenon DEF TypeOK
      <4> QED
        BY <2>3, <4>1, <4>2, NotBoth, Zenon
    <3>2. Carriers(p, o.id)' = {}
      BY <1>1, <2>1, <3>1, Zenon
    <3>3. Cardinality(Carriers(p, o.id)') = 0
      BY <3>2, FS_EmptySet, Zenon
    <3> QED
      BY <2>1, <3>3, CountIs, Zenon
  <2> QED
    BY <1>5, <2>2, <2>3, ZenonT(40)
<1>6. RetriesBounded'
  <2> SUFFICES ASSUME NEW p \in Peer, NEW i \in PacketIDs
               PROVE  Cardinality(Carriers(p, i)') <= SEND_RETRY_COUNT
    BY Zenon DEF RetriesBounded
  <2>1. PICK j, k : j = Cardinality(Carriers(p, i)) /\ k = Cardinality(Carriers(p, i)')
    BY Zenon
  <2>2. j \in Nat /\ k \in Nat /\ k <= j /\ j <= SEND_RETRY_COUNT
    BY <1>2, <1>3, <2>1, Zenon
  <2>3. k <= SEND_RETRY_COUNT
    BY <2>2, LimitAssumption, LeqChain, Zenon
  <2> QED
    BY <2>1, <2>3, Zenon
<1> QED
  BY <1>3, <1>4, <1>5, <1>6, Zenon DEF AttemptsCounted, Once

\* A packet that was rewritten has the id and the count it had.
LEMMA OutboxRewritten ==
  ASSUME TypeOK, NEW p \in Peer, Once(outbox[p]), RtoElapses(p) \/ ReadNacks(p)
  PROVE  /\ Once(outbox'[p])
         /\ \A o \in outbox'[p] :
              \E x \in outbox[p] : x.id = o.id /\ x.sendCount = o.sendCount
         /\ \A q \in Peer : q # p => outbox'[q] = outbox[q]
<1>0. \A o \in outbox[p] : /\ Again(o, o.sendCount, "past").id = o.id
                           /\ Again(o, o.sendCount, "past").sendCount = o.sendCount
  BY Zenon DEF Again
<1>t. DOMAIN outbox = Peer
  BY Zenon DEF TypeOK
<1>1. CASE RtoElapses(p)
  <2>1. PICK o \in outbox[p] :
          outbox' = [outbox EXCEPT ![p] = (@ \ {o}) \cup {Again(o, o.sendCount, "past")}]
    BY <1>1, Zenon DEF RtoElapses
  <2>2. PICK n : n = Again(o, o.sendCount, "past")
    BY Zenon
  <2>3. outbox'[p] = (outbox[p] \ {o}) \cup {n} /\ n.id = o.id /\ n.sendCount = o.sendCount
    BY <1>0, <1>t, <2>1, <2>2, ZenonT(30)
  <2>4. \A q \in Peer : q # p => outbox'[q] = outbox[q]
    BY <1>t, <2>1, Zenon
  <2> QED
    BY <2>3, <2>4, Zenon DEF Once
<1>2. CASE ReadNacks(p)
  <2>1. PICK ids : outbox' = [outbox EXCEPT ![p] =
          {IF o.id \in ids THEN Again(o, o.sendCount, "past") ELSE o : o \in @}]
    BY <1>2, Zenon DEF ReadNacks
  <2>2. outbox'[p] = {IF o.id \in ids THEN Again(o, o.sendCount, "past") ELSE o : o \in outbox[p]}
    BY <1>t, <2>1, Zenon
  <2>4. \A q \in Peer : q # p => outbox'[q] = outbox[q]
    BY <1>t, <2>1, Zenon
  <2>5. \A n \in outbox'[p] : \E x \in outbox[p] :
          /\ n = IF x.id \in ids THEN Again(x, x.sendCount, "past") ELSE x
          /\ n.id = x.id /\ n.sendCount = x.sendCount
    BY <1>0, <2>2, Zenon
  <2>6. ASSUME NEW m \in outbox'[p], NEW n \in outbox'[p], m.id = n.id PROVE m = n
    <3>1. PICK x \in outbox[p] :
            /\ m = IF x.id \in ids THEN Again(x, x.sendCount, "past") ELSE x
            /\ m.id = x.id
      BY <2>5, Zenon
    <3>2. PICK y \in outbox[p] :
            /\ n = IF y.id \in ids THEN Again(y, y.sendCount, "past") ELSE y
            /\ n.id = y.id
      BY <2>5, Zenon
    <3>3. x = y
      BY <2>6, <3>1, <3>2, Zenon DEF Once
    <3> QED
      BY <3>1, <3>2, <3>3, Zenon
  <2>7. Once(outbox'[p])
    BY <2>6, Zenon DEF Once
  <2> QED
    BY <2>4, <2>5, <2>7, Zenon
<1> QED
  BY <1>1, <1>2, Zenon

\* MakeDatagram counts an attempt for each packet that it writes.
LEMMA SendAttempts ==
  ASSUME TypeOK, TypeOK', OutboxReliable, AttemptsCounted, FromSent, IdsUsedOnce,
         NEW p \in Peer, SendDatagram(p)
  PROVE  AttemptsCounted'
<1>1. PICK again \in SUBSET outbox[p], fresh \in SUBSET outbox[p] :
         SendEffect(p, again, fresh)
  BY SendIsEffect, Zenon
<1>2. PICK queue, m0 :
        /\ queue = again \cup fresh
        /\ m0 = [from |-> p, id |-> nextDatagram[p], data |-> TRUE, listed |-> Ids(queue),
                 packets |-> Ids(queue), acks |-> {}, nacks |-> {}]
  BY Zenon
<1>3. /\ outbox' = [outbox EXCEPT ![p] = (outbox[p] \ queue) \cup {Touched(o) : o \in queue}]
      /\ wire' = wire \cup {m0}
      /\ nextPacket' = nextPacket
      /\ \A o \in queue : o.sendCount < SEND_RETRY_COUNT
  BY <1>1, <1>2, Zenon DEF SendEffect
<1>4. m0.from = p /\ m0.packets = Ids(queue) /\ queue \in SUBSET outbox[p]
  BY <1>2, ZenonT(40)
<1>5. \A o \in outbox[p] : /\ o.id \in PacketIDs /\ o.sendCount \in Nat
                           /\ Touched(o).id = o.id /\ Touched(o).sendCount = o.sendCount + 1
  BY SMTT(30) DEF TypeOK, OutgoingPacket, Touched, Again
<1>6. outbox'[p] = (outbox[p] \ queue) \cup {Touched(o) : o \in queue}
  BY <1>3, Zenon DEF TypeOK
<1>7. \A q \in Peer : q # p => outbox'[q] = outbox[q]
  BY <1>3, Zenon DEF TypeOK
<1>8. \A q \in Peer : Once(outbox[q])
  BY Zenon DEF AttemptsCounted, Once
<1>9. \A o \in outbox'[p] :
        \/ o \in outbox[p] /\ o \notin queue
        \/ \E x \in queue : o = Touched(x) /\ o.id = x.id /\ o.sendCount = x.sendCount + 1
  BY <1>4, <1>5, <1>6, ZenonT(40)
<1>10. Once(outbox'[p])
  <2>1. \A o \in outbox'[p] : \E x \in outbox[p] :
          o.id = x.id /\ o = IF x \in queue THEN Touched(x) ELSE x
    BY <1>4, <1>9, Zenon
  <2> SUFFICES ASSUME NEW o \in outbox'[p], NEW n \in outbox'[p], o.id = n.id PROVE o = n
    BY Zenon DEF Once
  <2>2. PICK x \in outbox[p] : o.id = x.id /\ o = IF x \in queue THEN Touched(x) ELSE x
    BY <2>1, Zenon
  <2>3. PICK y \in outbox[p] : n.id = y.id /\ n = IF y \in queue THEN Touched(y) ELSE y
    BY <2>1, Zenon
  <2>4. x = y
    BY <1>8, <2>2, <2>3, Zenon DEF Once
  <2> QED
    BY <2>2, <2>3, <2>4, Zenon
<1>11. ASSUME NEW i \in Ids(queue) PROVE i < nextPacket[p]
  <2>1. PICK o \in outbox[p] : o.id = i
    BY <1>4, Zenon DEF Ids
  <2>2. PICK m \in sent[p] : i \in m.parts
    BY <2>1, Zenon DEF FromSent
  <2> QED
    BY <2>2, Zenon DEF IdsUsedOnce
<1>12. \A m \in wire' : \A i \in m.packets : i < nextPacket'[m.from]
  BY <1>3, <1>4, <1>11, Zenon DEF AttemptsCounted
<1>13. \A q \in Peer, i \in PacketIDs : /\ IsFiniteSet(Carriers(q, i))
                                         /\ Cardinality(Carriers(q, i)) \in Nat
                                         /\ Cardinality(Carriers(q, i)) <= SEND_RETRY_COUNT
  BY FS_CardinalityType, Zenon DEF AttemptsCounted, RetriesBounded
<1>14. ASSUME NEW q \in Peer, NEW i \in PacketIDs, q # p \/ i \notin Ids(queue)
       PROVE  Carriers(q, i)' = Carriers(q, i)
  BY <1>3, <1>4, <1>14, Zenon DEF Carriers
<1>15. ASSUME NEW x \in queue
       PROVE  /\ IsFiniteSet(Carriers(p, x.id)')
              /\ Cardinality(Carriers(p, x.id)') <= x.sendCount + 1
              /\ Cardinality(Carriers(p, x.id)') <= SEND_RETRY_COUNT
  <2>1. PICK C, D : C = Carriers(p, x.id) /\ D = Carriers(p, x.id)'
    BY Zenon
  <2>2. x \in outbox[p] /\ x.id \in PacketIDs /\ x.sendCount \in Nat
    BY <1>4, <1>5, Zenon
  <2>3. D = C \cup {m0}
    <3>1. x.id \in m0.packets
      BY <1>4, Zenon DEF Ids
    <3> QED
      BY <1>3, <1>4, <2>1, <3>1, Zenon DEF Carriers
  <2>4. IsFiniteSet(C) /\ Cardinality(C) \in Nat /\ Cardinality(C) <= x.sendCount
    BY <1>13, <2>1, <2>2, Zenon DEF AttemptsCounted
  <2>5. /\ IsFiniteSet(D)
        /\ Cardinality(D) = IF m0 \in C THEN Cardinality(C) ELSE Cardinality(C) + 1
    BY <2>3, <2>4, FS_AddElement, Zenon
  <2>6. x.sendCount < SEND_RETRY_COUNT
    BY <1>3, ZenonT(40)
  <2>7. Cardinality(D) <= x.sendCount + 1 /\ Cardinality(D) <= SEND_RETRY_COUNT
    <3>1. SEND_RETRY_COUNT \in Nat
      BY LimitAssumption, Zenon
    <3>2. PICK j, k, n : j = Cardinality(C) /\ k = Cardinality(D) /\ n = x.sendCount
      BY Zenon
    <3>3. j \in Nat /\ n \in Nat /\ j <= n /\ n < SEND_RETRY_COUNT
      BY <2>2, <2>4, <2>6, <3>2, Zenon
    <3>4. k = j \/ k = j + 1
      BY <2>5, <3>2, Zenon
    <3>5. /\ j <= n + 1 /\ j <= SEND_RETRY_COUNT
          /\ j + 1 <= n + 1 /\ j + 1 <= SEND_RETRY_COUNT
      BY <3>1, <3>3, OneMore, Zenon
    <3>6. k <= n + 1 /\ k <= SEND_RETRY_COUNT
      BY <3>4, <3>5, Zenon
    <3> QED
      BY <3>2, <3>6, Zenon
  <2> QED
    BY <2>1, <2>5, <2>7, Zenon
<1>16. \A q \in Peer, i \in PacketIDs : /\ IsFiniteSet(Carriers(q, i)')
                                         /\ Cardinality(Carriers(q, i)') <= SEND_RETRY_COUNT
  <2> SUFFICES ASSUME NEW q \in Peer, NEW i \in PacketIDs
               PROVE  /\ IsFiniteSet(Carriers(q, i)')
                      /\ Cardinality(Carriers(q, i)') <= SEND_RETRY_COUNT
    BY Zenon
  <2>1. CASE q # p \/ i \notin Ids(queue)
    BY <1>13, <1>14, <2>1, Zenon
  <2>2. CASE q = p /\ i \in Ids(queue)
    BY <1>15, <2>2, Zenon DEF Ids
  <2> QED
    BY <2>1, <2>2, Zenon
<1>17. ASSUME NEW q \in Peer, NEW o \in outbox'[q]
       PROVE  Cardinality(Carriers(q, o.id)') <= o.sendCount
  <2>1. CASE q # p
    <3>1. o \in outbox[q] /\ o.id \in PacketIDs
      BY <1>7, <1>17, <2>1, PacketIs, Zenon DEF TypeOK
    <3>2. Carriers(q, o.id)' = Carriers(q, o.id)
      BY <1>14, <2>1, <3>1, Zenon
    <3>3. Cardinality(Carriers(q, o.id)) <= o.sendCount
      BY <3>1, Zenon DEF AttemptsCounted
    <3> QED
      BY <3>2, <3>3, Zenon
  <2>2. CASE q = p /\ \E x \in queue : o.id = x.id /\ o.sendCount = x.sendCount + 1
    BY <1>15, <2>2, Zenon
  <2>3. CASE q = p /\ o \in outbox[p] /\ o \notin queue
    <3>1. o.id \notin Ids(queue)
      <4> SUFFICES ASSUME NEW x \in queue, x.id = o.id PROVE FALSE
        BY Zenon DEF Ids
      <4>1. x \in outbox[p]
        BY <1>4, Zenon
      <4>2. x = o
        BY <1>8, <2>3, <4>1, Zenon DEF Once
      <4> QED
        BY <2>3, <4>2, Zenon
    <3>2. Carriers(p, o.id)' = Carriers(p, o.id)
      BY <1>5, <1>14, <2>3, <3>1, Zenon
    <3> QED
      BY <2>3, <3>2, Zenon DEF AttemptsCounted
  <2> QED
    BY <1>9, <1>17, <2>1, <2>2, <2>3, Zenon
<1>18. \A q \in Peer : Once(outbox'[q])
  BY <1>7, <1>8, <1>10, Zenon
<1> QED
  BY <1>12, <1>16, <1>17, <1>18, Zenon DEF AttemptsCounted, RetriesBounded, Once

\* Every step keeps the counts of attempts.
LEMMA AttemptsStep ==
  ASSUME LinkInv, TypeOK', AttemptsCounted, [Next]_vars
  PROVE  AttemptsCounted'
<1> DEFINE Kept(p) == \A o \in outbox'[p] :
             \/ \E x \in outbox[p] : x.id = o.id /\ x.sendCount = o.sendCount
             \/ nextPacket[p] <= o.id
<1>0. TypeOK /\ OutboxReliable /\ FromSent /\ IdsUsedOnce
  BY Zenon DEF LinkInv
<1>t. DOMAIN outbox = Peer
  BY <1>0, Zenon DEF TypeOK
<1>1. \A p \in Peer : nextPacket[p] <= nextPacket'[p]
  BY <1>0, SentGrows, Zenon
<1>2. \A p \in Peer : Once(outbox[p])
  BY Zenon DEF AttemptsCounted, Once
<1>3. ASSUME \A m \in wire' : m \in wire \/ m.packets = {},
             \A p \in Peer : Once(outbox'[p]) /\ Kept(p)
      PROVE  AttemptsCounted'
  BY <1>0, <1>1, <1>3, AttemptsKept, Zenon
<1>4. ASSUME \A m \in wire' : m \in wire \/ m.packets = {},
             \A p \in Peer : outbox'[p] \subseteq outbox[p]
      PROVE  AttemptsCounted'
  <2>1. \A p \in Peer : Once(outbox'[p]) /\ Kept(p)
    BY <1>2, <1>4, Zenon DEF Once
  <2> QED
    BY <1>3, <1>4, <2>1, Zenon
<1> HIDE DEF Kept
<1>5. ASSUME UNCHANGED <<outbox, wire>> PROVE AttemptsCounted'
  <2>1. \A p \in Peer : outbox'[p] \subseteq outbox[p]
    BY <1>5, Zenon
  <2> QED
    BY <1>4, <1>5, <2>1, Zenon
<1>6. ASSUME NEW p \in Peer, Enqueue(p) PROVE AttemptsCounted'
  <2>1. PICK c, parts, options : EnqueueEffect(p, c, parts, options)
    BY <1>0, <1>6, EnqueueIsEffect, Zenon
  <2>2. wire' = wire
    BY <1>6, Frames, ZenonT(40)
  <2>3. \A o \in outbox[p] : o.id < c /\ o.id \in Int /\ c \in Int
    <3> SUFFICES ASSUME NEW o \in outbox[p] PROVE o.id < c /\ o.id \in Int /\ c \in Int
      BY Zenon
    <3>1. PICK m \in sent[p] : o.id \in m.parts
      BY <1>0, Zenon DEF FromSent
    <3>2. o.id < nextPacket[p]
      BY <1>0, <3>1, ZenonT(40) DEF IdsUsedOnce
    <3>3. o.id \in Int
      BY <1>0, PacketIs, CountIs, Zenon DEF TypeOK
    <3> QED
      BY <2>1, <3>2, <3>3, NotBoth, CountIs, Zenon DEF EnqueueEffect
  <2>4. outbox' = [outbox EXCEPT ![p] = @ \cup NewPackets(parts, options)]
    BY <2>1, Zenon DEF EnqueueEffect, NewPackets
  <2>5. \A q \in Peer : q # p => outbox'[q] = outbox[q]
    BY <1>t, <2>4, Zenon
  <2>6. PICK new : /\ new = NewPackets(parts, options)
                   /\ outbox'[p] = outbox[p] \cup new
    BY <1>t, <2>4, ZenonT(40)
  <2>7. \A o \in new : c <= o.id /\ o.id \in Int
    <3>1. \A i \in parts : c <= i /\ i \in Int
      BY <2>1, CountIs, Zenon DEF EnqueueEffect
    <3> QED
      BY <2>6, <3>1, PacketsOf, Zenon
  <2>8. \A o, x \in new : o.id = x.id => o = x
    BY <2>6, PacketsOf, Zenon
  <2>9. \A o \in outbox[p], x \in new : o.id # x.id
    BY <2>3, <2>7, SMTT(30)
  <2>10. Once(outbox'[p])
    BY <1>2, <2>6, <2>8, <2>9, Zenon DEF Once
  <2>11. Kept(p)
    <3>1. c = nextPacket[p]
      BY <2>1, Zenon DEF EnqueueEffect
    <3> QED
      BY <2>6, <2>7, <3>1, Zenon DEF Kept
  <2>12. \A q \in Peer : Once(outbox'[q]) /\ Kept(q)
    BY <1>2, <2>5, <2>10, <2>11, Zenon DEF Kept
  <2> QED
    BY <1>3, <2>2, <2>12, Zenon
<1>7. ASSUME NEW p \in Peer, SendDatagram(p) PROVE AttemptsCounted'
  BY <1>0, <1>7, SendAttempts, Zenon
<1>8. ASSUME NEW p \in Peer, GiveUp(p) \/ WriteError(p) \/ ReadCorrupt(p) PROVE AttemptsCounted'
  <2>1. wire' = wire /\ outbox' = [outbox EXCEPT ![p] = {}]
    BY <1>8, Frames, Zenon DEF Reset
  <2>2. \A q \in Peer : outbox'[q] \subseteq outbox[q]
    BY <1>t, <2>1, Zenon
  <2> QED
    BY <1>4, <2>1, <2>2, Zenon
<1>9. ASSUME NEW p \in Peer, SendAckgram(p) PROVE AttemptsCounted'
  <2>1. outbox' = outbox
    BY <1>9, Frames, Zenon
  <2> DEFINE m0 == [from |-> p, id |-> nextDatagram[p], data |-> FALSE, listed |-> {},
                    packets |-> {}, acks |-> acks[p], nacks |-> nacks[p]]
  <2>2. wire' = wire \cup {m0} /\ m0.packets = {}
    BY <1>9, Zenon DEF SendAckgram
  <2> HIDE DEF m0
  <2>3. \A q \in Peer : outbox'[q] \subseteq outbox[q]
    BY <2>1, SMTT(30)
  <2> QED
    BY <1>4, <2>2, <2>3, Zenon
<1>10. ASSUME NEW p \in Peer, RtoElapses(p) \/ ReadNacks(p) PROVE AttemptsCounted'
  <2>1. wire' = wire
    BY <1>10, Frames, Zenon
  <2>2. /\ Once(outbox'[p])
        /\ \A o \in outbox'[p] : \E x \in outbox[p] : x.id = o.id /\ x.sendCount = o.sendCount
        /\ \A q \in Peer : q # p => outbox'[q] = outbox[q]
    BY <1>0, <1>2, <1>10, OutboxRewritten, Zenon
  <2>3. \A q \in Peer : Once(outbox'[q]) /\ Kept(q)
    BY <1>2, <2>2, Zenon DEF Kept
  <2> QED
    BY <1>3, <2>1, <2>3, Zenon
<1>11. ASSUME NEW p \in Peer, ReadAcks(p) PROVE AttemptsCounted'
  <2>1. wire' = wire
    BY <1>11, Frames, Zenon
  <2>2. PICK ids : outbox' = [outbox EXCEPT ![p] = {o \in @ : o.id \notin ids}]
    BY <1>11, Zenon DEF ReadAcks
  <2>3. \A q \in Peer : outbox'[q] \subseteq outbox[q]
    BY <1>t, <2>2, Zenon
  <2> QED
    BY <1>4, <2>1, <2>3, Zenon
<1>12. ASSUME NEW p \in Peer,
              \/ UpdateInFlight(p) \/ UpdateHistory(p) \/ UpdateReceipts(p)
              \/ ReadDatagram(p) \/ ReadPacket(p)
       PROVE  AttemptsCounted'
  BY <1>5, <1>12, Frames, Zenon DEF outVars
<1>13. ASSUME Lose PROVE AttemptsCounted'
  <2>1. wire' \subseteq wire /\ outbox' = outbox
    BY <1>13, Zenon DEF Lose, outVars
  <2>2. \A q \in Peer : outbox'[q] \subseteq outbox[q]
    BY <2>1, Zenon
  <2> QED
    BY <1>4, <2>1, <2>2, Zenon
<1>14. ASSUME UNCHANGED vars PROVE AttemptsCounted'
  BY <1>5, <1>14, Zenon DEF vars, outVars
<1> QED
  BY <1>6, <1>7, <1>8, <1>9, <1>10, <1>11, <1>12, <1>13, <1>14, ZenonT(40) DEF Next

\* MakeDatagram gives a packet up rather than send it more than SEND_RETRY_COUNT
\* times, whatever acks and nacks are lost, late or repeated.
THEOREM AttemptsAreBounded ==
  ASSUME OnlyReliable
  PROVE  Spec => []RetriesBounded
<1>1. Init => AttemptsCounted
  <2> SUFFICES ASSUME Init PROVE AttemptsCounted
    BY Zenon
  <2>1. \A p \in Peer, i \in PacketIDs : Carriers(p, i) = {}
    BY Zenon DEF Init, Carriers
  <2>2. RetriesBounded
    BY <2>1, FS_EmptySet, LimitAssumption, SMTT(30) DEF RetriesBounded
  <2>3. /\ \A p \in Peer : outbox[p] = {}
        /\ wire = {}
    BY Zenon DEF Init
  <2>4. \A p \in Peer, i \in PacketIDs : IsFiniteSet(Carriers(p, i))
    BY <2>1, FS_EmptySet, Zenon
  <2> QED
    BY <2>2, <2>3, <2>4, Zenon DEF AttemptsCounted
<1>2. LinkInv /\ LinkInv' /\ AttemptsCounted /\ [Next]_vars => AttemptsCounted'
  BY AttemptsStep, Zenon DEF LinkInv
<1>3. AttemptsCounted => RetriesBounded
  BY Zenon DEF AttemptsCounted
<1> QED
  BY <1>1, <1>2, <1>3, LinkInvariant, PTL DEF Spec
=============================================================================
