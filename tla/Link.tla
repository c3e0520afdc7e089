-------------------------------- MODULE Link --------------------------------
(***************************************************************************)
(* An established connection between two peers: on each side one           *)
(* RemotePeer slot with its outbox and sentbox, the DatagramBuilder that   *)
(* fills datagrams from the outbox, the CongestionControl that numbers,    *)
(* accounts for and deduplicates them, and the ReceiptTracker.  Between    *)
(* the sides lies UDP: a datagram may be lost, duplicated and overtaken.   *)
(*                                                                         *)
(* Three threads per peer take the steps: the application enqueues, the    *)
(* PacketQueue worker writes and expires, the socket thread reads.  The    *)
(* worker holds RemotePeer::lock for its whole turn, the read handler only *)
(* for parts of it, so reading a datagram takes several steps here.        *)
(*                                                                         *)
(* Time is abstract: a deadline that has been set may pass at any later    *)
(* moment.  The contents of a packet are its identity; the bytes of a      *)
(* packet, which drive the send budgets, are kept.                         *)
(***************************************************************************)
EXTENDS Integers, FiniteSets, FiniteSetsExt, Sequences

CONSTANTS
  Peer,              \* the two ends of the connection
  Workload,          \* Workload[p]: the messages the application at p may send
  MTU,               \* cfg::MTU, the bytes of one datagram
  HEADER,            \* bytes of a serialized DatagramHeader
  SEND_RETRY_COUNT,  \* cfg::SEND_RETRY_COUNT
  ACK_BATCH,         \* pending (n)acks above which an ackgram is not delayed
  HistoryExpires,    \* may the receive history forget ids that still travel?
  MaxPackets,        \* bound on the packet ids of a peer
  MaxDatagrams,      \* bound on the datagrams of both peers together
  MaxLoss            \* bound on the datagrams removed from the wire

PacketIDs == 0 .. MaxPackets - 1
DatagramIDs == 0 .. MaxDatagrams - 1

PacketOptions == {"RELIABLE", "WITH_RECEIPT"}

\* A call of Peer::Send: the options, the number of segments the message is
\* cut into and the bytes of each resulting blob.
Message == [options : SUBSET PacketOptions,
            segments : Nat \ {0}, length : Nat \ {0}]

ASSUME PeerAssumption == \E a, b \in Peer : a # b /\ Peer = {a, b}
ASSUME SizeAssumption == MTU \in Nat \ {0} /\ HEADER \in Nat \ {0}
ASSUME LimitAssumption ==
  /\ SEND_RETRY_COUNT \in Nat \ {0}
  /\ ACK_BATCH \in Nat
  /\ MaxPackets \in Nat /\ MaxDatagrams \in Nat /\ MaxLoss \in Nat
  /\ HistoryExpires \in BOOLEAN
ASSUME WorkloadAssumption == \A p \in Peer : Workload[p] \subseteq Message

VARIABLES
  up,               \* the slot is active and its handshake done
  nextPacket,       \* m_nextPacket
  nextDatagram,     \* m_nextDatagram
  outbox,           \* packets to be sent or not yet acknowledged
  sentbox,          \* datagrams sent and not yet (n)acknowledged
  outgoing,         \* keys of m_outgoing, the datagrams in flight
  bytesInFlight,    \* m_bytesInFlight
  tracker,          \* m_tracker, packets whose receipt is due
  splits,           \* m_splits, the unacknowledged segments of split packets
  remoteDatagram,   \* m_remoteDatagram, the next datagram id expected
  datagramHistory,  \* m_datagramHistory
  packetHistory,    \* m_packetHistory
  acks, nacks,      \* m_acks, m_nacks
  reading,          \* what the read handler has still to process
  wire,             \* datagrams travelling between the peers
  lost,             \* number of datagrams the network has dropped
  blobLength,       \* history: bytes of each packet blob
  datagramBytes,    \* history: bytes of each datagram written
  sent,             \* history: the calls of Send and the ids they were given
  receipts,         \* history: receipts posted to the application
  delivered         \* history: how often each packet passed deduplication

outVars == <<nextPacket, nextDatagram, outbox, sentbox, outgoing,
             bytesInFlight, tracker, splits>>
inVars == <<remoteDatagram, datagramHistory, packetHistory, acks, nacks>>
logVars == <<blobLength, datagramBytes, sent, receipts, delivered>>
vars == <<up, outVars, inVars, reading, wire, lost, logVars>>

\* PacketQueue::OutgoingPacket; sendNext is either past or still to come.
OutgoingPacket == [id : PacketIDs, options : SUBSET PacketOptions,
                   sendCount : Nat, sendNext : {"past", "future"}]

\* PacketQueue::OutgoingDatagram.
OutgoingDatagram == [id : DatagramIDs, packets : SUBSET PacketIDs]

\* A datagram on the wire.  `listed' are the packets whose lengths add up to
\* dataLength in its header, `packets' those whose blobs follow the header.
Datagram == [from : Peer, id : DatagramIDs, data : BOOLEAN,
             listed : SUBSET PacketIDs, packets : SUBSET PacketIDs,
             acks : SUBSET DatagramIDs, nacks : SUBSET DatagramIDs]

Receipt == [id : PacketIDs, result : {"ACKED", "LOST"}]
SentMessage == [id : PacketIDs, parts : SUBSET PacketIDs,
                options : SUBSET PacketOptions]
SplitGroup == [container : PacketIDs, segments : SUBSET PacketIDs]

HasFlag(o, test) == test \in o.options

Other(p) == CHOOSE q \in Peer : q # p
Ids(S) == {o.id : o \in S}
Total(length, S) == MapThenSumSet(LAMBDA x : length[x], S)
Bytes(p, S) == Total(blobLength[p], S)
WireBytes(p, S) == Total(datagramBytes[p], S)

\* What a read handler still has to do with a datagram: the parts of it that
\* are not yet processed.
Rest(a, n, i) == [acks |-> a, nacks |-> n, packets |-> i]
Idle == Rest({}, {}, {})
Rests == [acks : SUBSET DatagramIDs, nacks : SUBSET DatagramIDs,
          packets : SUBSET PacketIDs]

Init ==
  /\ up = [p \in Peer |-> TRUE]
  /\ nextPacket = [p \in Peer |-> 0]
  /\ nextDatagram = [p \in Peer |-> 0]
  /\ outbox = [p \in Peer |-> {}]
  /\ sentbox = [p \in Peer |-> {}]
  /\ outgoing = [p \in Peer |-> {}]
  /\ bytesInFlight = [p \in Peer |-> 0]
  /\ tracker = [p \in Peer |-> {}]
  /\ splits = [p \in Peer |-> {}]
  /\ remoteDatagram = [p \in Peer |-> 0]
  /\ datagramHistory = [p \in Peer |-> {}]
  /\ packetHistory = [p \in Peer |-> {}]
  /\ acks = [p \in Peer |-> {}]
  /\ nacks = [p \in Peer |-> {}]
  /\ reading = [p \in Peer |-> Idle]
  /\ wire = {}
  /\ lost = 0
  /\ blobLength = [p \in Peer |-> [i \in PacketIDs |-> 0]]
  /\ datagramBytes = [p \in Peer |-> [d \in DatagramIDs |-> 0]]
  /\ sent = [p \in Peer |-> {}]
  /\ receipts = [p \in Peer |-> {}]
  /\ delivered = [p \in Peer |-> [i \in PacketIDs |-> 0]]

(***************************************************************************)
(* The application thread.                                                 *)
(***************************************************************************)

\* Peer::Send and PacketQueue::EnqueueOutgoing.  A message of one segment
\* travels under the container's id; a longer one takes a fresh id for each
\* segment and its segments become reliable whatever the caller asked for.
EnqueueOutgoing(p, m) ==
  LET container == nextPacket[p]
      parts == IF m.segments = 1 THEN {container}
               ELSE container + 1 .. container + m.segments
      last == IF m.segments = 1 THEN container ELSE container + m.segments
      options == IF m.segments = 1 THEN m.options ELSE m.options \cup {"RELIABLE"}
  IN
  /\ up[p]
  /\ last < MaxPackets
  /\ nextPacket' = [nextPacket EXCEPT ![p] = last + 1]
  /\ outbox' = [outbox EXCEPT ![p] = @ \cup
       {[id |-> i, options |-> options,
         sendCount |-> 0, sendNext |-> "past"] : i \in parts}]
  /\ tracker' = [tracker EXCEPT ![p] =
       IF HasFlag(m, "WITH_RECEIPT") THEN @ \cup {container} ELSE @]
  /\ splits' = [splits EXCEPT ![p] =
       IF HasFlag(m, "WITH_RECEIPT") /\ m.segments > 1
       THEN @ \cup {[container |-> container, segments |-> parts]} ELSE @]
  /\ blobLength' = [blobLength EXCEPT ![p] =
       [i \in PacketIDs |-> IF i \in parts THEN m.length ELSE @[i]]]
  /\ sent' = [sent EXCEPT ![p] = @ \cup
       {[id |-> container, parts |-> parts, options |-> options]}]
  /\ UNCHANGED <<up, nextDatagram, sentbox, outgoing, bytesInFlight, inVars,
                 reading, wire, lost, datagramBytes, receipts, delivered>>

(***************************************************************************)
(* The worker thread.  Each of the jobs of a turn of ThreadWorker may find *)
(* nothing to do (no deadline passed, a write still pending), so each is   *)
(* an action of its own.                                                   *)
(***************************************************************************)

\* DisconnectImmediate on an established connection: OnDisconnect tells the
\* application, RemotePeer::Reset empties the slot.  The peer is not told.
Reset(p) ==
  /\ up' = [up EXCEPT ![p] = FALSE]
  /\ outbox' = [outbox EXCEPT ![p] = {}]
  /\ sentbox' = [sentbox EXCEPT ![p] = {}]
  /\ outgoing' = [outgoing EXCEPT ![p] = {}]
  /\ bytesInFlight' = [bytesInFlight EXCEPT ![p] = 0]
  /\ tracker' = [tracker EXCEPT ![p] = {}]
  /\ splits' = [splits EXCEPT ![p] = {}]
  /\ datagramHistory' = [datagramHistory EXCEPT ![p] = {}]
  /\ packetHistory' = [packetHistory EXCEPT ![p] = {}]
  /\ acks' = [acks EXCEPT ![p] = {}]
  /\ nacks' = [nacks EXCEPT ![p] = {}]
  /\ UNCHANGED <<nextPacket, remoteDatagram, reading, wire, lost, blobLength,
                 datagramBytes, sent, delivered>>

\* GetRetransmissionBudget and GetTransmissionBudget.  The congestion window
\* never falls below one MTU, so it never is the smaller of the two limits in
\* GetTransmissionBudget (theorem BudgetsShareMTU in CongestionWindow_proofs).
RetransmissionBudget(p) == IF bytesInFlight[p] < MTU THEN bytesInFlight[p] ELSE MTU
TransmissionBudget(p) == MTU - RetransmissionBudget(p)

\* The slot is connected and the bound on datagrams not yet reached.
CanWrite(p) == up[p] /\ nextDatagram[p] + nextDatagram[Other(p)] < MaxDatagrams

\* GetNeedsToSendAcks: many (n)acks are pending, so they go out first.
AcksOverdue(p) == Cardinality(acks[p]) + Cardinality(nacks[p]) > ACK_BATCH

\* Mutant of AcksPending: only a full batch leaves.
AcksPendingBatch(p) == AcksOverdue(p)

\* GetNeedsToSendAcks: something is pending, and its delay may have passed.
AcksPending(p) == acks[p] # {} \/ nacks[p] # {}

\* GetQueuedPacket with wantResend: the first packet of the outbox, which is
\* in the order of ids, that was sent before, is due again and fits.
IsResendPick(p, again) ==
  LET ready == {o \in outbox[p] : /\ o.sendCount > 0 /\ o.sendNext = "past"
                                  /\ blobLength[p][o.id] <= RetransmissionBudget(p)}
  IN IF ready = {} THEN again = {}
     ELSE \E o \in ready : again = {o} /\ \A x \in ready : o.id <= x.id

\* The loop over Datagram_AddNewPacket: one pass over the unsent packets takes
\* each that still fits into what the packets taken before it left over.
IsNewPick(p, fresh) ==
  LET ready == {o \in outbox[p] : o.sendCount = 0 /\ o.sendNext = "past"}
  IN /\ fresh \subseteq ready
     /\ \A o \in ready :
          o \in fresh <=> Bytes(p, {i \in Ids(fresh) : i < o.id}) + blobLength[p][o.id]
                            <= TransmissionBudget(p)

\* The packet o with another count of attempts and another deadline.
Again(o, sendCount, sendNext) ==
  [id |-> o.id, options |-> o.options, sendCount |-> sendCount, sendNext |-> sendNext]

\* Mutants of Touched: attempts counted down, attempts not counted up.
TouchedDown(o) == Again(o, o.sendCount - 1, "future")
TouchedOnce(o) == Again(o, 1, "future")

\* Advances a packet that is being put into a datagram.
Touched(o) == Again(o, o.sendCount + 1, "future")

\* The packets of S in the order of their ids, which is that of the outbox.
InOrder(S) ==
  [k \in 1 .. Cardinality(S) |->
     CHOOSE o \in S : Cardinality({x \in S : x.id <= o.id}) = k]

\* The loop that writes the blobs while it erases unreliable packets from the
\* outbox: sendQueue points into a vector, and an erasure moves every later
\* element one place down, under the pointers.  A place behind the new end
\* holds a moved-from packet, whose blob is empty.
WritePass(box, again, fresh) ==
  LET vector == InOrder(box)
      n == Len(vector)
      queue == InOrder(again) \o InOrder(fresh)
      place(o) == CHOOSE i \in 1 .. n : vector[i].id = o.id
      pass[k \in 0 .. Len(queue)] ==
        IF k = 0 THEN [memory |-> vector, size |-> n, written |-> {}]
        ELSE LET s == pass[k - 1]
                 at == place(queue[k])
                 o == s.memory[at]
                 hit == IF HasFlag(o, "RELIABLE") THEN {}
                        ELSE {i \in 1 .. s.size : s.memory[i].id = o.id}
             IN [memory |-> [i \in 1 .. n |->
                               IF i < s.size /\ \E j \in hit : j <= i
                               THEN s.memory[i + 1] ELSE s.memory[i]],
                 size |-> s.size - Cardinality(hit),
                 written |-> IF at <= s.size THEN s.written \cup {o.id}
                             ELSE s.written]
      end == pass[Len(queue)]
  IN [outbox |-> {end.memory[i] : i \in 1 .. end.size}, packets |-> end.written]

\* Mutants of Written: the blob to resend is left out, every packet is erased.
WrittenFresh(box, again, fresh) == [outbox |-> box, packets |-> Ids(fresh)]
WrittenErased(box, again, fresh) ==
  [outbox |-> box \ (again \cup fresh), packets |-> Ids(again \cup fresh)]

\* What MakeDatagram leaves in the outbox and puts into the blob.  When no
\* packet of the datagram is unreliable nothing is erased in the loop.
Written(box, again, fresh) ==
  IF \A o \in again \cup fresh : HasFlag(o, "RELIABLE")
  THEN [outbox |-> box, packets |-> Ids(again \cup fresh)]
  ELSE WritePass(box, again, fresh)

\* DoWriteCycle with MakeDatagram: fill a datagram, remember it in the
\* sentbox, count its bytes as in flight and hand it to the socket.
SendDatagram(p) ==
  /\ CanWrite(p)
  /\ ~ AcksOverdue(p)
  /\ \E again, fresh \in SUBSET outbox[p] :
       LET d == nextDatagram[p]
           queue == again \cup fresh
           box == (outbox[p] \ queue) \cup {Touched(o) : o \in queue}
           out == Written(box, {Touched(o) : o \in again}, {Touched(o) : o \in fresh})
           bytes == HEADER + Bytes(p, out.packets)
       IN
       /\ IsResendPick(p, again) /\ IsNewPick(p, fresh)
       /\ queue # {}
       /\ \A o \in queue : o.sendCount < SEND_RETRY_COUNT
       /\ nextDatagram' = [nextDatagram EXCEPT ![p] = d + 1]
       /\ outbox' = [outbox EXCEPT ![p] = out.outbox]
       /\ sentbox' = [sentbox EXCEPT ![p] =
            @ \cup {[id |-> d, packets |-> Ids(queue)]}]
       /\ wire' = wire \cup {[from |-> p, id |-> d, data |-> TRUE,
                              listed |-> Ids(queue), packets |-> out.packets,
                              acks |-> {}, nacks |-> {}]}
       /\ outgoing' = [outgoing EXCEPT ![p] = @ \cup {d}]
       /\ bytesInFlight' = [bytesInFlight EXCEPT ![p] = @ + bytes]
       /\ datagramBytes' = [datagramBytes EXCEPT ![p][d] = bytes]
  /\ UNCHANGED <<up, nextPacket, tracker, splits, inVars, reading, lost,
                 blobLength, sent, receipts, delivered>>

\* MakeDatagram when the packet to resend has used up its attempts: a LOST
\* receipt under the packet's own id, then the connection is given up.  The
\* datagram id has been taken already.
GiveUp(p) ==
  /\ CanWrite(p)
  /\ ~ AcksOverdue(p)
  /\ \E again \in SUBSET outbox[p] :
       /\ IsResendPick(p, again)
       /\ \E o \in again :
            /\ o.sendCount >= SEND_RETRY_COUNT
            /\ receipts' = [receipts EXCEPT ![p] =
                 IF HasFlag(o, "WITH_RECEIPT")
                 THEN @ \cup {[id |-> o.id, result |-> "LOST"]} ELSE @]
  /\ nextDatagram' = [nextDatagram EXCEPT ![p] = @ + 1]
  /\ Reset(p)

\* DoWriteCycle with MakeAckgram: all pending (n)acks leave in one datagram.
\* An ackgram is in flight and in the sentbox like any other datagram.
SendAckgram(p) ==
  LET d == nextDatagram[p] IN
  /\ CanWrite(p)
  /\ AcksPending(p)
  /\ nextDatagram' = [nextDatagram EXCEPT ![p] = d + 1]
  /\ sentbox' = [sentbox EXCEPT ![p] = @ \cup {[id |-> d, packets |-> {}]}]
  /\ wire' = wire \cup {[from |-> p, id |-> d, data |-> FALSE,
                         listed |-> {}, packets |-> {},
                         acks |-> acks[p], nacks |-> nacks[p]]}
  /\ outgoing' = [outgoing EXCEPT ![p] = @ \cup {d}]
  /\ bytesInFlight' = [bytesInFlight EXCEPT ![p] = @ + HEADER]
  /\ datagramBytes' = [datagramBytes EXCEPT ![p][d] = HEADER]
  /\ acks' = [acks EXCEPT ![p] = {}]
  /\ nacks' = [nacks EXCEPT ![p] = {}]
  /\ UNCHANGED <<up, nextPacket, outbox, tracker, splits, remoteDatagram,
                 datagramHistory, packetHistory, reading, lost, blobLength,
                 sent, receipts, delivered>>

\* The delay set by GetRetransmissionRTO passes for a packet sent before.
RtoElapses(p) ==
  /\ \E o \in outbox[p] :
       /\ o.sendNext = "future"
       /\ outbox' = [outbox EXCEPT ![p] = (@ \ {o}) \cup {Again(o, o.sendCount, "past")}]
  /\ UNCHANGED <<up, nextPacket, nextDatagram, sentbox, outgoing, bytesInFlight,
                 tracker, splits, inVars, reading, wire, lost, logVars>>

\* Mutant of LeaveFlight: the bytes are not subtracted.
LeaveFlightCounted(p, ds) ==
  /\ outgoing' = [outgoing EXCEPT ![p] = @ \ ds]
  /\ UNCHANGED bytesInFlight

\* The datagrams ds are erased from m_outgoing.
LeaveFlight(p, ds) ==
  /\ outgoing' = [outgoing EXCEPT ![p] = @ \ ds]
  /\ bytesInFlight' = [bytesInFlight EXCEPT ![p] = @ - WireBytes(p, ds)]

\* CongestionControl::Update, first loop: the datagrams sent up to some moment
\* are too old to count as in flight.  Ids are in the order of sending.
UpdateInFlight(p) ==
  /\ \E d \in outgoing[p] : LeaveFlight(p, {x \in outgoing[p] : x <= d})
  /\ UNCHANGED <<up, nextPacket, nextDatagram, outbox, sentbox, tracker, splits,
                 inVars, reading, wire, lost, logVars>>

\* CongestionControl::Update, second and third loop: ids received ten seconds
\* ago are forgotten, by which time the handler that read them is done and
\* their acks have left.  Without HistoryExpires nothing travels that long.
\* The guard on delivered bounds the copies of one packet.
UpdateHistory(p) ==
  /\ HistoryExpires
  /\ reading[p] = Idle /\ ~ AcksPending(p)
  /\ \/ \E d \in datagramHistory[p] :
          /\ datagramHistory' = [datagramHistory EXCEPT ![p] = @ \ {d}]
          /\ UNCHANGED packetHistory
     \/ \E i \in packetHistory[p] :
          /\ delivered[p][i] < 2
          /\ packetHistory' = [packetHistory EXCEPT ![p] = @ \ {i}]
          /\ UNCHANGED datagramHistory
  /\ UNCHANGED <<up, outVars, remoteDatagram, acks, nacks, reading, wire, lost, logVars>>

\* ReceiptTracker::Update: datagrams that were never (n)acked are discarded and
\* the receipts of their packets that are still due are LOST.  An ackgram is
\* discarded earlier after its sending than a datagram with packets.
UpdateReceipts(p) ==
  /\ \E s \in sentbox[p] :
       LET old == {x \in sentbox[p] : /\ x.id <= s.id
                                      /\ s.packets # {} \/ x.packets = {}}
           gone == tracker[p] \cap UNION {x.packets : x \in old}
       IN
       /\ sentbox' = [sentbox EXCEPT ![p] = @ \ old]
       /\ tracker' = [tracker EXCEPT ![p] = @ \ gone]
       /\ receipts' = [receipts EXCEPT ![p] =
            @ \cup {[id |-> i, result |-> "LOST"] : i \in gone}]
  /\ UNCHANGED <<up, nextPacket, nextDatagram, outbox, outgoing, bytesInFlight,
                 splits, inVars, reading, wire, lost, blobLength, datagramBytes,
                 sent, delivered>>

(***************************************************************************)
(* The socket thread.                                                      *)
(***************************************************************************)

\* OnWriteFinished with an error gives the connection up.
WriteError(p) ==
  /\ up[p]
  /\ outgoing[p] # {}
  /\ Reset(p)
  /\ UNCHANGED <<nextDatagram, receipts>>

\* The checks OnReadFinished makes on the header of a datagram: the payload
\* must be complete, and header and payload together within the MTU.
Acceptable(m) ==
  LET dataLength == Bytes(m.from, m.listed) IN
  m.data => /\ dataLength <= Bytes(m.from, m.packets)
            /\ dataLength + HEADER <= MTU

\* OnReadFinished for a datagram that fails a check.
ReadCorrupt(p) ==
  /\ up[p] /\ reading[p] = Idle
  /\ \E m \in wire : m.from = Other(p) /\ ~ Acceptable(m)
  /\ Reset(p)
  /\ UNCHANGED <<nextDatagram, receipts>>

\* OnReadFinished up to NotifyReceivedDatagram for a datagram seen for the
\* first time: a gap in the ids is nacked, and a data datagram is acked, before
\* any of its packets is processed.  A copy of a datagram in the history is
\* ignored, which changes nothing.
ReadDatagram(p) ==
  /\ up[p] /\ reading[p] = Idle
  /\ \E m \in wire :
       /\ m.from = Other(p)
       /\ Acceptable(m)
       /\ m.id \notin datagramHistory[p]
       /\ datagramHistory' = [datagramHistory EXCEPT ![p] = @ \cup {m.id}]
       /\ nacks' = [nacks EXCEPT ![p] = @ \cup (remoteDatagram[p] .. m.id - 1)]
       /\ acks' = [acks EXCEPT ![p] = IF m.data THEN @ \cup {m.id} ELSE @]
       /\ remoteDatagram' = [remoteDatagram EXCEPT ![p] = m.id + 1]
       /\ reading' = [reading EXCEPT ![p] = Rest(m.acks, m.nacks, m.packets)]
  /\ UNCHANGED <<up, outVars, packetHistory, wire, lost, logVars>>

\* Mutant of Named: acknowledgements are cumulative.
NamedUpTo(p, list) == {s \in sentbox[p] : \E d \in list : s.id <= d}

\* The sent datagrams that a list of (n)acks names.
Named(p, list) == {s \in sentbox[p] : s.id \in list}

\* Mutant of Confirmed: a receipt already given is not left out.
ConfirmedAgain(p, ids) == ids

\* ReceiptTracker::Acknowledge: the receipts that are still due among those of
\* the packets `ids' and of the split packets whose last segments they are.
Confirmed(p, ids) ==
  tracker[p] \cap
    (ids \cup {g.container : g \in {g \in splits[p] : g.segments \subseteq ids}})

\* HandleAcknowledgements with ReceiptTracker::Acknowledge for every packet of
\* the acknowledged datagrams: a split packet is acknowledged with the last of
\* its segments.
ReadAcks(p) ==
  LET found == Named(p, reading[p].acks)
      ids == UNION {s.packets : s \in found}
  IN
  /\ up[p] /\ reading[p].acks # {}
  /\ sentbox' = [sentbox EXCEPT ![p] = @ \ found]
  /\ outbox' = [outbox EXCEPT ![p] = {o \in @ : o.id \notin ids}]
  /\ splits' = [splits EXCEPT ![p] =
       {[container |-> g.container, segments |-> g.segments \ ids] :
          g \in {g \in @ : ~ g.segments \subseteq ids}}]
  /\ tracker' = [tracker EXCEPT ![p] = @ \ Confirmed(p, ids)]
  /\ receipts' = [receipts EXCEPT ![p] =
       @ \cup {[id |-> i, result |-> "ACKED"] : i \in Confirmed(p, ids)}]
  /\ LeaveFlight(p, outgoing[p] \cap reading[p].acks)
  /\ reading' = [reading EXCEPT ![p] = Rest({}, @.nacks, @.packets)]
  /\ UNCHANGED <<up, nextPacket, nextDatagram, inVars, wire, lost, blobLength,
                 datagramBytes, sent, delivered>>

\* HandleNonAcknowledgements: the packets of the named datagrams that are still
\* in the outbox become due at once, the datagrams leave the sentbox.
ReadNacks(p) ==
  LET found == Named(p, reading[p].nacks)
      ids == UNION {s.packets : s \in found}
  IN
  /\ up[p] /\ reading[p].acks = {} /\ reading[p].nacks # {}
  /\ sentbox' = [sentbox EXCEPT ![p] = @ \ found]
  /\ outbox' = [outbox EXCEPT ![p] =
       {IF o.id \in ids THEN Again(o, o.sendCount, "past") ELSE o : o \in @}]
  /\ reading' = [reading EXCEPT ![p] = Rest({}, {}, @.packets)]
  /\ UNCHANGED <<up, nextPacket, nextDatagram, outgoing, bytesInFlight, tracker,
                 splits, inVars, wire, lost, logVars>>

\* Mutant of IsNew: no deduplication.
IsNewAlways(p, i) == TRUE

\* Mutant of IsNew: the history is asked after the packet was entered in it.
IsNewRecorded(p, i) == i \notin packetHistory'[p]

\* NotifyReceivedPacket: the packet is not in the receive history.
IsNew(p, i) == i \notin packetHistory[p]

\* One turn of the packet loop of OnReadFinished.  A packet NotifyReceivedPacket
\* has not seen goes on to reassembly, channels and inbox; another is skipped.
\* Nothing here depends on the order of the packets inside a datagram.
ReadPacket(p) ==
  /\ up[p] /\ reading[p].acks = {} /\ reading[p].nacks = {}
  /\ \E i \in reading[p].packets :
       /\ packetHistory' = [packetHistory EXCEPT ![p] = @ \cup {i}]
       /\ delivered' = [delivered EXCEPT ![p][i] =
            IF IsNew(p, i) THEN @ + 1 ELSE @]
       /\ reading' = [reading EXCEPT ![p] = Rest({}, {}, @.packets \ {i})]
  /\ UNCHANGED <<up, outVars, remoteDatagram, datagramHistory, acks, nacks, wire,
                 lost, blobLength, datagramBytes, sent, receipts>>

(***************************************************************************)
(* The network.  A datagram stays on the wire, so it may arrive late, out  *)
(* of order and more than once; one that never is read was lost.  Lose     *)
(* matters to liveness: the socket thread will not read that datagram.     *)
(***************************************************************************)
Lose ==
  /\ lost < MaxLoss
  /\ \E m \in wire : /\ m.id \notin datagramHistory[Other(m.from)]
                     /\ wire' = wire \ {m}
  /\ lost' = lost + 1
  /\ UNCHANGED <<up, outVars, inVars, reading, logVars>>

Enqueue(p) == \E m \in Workload[p] : EnqueueOutgoing(p, m)

Next ==
  \/ \E p \in Peer :
       \/ Enqueue(p)
       \/ SendDatagram(p) \/ GiveUp(p) \/ SendAckgram(p)
       \/ RtoElapses(p) \/ UpdateInFlight(p) \/ UpdateHistory(p) \/ UpdateReceipts(p)
       \/ WriteError(p)
       \/ ReadCorrupt(p) \/ ReadDatagram(p)
       \/ ReadAcks(p) \/ ReadNacks(p) \/ ReadPacket(p)
  \/ Lose

Spec == Init /\ [][Next]_vars

\* The worker keeps ticking, so that a deadline that was set passes and is acted
\* upon, and the socket thread keeps reading; every datagram that is not lost
\* arrives.  Each step of a thread is one of finitely many it can take before
\* the next datagram or message, so none is put off for ever.  Nothing forces
\* the application to send, a write to fail or the network to lose a datagram.
Worker(p) ==
  \/ SendDatagram(p) \/ GiveUp(p) \/ SendAckgram(p)
  \/ RtoElapses(p) \/ UpdateInFlight(p) \/ UpdateReceipts(p)
SocketThread(p) ==
  \/ ReadCorrupt(p) \/ ReadDatagram(p) \/ ReadAcks(p) \/ ReadNacks(p) \/ ReadPacket(p)

Fairness == \A p \in Peer : WF_vars(Worker(p)) /\ WF_vars(SocketThread(p))

FairSpec == Spec /\ Fairness

-----------------------------------------------------------------------------
(***************************************************************************)
(* Properties.                                                             *)
(***************************************************************************)

\* The packet i reached q: it passed deduplication there, or it is in the
\* datagram q is processing, or q has closed its side.
Received(q, i) ==
  \/ delivered[q][i] > 0
  \/ i \in reading[q].packets
  \/ ~ up[q]

\* Every variable but the byte counters has its type; those are the subject of
\* BytesAccounted.
TypeOK ==
  /\ up \in [Peer -> BOOLEAN]
  /\ nextPacket \in [Peer -> 0 .. MaxPackets]
  /\ nextDatagram \in [Peer -> 0 .. MaxDatagrams]
  /\ outbox \in [Peer -> SUBSET OutgoingPacket]
  /\ sentbox \in [Peer -> SUBSET OutgoingDatagram]
  /\ outgoing \in [Peer -> SUBSET DatagramIDs]
  /\ tracker \in [Peer -> SUBSET PacketIDs]
  /\ splits \in [Peer -> SUBSET SplitGroup]
  /\ remoteDatagram \in [Peer -> 0 .. MaxDatagrams]
  /\ datagramHistory \in [Peer -> SUBSET DatagramIDs]
  /\ packetHistory \in [Peer -> SUBSET PacketIDs]
  /\ acks \in [Peer -> SUBSET DatagramIDs]
  /\ nacks \in [Peer -> SUBSET DatagramIDs]
  /\ reading \in [Peer -> Rests]
  /\ wire \subseteq Datagram
  /\ lost \in Nat
  /\ sent \in [Peer -> SUBSET SentMessage]
  /\ receipts \in [Peer -> SUBSET Receipt]
  /\ delivered \in [Peer -> [PacketIDs -> Nat]]

\* m_bytesInFlight is the sum over m_outgoing, the assertion at the end of the
\* first loop of CongestionControl::Update, however sends, acks and expiries of
\* the same datagram interleave.
BytesAccounted == \A p \in Peer : bytesInFlight[p] = WireBytes(p, outgoing[p])

\* A datagram in the sentbox lists exactly the packets whose blobs were written
\* into it, so that acknowledging it acknowledges what was received.
RecordMatchesWire ==
  \A p \in Peer : \A s \in sentbox[p] : \A m \in wire :
    m.from = p /\ m.id = s.id => m.packets = s.packets

\* OnMessageReceipt reports a message as acked only when every segment of it
\* has reached the other side.
AckedIsReceived ==
  \A p \in Peer : \A m \in sent[p] :
    [id |-> m.id, result |-> "ACKED"] \in receipts[p]
      => \A i \in m.parts : Received(Other(p), i)

\* No sequence of acks, nacks, expiries and discards takes a reliable packet
\* out of the outbox before it has reached the other side.
ReliableIsKept ==
  \A p \in Peer : \A m \in sent[p] :
    up[p] /\ HasFlag(m, "RELIABLE")
      => \A i \in m.parts : i \in Ids(outbox[p]) \/ Received(Other(p), i)

\* A packet passes NotifyReceivedPacket once, however often it is resent and
\* its datagrams are duplicated.
AtMostOnce == \A p \in Peer : \A i \in PacketIDs : delivered[p][i] <= 1

\* No message is reported both acked and lost.
ReceiptsAgree ==
  \A p \in Peer : \A r, x \in receipts[p] : r.id = x.id => r.result = x.result

\* The datagrams on the wire that carry the packet i of p.
Carriers(p, i) == {m \in wire : m.from = p /\ i \in m.packets}

\* cfg::SEND_RETRY_COUNT bounds how many datagrams carry a packet.
RetriesBounded ==
  \A p \in Peer : \A i \in PacketIDs : Cardinality(Carriers(p, i)) <= SEND_RETRY_COUNT

\* A reliable packet reaches the other side, unless the connection ends: a
\* packet that was lost in transit is resent.
ReliableArrives ==
  \A p \in Peer, i \in PacketIDs :
    (\E m \in sent[p] : HasFlag(m, "RELIABLE") /\ i \in m.parts)
      ~> (delivered[Other(p)][i] > 0 \/ ~ up[p] \/ ~ up[Other(p)])

\* The same over a network that loses nothing, although datagrams overtake one
\* another and are taken for lost when they are only late.
ArrivesUnlessLost ==
  \A p \in Peer, i \in PacketIDs :
    (\E m \in sent[p] : HasFlag(m, "RELIABLE") /\ i \in m.parts)
      ~> (delivered[Other(p)][i] > 0 \/ ~ up[p] \/ ~ up[Other(p)] \/ lost > 0)

\* A datagram that arrived with data is acknowledged, unless the side that has
\* to acknowledge it closes: MakeAckList empties the pending list.
AcksLeave == \A p \in Peer : acks[p] # {} ~> acks[p] = {}

-----------------------------------------------------------------------------
(***************************************************************************)
(* The inductive invariant behind AckedIsReceived, ReliableIsKept and      *)
(* ReceiptsAgree.  It needs traffic that is reliable throughout, so that   *)
(* nothing is erased from the outbox while a datagram is written.          *)
(***************************************************************************)

\* Every message is sent RELIABLE or is long enough to be upgraded to it.
OnlyReliable ==
  \A p \in Peer : \A m \in Workload[p] : HasFlag(m, "RELIABLE") \/ m.segments > 1

\* The acknowledgement of datagram d of p is on its way: still pending at the
\* other side, read but not yet processed, or on the wire.
AckComing(p, d) ==
  \/ d \in acks[Other(p)]
  \/ d \in reading[p].acks
  \/ \E m \in wire : m.from = Other(p) /\ d \in m.acks

\* The outbox holds reliable packets only.
OutboxReliable == \A p \in Peer : \A o \in outbox[p] : HasFlag(o, "RELIABLE")

\* Nobody speaks of a datagram before it was made.
DatagramsNumbered ==
  /\ \A p \in Peer : \A s \in sentbox[p] : s.id < nextDatagram[p]
  /\ \A m \in wire : m.id < nextDatagram[m.from]
  /\ \A p \in Peer : \A d \in DatagramIDs : AckComing(p, d) => d < nextDatagram[p]

\* An acknowledged datagram still in the sentbox was received with its packets.
AcksTellTruth ==
  \A p \in Peer : \A s \in sentbox[p] :
    AckComing(p, s.id) => \A i \in s.packets : Received(Other(p), i)

\* What the receive history holds has been delivered.
HistoryDelivered ==
  \A p \in Peer : \A i \in packetHistory[p] : delivered[p][i] > 0

\* Ids are used once: a split packet's own id never travels, and no packet
\* belongs to two messages.
IdsUsedOnce ==
  \A p \in Peer : \A m \in sent[p] :
    /\ m.id < nextPacket[p]
    /\ \A i \in m.parts : i < nextPacket[p]
    /\ m.id \in m.parts => m.parts = {m.id}
    /\ \A n \in sent[p] : m # n => m.id # n.id /\ m.id \notin n.parts

\* Packets and split groups stem from a call of Send.
FromSent ==
  \A p \in Peer :
    /\ \A o \in outbox[p] : \E m \in sent[p] : o.id \in m.parts
    /\ \A s \in sentbox[p] : \A i \in s.packets : \E m \in sent[p] : i \in m.parts
    /\ \A i \in tracker[p] : \E m \in sent[p] : m.id = i

\* The segments a split group no longer waits for were received.
SplitsCount ==
  \A p \in Peer : \A g \in splits[p] : \E m \in sent[p] :
    /\ m.id = g.container /\ m.id \notin m.parts
    /\ \A i \in m.parts \ g.segments : Received(Other(p), i)

\* A receipt that is still due was not given, and a packet reported as acked is
\* not sent again.
ReceiptsOpen ==
  \A p \in Peer : \A r \in receipts[p] :
    /\ r.id \notin tracker[p]
    /\ r.id < nextPacket[p]
    /\ r.result = "ACKED" => r.id \notin Ids(outbox[p])

\* The inductive invariant.
LinkInv ==
  /\ TypeOK /\ OutboxReliable /\ DatagramsNumbered /\ RecordMatchesWire
  /\ HistoryDelivered /\ AcksTellTruth
  /\ IdsUsedOnce /\ FromSent /\ SplitsCount
  /\ ReliableIsKept /\ AckedIsReceived
  /\ ReceiptsOpen /\ ReceiptsAgree

\* What RetriesBounded needs besides: a packet is in the outbox once, and its
\* count of attempts covers the datagrams that carry it.
AttemptsCounted ==
  /\ \A p \in Peer : \A o, x \in outbox[p] : o.id = x.id => o = x
  /\ \A m \in wire : \A i \in m.packets : i < nextPacket[m.from]
  /\ \A p \in Peer : \A i \in PacketIDs : IsFiniteSet(Carriers(p, i))
  /\ \A p \in Peer : \A o \in outbox[p] : Cardinality(Carriers(p, o.id)) <= o.sendCount
  /\ RetriesBounded

\* What BytesAccounted needs besides: no datagram in flight is numbered again, so
\* that the length of one that left stays what it was.
FlightOK ==
  /\ blobLength \in [Peer -> [PacketIDs -> Nat]]
  /\ datagramBytes \in [Peer -> [DatagramIDs -> Nat]]
  /\ bytesInFlight = [p \in Peer |-> bytesInFlight[p]]
  /\ \A p \in Peer : \A d \in outgoing[p] : d < nextDatagram[p]
  /\ BytesAccounted
=============================================================================
