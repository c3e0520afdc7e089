-------------------------------- MODULE Wire --------------------------------
(***************************************************************************)
(* What goes over the wire: how packets are cut into segments and written  *)
(* to datagrams, byte by byte, and how the receiver takes them apart,      *)
(* sorts out duplicates and puts split packets together again.  Datagrams  *)
(* arrive in any order, may be lost, and may repeat packets that arrived   *)
(* before in other company.  Retransmission and acknowledgement themselves *)
(* are the subject of Link, channels of ChannelBuffer.                     *)
(***************************************************************************)
EXTENDS ReassemblyBuffer

CONSTANTS
  Message,     \* the messages under way, natural numbers
  Sizes,       \* for each of them, the lengths in bytes it may have
  Command,     \* for each of them, its first byte
  Merged,      \* bound on the packets in a datagram
  CHUNK_SIZE,  \* bytes of a segment, cfg::MTU - 100
  MTU          \* cfg::MTU

ASSUME MessageAssumption == Message \subseteq Nat \ {0}
ASSUME ChunkAssumption == CHUNK_SIZE \in Nat \ {0} /\ MTU > CHUNK_SIZE

PACKET_MAX_LENGTH == 16777216
USER_PACKET == 15

\* cfg::MTU - 100 as it is.  Instances scale CHUNK_SIZE down, which is as long, but
\* not the strings that signals and advertisements are made of.
WHOLE_LENGTH == 1200

\* Does a payload, behind its command, fit a packet that is not split?  One segment
\* is what a signal has to be to get to OnSystemPacket, and the length below which
\* the assertion of EnqueueOutOfBand holds.
IsWhole(payload) == Len(payload) < WHOLE_LENGTH

VARIABLES
  size,       \* the length of each message, as sent
  seen,       \* ids of the packets received, m_recvPackets of the congestion control
  backlog,    \* m_backlog of the ReassemblyBuffer
  inbox,      \* messages delivered to the application
  system,     \* messages handled by OnSystemPacket
  arrived,    \* history: the segments of each message that have arrived
  misread,    \* history: something was read that had not been written
  killed,     \* has the receiver given the connection up?
  aborted     \* has an assertion failed?

vars == <<size, seen, backlog, inbox, system, arrived, misread, killed, aborted>>

-----------------------------------------------------------------------------
(***************************************************************************)
(* DatagramHeader.                                                         *)
(***************************************************************************)

NewDatagramHeader ==
  [flag_data |-> FALSE, flag_link |-> FALSE, hasAcks |-> FALSE, hasNacks |-> FALSE,
   datagramID |-> 0, acks |-> <<>>, nacks |-> <<>>, dataLength |-> 0]

\* Serialize.
DatagramFields(h) ==
  <<<<"bool", h.flag_data>>, <<"bool", h.flag_link>>,
    <<"bool", h.hasAcks>>, <<"bool", h.hasNacks>>, <<"int32", h.datagramID>>>>
  \o (IF h.hasAcks THEN <<<<"ids", h.acks>>>> ELSE <<>>)
  \o (IF h.hasNacks THEN <<<<"ids", h.nacks>>>> ELSE <<>>)
  \o (IF h.flag_data THEN <<<<"int16", h.dataLength>>>> ELSE <<>>)

DatagramKind(h, name) ==
  CASE name \in {"flag_data", "flag_link", "hasAcks", "hasNacks"} -> "bool"
    [] name = "datagramID" -> "int32"
    [] name = "acks"       -> IF h.hasAcks THEN "ids" ELSE "none"
    [] name = "nacks"      -> IF h.hasNacks THEN "ids" ELSE "none"
    [] name = "dataLength" -> IF h.flag_data THEN "int16" ELSE "none"

DatagramNeeds(h, name) ==
  CASE name = "flag_data" -> 5 [] name = "dataLength" -> 4 [] OTHER -> 0

DatagramDeserialize(s) ==
  LET Complete(d) == [d EXCEPT !.ok = @ /\ ~ (d.value.flag_data /\ IsEOF(d.rest, d.value.dataLength))]
  IN Complete(GetRecord(s, NewDatagramHeader,
                        <<"flag_data", "flag_link", "hasAcks", "hasNacks", "datagramID",
                          "acks", "nacks", "dataLength">>, DatagramKind, DatagramNeeds))

-----------------------------------------------------------------------------
(***************************************************************************)
(* PacketHeader.                                                           *)
(***************************************************************************)

NewPacketHeader ==
  [flag_segment |-> FALSE, flag_jumbo |-> FALSE, id |-> 0, options |-> 0, channel |-> 0,
   sequence |-> 0, length |-> 0, offset |-> 0, splitContainer |-> 0, splitIndex |-> 0]

IsSplit(h) == h.flag_segment \/ h.offset > 0

\* Serialize.
PacketFields(h) ==
  <<<<"bool", h.flag_segment>>, <<"bool", h.flag_jumbo>>, <<"int32", h.id>>,
    <<"byte", h.options>>, <<"byte", h.channel>>>>
  \o (IF h.channel # 0 THEN <<<<"int32", h.sequence>>>> ELSE <<>>)
  \o (IF h.flag_jumbo THEN <<<<"int32", h.length>>, <<"int32", h.offset>>>>
      ELSE <<<<"int16", h.length % 65536>>, <<"int16", h.offset % 65536>>>>)
  \o (IF IsSplit(h) THEN <<<<"int32", h.splitContainer>>, <<"int32", h.splitIndex>>>> ELSE <<>>)

HasSplitFields(h) == h.flag_segment \/ h.offset > 0

PacketKind(h, name) ==
  CASE name \in {"flag_segment", "flag_jumbo"} -> "bool"
    [] name = "id" -> "int32"
    [] name \in {"options", "channel"} -> "byte"
    [] name = "sequence" -> IF h.channel # 0 THEN "int32" ELSE "none"
    [] name \in {"length", "offset"} -> IF h.flag_jumbo THEN "int32" ELSE "int16"
    [] name \in {"splitContainer", "splitIndex"} -> IF HasSplitFields(h) THEN "int32" ELSE "none"

PacketNeeds(h, name) ==
  CASE name = "flag_segment"   -> 7
    [] name = "length"         -> IF h.flag_jumbo THEN 8 ELSE 4
    [] name = "splitContainer" -> 8
    [] OTHER -> 0

\* Deserialize, into a header that may have been used before.
PacketDeserialize(old, s) ==
  LET Sane(d) == [d EXCEPT !.ok = @ /\ d.value.length <= PACKET_MAX_LENGTH
                                    /\ d.value.offset < PACKET_MAX_LENGTH]
  IN Sane(GetRecord(s, old, <<"flag_segment", "flag_jumbo", "id", "options", "channel", "sequence",
                              "length", "offset", "splitContainer", "splitIndex">>,
                    PacketKind, PacketNeeds))

-----------------------------------------------------------------------------
(***************************************************************************)
(* The payload of RPC_SIGNAL.                                              *)
(***************************************************************************)

\* Peer::RpcSignal.
RpcSignal(identifier, params) ==
  ReleaseBuffer(PutAll(New(Len(params) + Len(identifier) + 16),
                       <<<<"string", identifier>>, <<"7bit", Len(params)>>, <<"bytes", params>>>>))

\* OnSystemPacket: the identifier and the parameters, of which the length tells.
ReadParams(got) == <<got.value[1], ReadBytes(got.rest, got.value[2]).value>>

\* Mutant of OnRpcSignal: the length is taken for a byte.
OnRpcSignalByte(buffer) == ReadParams(GetAll(Wrap(buffer), <<"string", "byte">>))

OnRpcSignal(buffer) == ReadParams(GetAll(Wrap(buffer), <<"string", "7bit">>))

-----------------------------------------------------------------------------
(***************************************************************************)
(* The sender: EnqueueOutgoing cuts messages up, MakeDatagram merges.      *)
(***************************************************************************)

\* Packet::ToDatagram of a message of n bytes: the command, then the payload.
Blob(m, n) == <<Command[m]>> \o [k \in 1 .. n - 1 |-> (31 * m + k) % 256]

LastSegment(n) == (n - 1) \div CHUNK_SIZE
Segments(n) == 0 .. LastSegment(n)
Offset(i) == i * CHUNK_SIZE
SegmentLength(n, i) == Min({n - Offset(i), CHUNK_SIZE})

\* Mutant of IsJumbo: it goes by the segments' own lengths.
IsJumboSegment(n) == Min({n, CHUNK_SIZE}) >= 65535

\* packet.GetLength() does not count the command.
IsJumbo(n) == n - 1 >= 65535

\* GetNextPacketID: one for the message, one for each segment of a split one.
MaxSegments == 10000
ContainerID(m) == m * MaxSegments
PacketID(m, n, i) == IF n <= CHUNK_SIZE THEN ContainerID(m) ELSE ContainerID(m) + i + 1

Header(m, n, i) ==
  [flag_segment |-> i < LastSegment(n), flag_jumbo |-> IsJumbo(n),
   id |-> PacketID(m, n, i), options |-> 1, channel |-> m % 2, sequence |-> m,
   length |-> SegmentLength(n, i), offset |-> Offset(i),
   splitContainer |-> ContainerID(m), splitIndex |-> i]

\* The blob of an OutgoingPacket.
OutgoingPacket(m, n, i) ==
  LET head == PutAll(New(DEFAULT_CAPACITY), PacketFields(Header(m, n, i)))
  IN WriteBytes(head, SubSeq(Blob(m, n), Offset(i) + 1, Offset(i) + SegmentLength(n, i))).bytes

\* MakeDatagram: a header and the packets one after the other.
Datagram(link, packets) ==
  LET Framed(data) ==
        PutAll(New(DEFAULT_CAPACITY),
               Append(DatagramFields([NewDatagramHeader EXCEPT
                                        !.flag_data = TRUE, !.flag_link = link, !.datagramID = 1,
                                        !.dataLength = Len(data)]),
                      <<"bytes", data>>)).bytes
  IN Framed(InTurn(LAMBDA a, b : a \o b, <<>>, packets))

-----------------------------------------------------------------------------
(***************************************************************************)
(* Out of band: pings and the advertisements that answer them, which need  *)
(* no connection.                                                          *)
(***************************************************************************)

PING == 0
ADVERTISEMENT == 5

\* EnqueueOutOfBand, and the datagram that it becomes.  Nothing is sent when the
\* assertion on the length fails.
EnqueueOutOfBand(command, payload) ==
  LET head == PutAll(New(DEFAULT_CAPACITY),
                     PacketFields([NewPacketHeader EXCEPT !.length = Len(payload) + 1]))
  IN IF IsWhole(payload) THEN Datagram(FALSE, <<WriteBytes(head, <<command>> \o payload).bytes>>)
     ELSE <<>>

\* Peer::Ping.
Ping == EnqueueOutOfBand(PING, <<>>)

\* The answer to a ping, none without an advertisement.
OnPing(advertisement) ==
  IF advertisement.bytes = <<>> THEN <<>>
  ELSE EnqueueOutOfBand(ADVERTISEMENT, ToArray(advertisement))

\* Mutant of OnAdvertisement: the address is not told apart from what follows.
OnAdvertisementPlain(address, payload) ==
  ReleaseBuffer(PutAll(New(Len(payload) + Len(address) + 4),
                       <<<<"bytes", address>>, <<"bytes", payload>>>>))

\* The advertisement as it is passed to the application, behind its sender's address.
OnAdvertisement(address, payload) ==
  ReleaseBuffer(PutAll(New(Len(payload) + Len(address) + 4),
                       <<<<"string", address>>, <<"bytes", payload>>>>))

\* OnUnconnectedMessage: what it sends back or, for an advertisement, passes on.
\* Datagrams with the link flag, without data or with a segment are ignored, and
\* so are the other commands here, which are those of Handshake and PeerSlots.
OnCommand(advertisement, address, packet) ==
  CASE packet[1] = PING          -> OnPing(advertisement)
    [] packet[1] = ADVERTISEMENT -> OnAdvertisement(address, Tail(packet))
    [] OTHER                     -> <<>>

OnPacketHeader(advertisement, address, d) ==
  IF ~ d.ok \/ d.value.flag_segment THEN <<>>
  ELSE OnCommand(advertisement, address, ReadBytes(d.rest, d.value.length).value)

OnUnconnectedMessage(advertisement, address, buffer) ==
  LET Unconnected(d) ==
        IF ~ d.ok \/ d.value.flag_link \/ ~ d.value.flag_data THEN <<>>
        ELSE OnPacketHeader(advertisement, address, PacketDeserialize(NewPacketHeader, d.rest))
  IN Unconnected(DatagramDeserialize(Wrap(buffer)))

\* The advertisement of a lobby: its name, its map, and how many play and may play.
Advert(lobby) ==
  PutAll(New(DEFAULT_CAPACITY), <<<<"string", lobby[1]>>, <<"string", lobby[2]>>,
                                  <<"int32", lobby[3]>>, <<"int32", lobby[4]>>>>)

\* m_advertisement: none, and after SetOfflineAdvertisement.
NoAdvertisement == New(0)
SetOfflineAdvertisement(data) == Assign(data)

\* What the application reads in the notice.
ReadAdvert(notice) ==
  GetAll(Wrap(notice), <<"string", "string", "string", "int32", "int32">>)

-----------------------------------------------------------------------------
(***************************************************************************)
(* The receiver: OnReadFinished.                                           *)
(***************************************************************************)

\* HandleSplitPacket: Insert, then Reassemble, which delivers to the application.
Inserted(st, h, split, segment) ==
  LET Stored(new) ==
        IF IsComplete(new)
        THEN [st EXCEPT !.rest = segment.rest, !.inbox = @ \cup {new.blob.bytes},
                        !.backlog = Restrict(@, DOMAIN @ \ {h.splitContainer})]
        ELSE [st EXCEPT !.rest = segment.rest,
                        !.backlog = [x \in DOMAIN @ \cup {h.splitContainer} |->
                                       IF x = h.splitContainer THEN new ELSE @[x]]]
  IN IF InsertAsserts(split, h) THEN Stored(Insert(split, h, segment.value))
     ELSE [st EXCEPT !.aborted = TRUE]

HandleSplitPacket(st, h, s) ==
  Inserted(st, h,
           IF h.splitContainer \in DOMAIN st.backlog THEN st.backlog[h.splitContainer] ELSE Unsplit,
           ReadBytes(s, h.length))

\* A packet that is not split, for the library itself or for the application.
Handed(st, blob) ==
  IF blob.value[1] < USER_PACKET
  THEN [st EXCEPT !.rest = blob.rest, !.system = @ \cup {blob.value}]
  ELSE [st EXCEPT !.rest = blob.rest, !.inbox = @ \cup {blob.value}]

HandleWholePacket(st, h, s) == Handed(st, ReadBytes(s, h.length))

\* Mutant of SkipPacket: a duplicate is not skipped.
SkipPacketNot(st, h, s) == [st EXCEPT !.rest = s]

\* NotifyReceivedPacket knows the packet.
SkipPacket(st, h, s) == [st EXCEPT !.rest = Skip(s, h.length)]

\* The header fields that mean something.
Meaning(h) ==
  [h EXCEPT !.sequence = IF h.channel = 0 THEN 0 ELSE @,
            !.splitContainer = IF IsSplit(h) THEN @ ELSE 0,
            !.splitIndex = IF IsSplit(h) THEN @ ELSE 0]

\* One turn of the loop over the packets of a datagram.
HandlePacket(st, d) ==
  LET Handled(next) ==
        IF d.value.id \in st.seen THEN SkipPacket(next, d.value, d.rest)
        ELSE IF IsSplit(d.value) THEN HandleSplitPacket(next, d.value, d.rest)
        ELSE HandleWholePacket(next, d.value, d.rest)
  IN IF d.ok
     THEN Handled([st EXCEPT !.header = d.value, !.seen = @ \cup {d.value.id},
                             !.log = Append(@, Meaning(d.value))])
     ELSE [st EXCEPT !.more = FALSE]

HandlePackets(start) ==
  LET Turn(st, turn) ==
        IF ~ st.more \/ st.aborted THEN st
        ELSE HandlePacket(st, PacketDeserialize(st.header, st.rest))
  IN InTurn(Turn, start, [turn \in 1 .. Merged + 1 |-> turn])

\* What becomes of the receiver's state when it reads a datagram.
HandleDatagram(start, d) ==
  IF ~ d.ok \/ d.value.dataLength + d.rest.position > MTU
  THEN [start EXCEPT !.killed = TRUE]
  ELSE HandlePackets([start EXCEPT !.rest = d.rest])

Init ==
  /\ size \in [Message -> UNION {Sizes[m] : m \in Message}]
  /\ \A m \in Message : size[m] \in Sizes[m]
  /\ seen = {} /\ inbox = {} /\ system = {}
  /\ backlog = [c \in {} |-> Unsplit]
  /\ arrived = [m \in Message |-> {}]
  /\ misread = FALSE /\ killed = FALSE /\ aborted = FALSE

\* OnReadFinished for a datagram of an established connection that holds the
\* given packets, each a message and a segment of it.
OnReadFinished(packets) ==
  LET Of(k) == packets[k][1]
      sent == [k \in DOMAIN packets |-> OutgoingPacket(Of(k), size[Of(k)], packets[k][2])]
      written == [k \in DOMAIN packets |-> Meaning(Header(Of(k), size[Of(k)], packets[k][2]))]
  IN
  /\ ~ killed /\ ~ aborted
  /\ \E buffer \in {Datagram(TRUE, sent)} :
       /\ Len(buffer) <= MTU
       /\ \E st \in {HandleDatagram([header |-> NewPacketHeader, more |-> TRUE, log |-> <<>>,
                                     rest |-> Wrap(buffer), seen |-> seen, backlog |-> backlog,
                                     inbox |-> inbox, system |-> system, killed |-> FALSE,
                                     aborted |-> FALSE], DatagramDeserialize(Wrap(buffer)))} :
            /\ seen' = st.seen /\ backlog' = st.backlog
            /\ inbox' = st.inbox /\ system' = st.system
            /\ killed' = st.killed /\ aborted' = st.aborted
            /\ misread' = (misread \/ st.log # written \/ st.more)
  /\ arrived' = [m \in Message |->
                   arrived[m] \cup {packets[k][2] : k \in {x \in DOMAIN packets : Of(x) = m}}]
  /\ UNCHANGED size

Packets == UNION {{m} \X Segments(size[m]) : m \in Message}

Next ==
  \E n \in 1 .. Merged : \E packets \in [1 .. n -> Packets] :
    /\ \A j, k \in 1 .. n : j # k => packets[j] # packets[k]
    /\ OnReadFinished(packets)

Spec == Init /\ [][Next]_vars

-----------------------------------------------------------------------------
(***************************************************************************)
(* Properties.                                                             *)
(***************************************************************************)

\* Whatever a datagram holds, new packets, segments and duplicates side by side,
\* the loop of OnReadFinished, which reuses one header, finds the packets that
\* MakeDatagram wrote and their headers, and stops after the last of them.
ReadsWhatWasWritten == ~ misread /\ ~ killed

\* Whatever the order of arrival, a message is handed on when the last of its
\* segments arrives and not before, byte for byte, and no segments are left over.
Reassembles ==
  /\ \A m \in Message :
       arrived[m] = Segments(size[m]) =>
         /\ Blob(m, size[m]) \in inbox \cup system
         /\ ContainerID(m) \notin DOMAIN backlog
  /\ \A blob \in inbox \cup system :
       \E m \in Message : arrived[m] = Segments(size[m]) /\ blob = Blob(m, size[m])

\* No datagram was read yet.  The next four properties are about functions of their
\* inputs alone, which there is no need to evaluate in any other state.
AtStart == seen = {}

\* Fields for the checks: every kind, with values at the edges of the encodings.
SampleValue(kind) ==
  CASE kind = "bool"   -> {TRUE}
    [] kind = "byte"   -> {255}
    [] kind = "int16"  -> {65534}
    [] kind = "int32"  -> {2147483647}
    [] kind = "int64"  -> {<<1, 65536>>}
    [] kind = "7bit"   -> {0, 127, 128, 2097151, 2147483647}
    [] kind = "string" -> {<<>>, <<104, 105>>}
SampleField ==
  UNION {{kind} \X SampleValue(kind) :
           kind \in {"bool", "byte", "int16", "int32", "int64", "7bit", "string"}}

SampleFields == UNION {[1 .. n -> SampleField] : n \in 0 .. 2}

\* What is written can be read, whichever kinds of field follow each other and
\* however many single bits precede them, the bits that fill a byte exactly
\* included; reading ends where writing did, and never beyond the buffer.
FieldsSurvive ==
  AtStart => \A bits \in 0 .. 9, fields \in SampleFields :
    LET all == [k \in 1 .. bits |-> <<"bool", k % 3 = 0>>] \o fields
        written == PutAll(New(1), all)
        got == GetAll(Wrap(written.bytes), [k \in DOMAIN all |-> all[k][1]])
    IN /\ got.value = [k \in DOMAIN all |-> all[k][2]]
       /\ Align(got.rest).position = Length(written)
       /\ Length(written) <= written.capacity

\* Lengths of messages around the limits of 16 bits.
JumboSizes == {65534, 65535, 65536, 65537, 66000, 66001, 132000}

\* The header of any segment of a long message survives, with an offset that does
\* not fit 16 bits, too, and whatever the header object held before.
PacketHeadersSurvive ==
  \A n \in JumboSizes, m \in Message, back \in 0 .. 2 :
    \A h \in {Header(m, n, LastSegment(n) - back)} :
      \A s \in {WriteZeroes(PutAll(New(DEFAULT_CAPACITY), PacketFields(h)), h.length)} :
        \A d \in {PacketDeserialize([Header(m, n, 1) EXCEPT !.channel = 7], Wrap(s.bytes))} :
          d.ok /\ Meaning(d.value) = Meaning(h) /\ d.rest.position = Length(s) - h.length

\* Up to 256 ids of each kind, a datagram of acknowledgements is read as MakeAckgram
\* wrote it, and the loop that follows finds no packet in it.
AckgramsSurvive ==
  \A a, n \in {0, 1, 2, 255, 256} :
    \A h \in {[NewDatagramHeader EXCEPT
                 !.flag_link = TRUE, !.hasAcks = a > 0, !.hasNacks = n > 0, !.datagramID = 5,
                 !.acks = [k \in 1 .. a |-> 1000 + k], !.nacks = [k \in 1 .. n |-> k]]} :
      \A d \in {DatagramDeserialize(Wrap(PutAll(New(DEFAULT_CAPACITY), DatagramFields(h)).bytes))} :
        a + n > 0 => d.ok /\ d.value = h /\ ~ PacketDeserialize(NewPacketHeader, d.rest).ok

\* Both kinds of header are read as they were written, at the edges of their
\* encodings: 16 and 32 bits for lengths, one byte for the number of ids.
HeadersSurvive == AtStart => PacketHeadersSurvive /\ AckgramsSurvive

\* Lengths of parameters, with those at the end of a packet.
ParamLengths == {0, 1, 128, 300, 1067, 1068}

\* What RpcSignal passes on is what the slot is called with, for identifiers and
\* parameters whose lengths take more than seven bits as well as for empty ones, up
\* to the longest signal that is not split (the receiver hands a split one to the
\* application, and OnSystemPacket never sees it).
SignalsSurvive ==
  AtStart => \A i \in {1, 127, 128}, p \in ParamLengths :
    LET identifier == [k \in 1 .. i |-> 65 + (k % 26)]
        params == [k \in 1 .. p |-> k % 256]
    IN IsWhole(RpcSignal(identifier, params)) =>
         OnRpcSignal(RpcSignal(identifier, params)) = <<identifier, params>>

\* A ping finds the lobby that is advertised: what is read in the notice is what
\* was written to the advertisement, and the address of who wrote it, up to the
\* longest advertisement that the assertion of EnqueueOutOfBand lets pass; there is
\* no answer to a ping without an advertisement, and the copy that is made of it
\* passes its assertion (Peer::OnUnconnectedMessage, BinaryStream::operator=, and
\* the LAN discovery example).
AdvertisementsSurvive ==
  AtStart => \A a \in {7, 45, 128}, n \in {0, 1, 127, 128, 300, 1186, 1187}, players \in {0, 49} :
    LET address == [k \in 1 .. a |-> 46 + (k % 12)]
        lobby == <<[k \in 1 .. n |-> 65 + (k % 26)], <<100, 101>>, players, 50>>
    IN
    /\ AssignAsserts(Advert(lobby))
    /\ OnUnconnectedMessage(NoAdvertisement, address, Ping) = <<>>
    /\ IsWhole(ToArray(Advert(lobby))) =>
       \A answer \in {OnUnconnectedMessage(SetOfflineAdvertisement(Advert(lobby)), address, Ping)} :
         \A got \in {ReadAdvert(OnUnconnectedMessage(NoAdvertisement, address, answer))} :
           got.value = <<address>> \o lobby /\ got.rest.position = Length(got.rest)

\* After SeekForce the stream stands at the offset of the segment, whichever
\* segments arrived before: the assertion in ReassemblyBuffer::Insert.
SeekReachesOffset == ~ aborted
=============================================================================
