# Wirefox in TLA+

This directory models wirefox, a C++ library for peer to peer networking over
UDP, and one of the programs built on it. The modules are translated from the
source; `PROJECT.json` maps every definition to the lines it stands for. TLC
checks the models on small instances. TLAPS proves safety properties of every
component for every size; of `Wire`, those about fields and signals.

## The system

A `Peer` has a fixed table of `RemotePeer` slots and three threads:

* the application calls `Connect`, `Send`, `Disconnect`, `Receive`, `Stop`;
* the worker of `PacketQueue` goes through the slots every few milliseconds: it
  resends handshakes, expires records, ends disconnects whose time is over, fills
  datagrams from the outbox of the slot and begins reads and writes;
* the socket thread runs asio's completion handlers. `OnReadFinished` reads a
  whole datagram there: decryption, header, acks, nacks, packets.

A message is cut into segments, numbered, kept in the outbox, put into datagrams,
acknowledged per datagram, put together, sorted by channel and pushed into the
inbox of the application, where notices of the library wait as well.

## Modules

| Module | Code | State and actions |
|---|---|---|
| `Link` | `PacketQueue`, `DatagramBuilder`, `RemotePeer`, `CongestionControl`, `ReceiptTracker` | Both ends of an established connection and the network between them. Outbox, sentbox, bytes in flight, pending acks and nacks, receive history, receipts. The worker's turn is one step, because it holds the lock of the slot throughout; reading a datagram takes one step each for the header, the acks, the nacks and every packet, because the read handler holds the lock only for parts. |
| `CongestionWindow` | `CongestionControlWindow`, the arithmetic of `CongestionControl` | Window, threshold, round trip history; one action per notification. |
| `ChannelBuffer`, `OrderedDelivery` | `ChannelBuffer`, `Channel` | One direction of an ordered or sequenced channel. `OrderedDelivery` is the promise: messages come out in the order in which they were sent, none twice. `ChannelBuffer` implements it. |
| `BinaryStream`, `ReassemblyBuffer`, `Wire` | the classes of these names, `DatagramHeader`, `PacketHeader`, `Packet`, out-of-band messages, `examples/LanDiscovery` | The bytes: streams with their capacity, length, position and position within a byte; headers field by field; the loop of `OnReadFinished` over the packets of a datagram; segments and reassembly; RPC signals; pings and advertisements. |
| `Handshake` | `Handshaker`, `HandshakerThreeWay`, `EncryptionAuthenticator`, `EncryptionLayerSodium` and how `Peer` and `PacketQueue` call them | A client and a server that set up a connection, with and without encryption, with and without a pinned public key. A session key is the pair of the two key exchange keys. The worker of each peer holds the lock of the slot from the test in `Update` to the end of `Complete` (`worker`); the socket thread tests the handshake before it has the lock, and in `DisconnectImmediate` completes it without (`reader`). |
| `PeerSlots` | `Peer`, `RemotePeer` | The slot table of one peer with its lookup cache; the application, the worker and the socket thread reserve, find and end slots. Ending a slot takes several steps, in which it is tested, reported and reset; `doing` says which slot each thread is at, and how far. |
| `SocketThreads` | `SocketUDP`, `PacketQueue::ThreadWorker`, `AwaitableEvent`, `~Peer` | The three threads, with every access to a shared flag as a step of its own. asio is external and modelled by what `SocketUDP` relies on. |
| `Chat` | `examples/Chat`, `Peer::Receive`, `Peer::MakeChannel`, `RpcController` | The chat server and its clients on top of the library, of which it keeps what an application can observe. This is the composition of the parts above at the level of their promises. `received` is all that a client's `Tick` has read. |
| `_proofs` of `Link`, `CongestionWindow`, `ChannelBuffer`, `Wire`, `Handshake`, `PeerSlots`, `SocketThreads`, `Chat` | | Theorems. |
| `MC*` | | Instances for TLC. |

An operator whose comment says "Mutant of" is a wrong variant of the definition
after it. It is used nowhere in the models; put in the place of that definition it
violates the property that `PROJECT.json` names.

## Runs

| Run | Configuration | States | Result |
|---|---|---|---|
| reliable | `MCLink_reliable.cfg` | 643,196 | passes |
| live | `MCLink_live.cfg` | 46,653 | passes |
| record | `MCLink_record.cfg` | | violates `ReliableIsKept` |
| starved | `MCLink_starved.cfg` | | violates `ReliableArrives` |
| window | `MCCongestionWindow.cfg` | 159,040 | passes |
| wire | `MCWire.cfg` | 480 | passes |
| seek | `MCWire_seek.cfg` | | violates `SeekReachesOffset` |
| channel | `MCChannelBuffer.cfg` | 20,779 | passes |
| handshake | `MCHandshake.cfg` | 520,802 | passes |
| slots | `MCPeerSlots.cfg` | 402,452 | passes |
| threads | `SocketThreads.cfg` | 55,770 | passes |
| chat | `MCChat.cfg` | 413,962 | passes |

### reliable, live: what a connection promises

`reliable` sends reliable messages and messages of two segments with receipts over
a network that withholds, repeats and reorders datagrams, with the receive history
expiring while datagrams travel. `RecordMatchesWire` says that the sentbox lists
what a datagram really carries; `AckedIsReceived` that a message reported as acked
was received, all segments of it; `ReliableIsKept` that a reliable packet stays in
the outbox until the other side has it; `ReceiptsAgree` that no message is reported
both acked and lost; `BytesAccounted` that the bytes in flight are those of the
datagrams in flight, the assertion in `CongestionControl::Update`; `RetriesBounded`
that no packet is sent more often than `SEND_RETRY_COUNT`.

`live` adds loss and fairness. `AtMostOnce`: a packet passes deduplication once,
while the history lasts longer than datagrams travel. `ArrivesUnlessLost`: a
reliable message arrives if no datagram is lost, although late ones are taken for
lost. `AcksLeave`: pending acks leave.

Three packets and three datagrams allow a packet to travel twice, its first ack to
come after the second and after an expiry, and a split message to be acked in two
datagrams. A withheld datagram is one that is never read, so loss needs no action
in `reliable`; `live` needs one, because fairness makes the reader read.

### record, starved, seek: where the code departs from its documentation

* `record`. `MakeDatagram` collects pointers into the outbox and then erases
  unreliable packets from it while it follows them. Later pointers name the next
  packet. With a mix of unreliable and reliable packets in one datagram a reliable
  packet is recorded as sent without having been written; the ack of the datagram
  removes it from the outbox. This is why the theorems assume traffic that is
  reliable throughout (`OnlyReliable`).
* `starved`. A packet is resent within the retransmission budget, which is the
  number of bytes in flight. `CongestionControl::Update` forgets a lost datagram
  after sixteen average round trips, at once when no round trip is known. Then the
  budget is zero, and the packet stays in the outbox for ever.
* `seek`. `SeekForce` extends a stream only when the position lies outside the
  allocation, which grows by powers of two. When segment 3 of a message follows
  segment 1, its offset is within the capacity and beyond the length: the position is
  clamped, and the assertion in `ReassemblyBuffer::Insert` fails. This takes four
  segments, hence three in `wire`.

### window

All orders of sends, acks, late acks, nacks and expiries. `WindowNeverLimits`: the
two send budgets always add up to one MTU; the window is never less than an MTU, so
it never has a say in what is sent. `WindowFollowsFeedback`: every ack opens the
window, every group of nacks leads back to slow start. `RtoCoversHistory`: nothing
is resent sooner than the round trips that were measured. Windows up to 72 with an
MTU of 8 and a threshold of 24 cover slow start, its end and congestion avoidance.

### wire

Lengths are those of wirefox divided by 16: segments of 75 bytes, streams that begin
with 8. Messages of up to three segments and a short message for the library share
datagrams of up to two packets in every combination and arrive in every order, more
than once. `ReadsWhatWasWritten`: the loop, which reuses one `PacketHeader` object,
finds the packets that were written and stops after the last. `Reassembles`:
a message is handed on when its last segment arrives, byte for byte, and not before;
for messages of four segments see `seek`.

The other invariants evaluate, before the first datagram, pure functions over chosen
inputs at the edges of their encodings: every type of field in sequence, with
booleans packed into bytes (`FieldsSurvive`); headers of messages around 65536 bytes
and of 0 to 256 acks and nacks (`HeadersSurvive`); RPC signals and advertisements
with lengths of one and two bytes (`SignalsSurvive`, `AdvertisementsSurvive`), up to
the longest that fit one packet. A longer signal is split and never reaches
`OnSystemPacket`; a longer advertisement fails the assertion of `EnqueueOutOfBand`.
These two are about real strings, so their limit, `WHOLE_LENGTH`, is not scaled.

### channel

`DeliversInOrder` is refinement: every behaviour of `ChannelBuffer` is one of
`OrderedDelivery`. `NothingWithheld`: whatever can be delivered was. The messages of
an ordered channel all arrive (`EveryMessageArrives`); messages overtake one another
by up to three places among ten sequence numbers, and a sequenced channel may lose
one. The instance stays below the wrap of sequence numbers for ordered channels,
see below.

### handshake

Up to two attempts of the client and two slots of the server, three setups in all;
all combinations of security settings and of no, right and wrong pinned key;
datagrams are lost at a bound on those under way, overtaken and, once, repeated.
Each peer has a worker and a socket thread.

`ReportedOnce`: an attempt is reported exactly when it is over, whichever of reply,
error, timeout and broken datagram ends it, and it is reported once, unless the
timeout met the socket thread at the slot (`met`). The lock in `Update` does not
cover that meeting, see the end of this document; with all threads as single steps
it would not show. `KeysAgree`: a server is established only after the client
completed the same key exchange, and a client with a pinned key shares the session
key of the server. `IdentityVerified`: a client given the wrong key never connects.
`UnpinnedEnds`: an attempt without a challenge ends, unless the socket thread crashes
over it. Equal datagrams under way count as one.

### slots

Two slots, one of them open to incoming connections, and one peer that may come from
two addresses, so that an id moves from slot to slot and competes with itself. Each
of the three threads may be at a slot while the others test, report or reset it.
`EstablishedIsFound`: the id of an established connection leads to it, although the
cache of `GetRemoteByID` keeps ids of slots that were reset, and however the threads
meet. `NoticesPaired`: the application is told of the beginning and the end of a
connection once, if the threads come to its slot one after the other. `mixed` has
the slots where two of them were at once, until all have left, and those that `Stop`
cuts off without a word; about these the property says nothing. `DisconnectEnds`: a
graceful disconnect ends while the worker runs.

### threads

`OneOperationAtATime`: the buffers have one user at a time although
two threads begin reads. `UnbindReturns`, `DestructorReturns`: stopping never waits
for ever, although the context may be restarted after it was stopped and a wake-up
may be lost. `ReadsGoOn`, `ConnectRuns`: a bound socket gets to read, also after a
failed read and a failed `Bind`, and callbacks of `Connect` run, for a peer that was
never stopped; reads go on only until a disconnect has timed out, because the worker
returns then and nobody begins the read after a failed one. The one bound is that a callback of `Connect` is posted when no
other waits.

### chat

Two clients and two connection attempts, one line typed. `UsersFollowNotices`: the
server's list of users is right once the waiting notices are read. `SaidByNick`:
what is said appears under the nick of the connection over which it came.
`OneConversation`: what a client reads never goes back in the conversation, and from
the welcome on nothing is left out. `SpeakerHears`: who says something hears it said,
on a connection that lasts and on which no message starves. That is a premise of the
property (`ChannelDelivers`), since the run `starved` shows that it may fail.

Only the last welcome of a connection counts, because the welcome of an earlier
connection may reach the client's next one, whose slot at the server has the same
id. A message that reaches the server before `MakeChannel` throws (`crashed`); an
RPC before its registration is dropped. The branch for unknown users is reached: the
worker may post the loss of a connection between the moment the socket thread takes
a message from a channel and the moment it pushes it. The client's loop drains its
inbox in one step; what is under way to a slot that is reset is lost.

### Deadlock and bounds

Deadlock is checked where the system never stops (`window`). Everywhere else the
bounds on packets, attempts, inputs or messages, or the end of a program, let the
system stop for good. Every bound is a constant whose comment says so, and appears
in guards only.

## Fairness

* `Link`: weak fairness of the worker and of the socket thread of each peer, as a
  whole. The worker is a loop that wakes up at least every tick; the socket thread
  reads again after every datagram. Nothing is assumed of the application.
* `ChannelBuffer`: messages that were sent and not lost arrive. This is an assumption
  on what lies below a channel and not a promise of `Link`, whose reliable packets
  arrive if no datagram is lost (`ArrivesUnlessLost`) and may starve otherwise (run
  `starved`).
* `Handshake`: weak fairness of the worker of each peer. Nothing is assumed of the
  network or of the socket thread.
* `PeerSlots`: weak fairness of what each thread has begun, of the begin of a read and
  of posted callbacks. Strong fairness of the disconnect timeout of each slot: the
  worker may be at another slot any number of times, but its loop comes by every slot
  again and again. No datagram is assumed to arrive.
* `SocketThreads`: weak fairness of each thread once it has begun an operation.
  None of the application's calls, and no arrival of a datagram, is assumed.
* `Chat`: the server's constructor, the loops of server and clients and the socket
  thread with a message in its hands go on. No input and no arrival is assumed; that
  of the messages on one channel is a premise of `SpeakerHears`.

## Proofs

The theorems hold for every value of the constants that satisfies the assumptions
of the modules; what is assumed beyond them is said below. Few of the properties
are inductive. The inductive invariants stand at the end of the component's module
or, if they are short, before the theorem that needs them. A proof module has one
lemma per action, or per conjunct, and then the theorems.

| Property | Theorem | Inductive invariant |
|---|---|---|
| `Link`: `TypeOK`, `RecordMatchesWire`, `ReliableIsKept`, `AckedIsReceived`, `ReceiptsAgree` | `TypeCorrect`, `RecordFaithful`, `ReliableKept`, `AckedReceived`, `ReceiptsConsistent` | `LinkInv` |
| `Link`: `AtMostOnce` | `DeliveredOnce` | `DedupInv` |
| `Link`: `BytesAccounted` | `BytesAreAccounted` | `FlightOK` |
| `Link`: `RetriesBounded` | `AttemptsAreBounded` | `AttemptsCounted` |
| `CongestionWindow`: `WindowNeverLimits`, and `WindowFollowsFeedback`, an action property | `BudgetsShareMTU`, `FeedbackFollowed` | `WindowInv` |
| `CongestionWindow`: `TypeOK`, `RtoCoversHistory` | `BytesAreSummed`, `RtoCoversRoundTrips` | `RecordsInv` |
| `ChannelBuffer`: `NothingWithheld`, and `DeliversInOrder`, a refinement | `NothingIsWithheld`, `ChannelImplementsPromise` | `ChannelInv` |
| `Wire`: `FieldsSurvive`, `SignalsSurvive` | `FieldsSurviveHolds`, `SignalsSurviveHolds`, from `FieldsRoundTrip` and `SignalsRoundTrip` | none: they hold of the operators |
| `Handshake`: `TypeOK`, `ReportedOnce`, `KeysAgree`, `IdentityVerified` | `HandshakeTypes`, `AttemptsReportedOnce`, `KeysAlwaysAgree`, `IdentityIsVerified` | `HandshakeInv` with `ThreadsInv`; `ReportedOnce` is inductive relative to them |
| `PeerSlots`: `EstablishedIsFound`, `NoticesPaired` | `EstablishedFound`, `NoticesArePaired` | `SlotsInv` |
| `SocketThreads`: `OneOperationAtATime` | `OneOperation` | `ThreadsInv` |
| `Chat`: `UsersFollowNotices`, `SaidByNick` | `UsersFollowNoticesHolds`, `SaidByNickHolds` | `UsersInv` |
| `Chat`: `OneConversation` | `OneConversationHolds` | `ConversationInv`, with `UsersInv` |

### Link

The theorems hold for every two peers, workload, MTU and number of packets and
datagrams, with loss, duplication, reordering and expiry of the history without
limit. All but `DeliveredOnce` assume `OnlyReliable`, that messages are reliable or
split; see `record` for what happens without it. `DeliveredOnce` is for every
workload and assumes that the history does not expire while datagrams travel.

`AckedIsReceived` depends on what acks under way say, which depends on the record in
the sentbox, which depends on the outbox. `LinkInv` adds to the properties:

* `DatagramsNumbered`: nobody speaks of a datagram before it was made, so that a new
  datagram is not acked already;
* `AcksTellTruth`: an ack that is pending, travelling or being read names a datagram
  whose packets were received. This is where the read handler queues the ack before
  it has processed the packets: they count as received while they are being read;
* `HistoryDelivered`: a packet skipped as a duplicate was delivered before;
* `IdsUsedOnce`, `FromSent`, `SplitsCount`: a container's id never travels, and the
  segments it no longer waits for were received;
* `ReceiptsOpen`: a receipt that is due was not given, and a packet reported as acked
  is in no outbox.

`Link_proofs` shows types, the effects of the actions on the variables and the
conjuncts about datagrams, then those about messages, then the theorems.

At its end are the two properties that count. A sum over a set of datagrams
is a fold; `TotalSteps` shows that it grows by the length of each new member, and
`TotalDifference` that it shrinks by those that leave. `FlightOK` adds that no
datagram in flight is numbered again. `AttemptsCounted` adds that no more datagrams
carry a packet than its `sendCount` says, and that no new packet is in any.

### CongestionWindow

For every MTU of at least 8, every threshold not below it and any lengths, round
trips and bounds. `WindowInv` says that the window is never less than one MTU; the
lemma `GrowthPositive` has the arithmetic of congestion avoidance. `RecordsInv` has
the sum of the bytes in flight, and minimum, maximum and average of the round trips
on record; that the average is not below the minimum is what `RtoCoversHistory`
needs. `Update` and acks remove a record from the middle, which takes its length
from the sum.

### ChannelBuffer

`ChannelImplementsPromise` is the refinement: `OrderedDelivery` with the same `mode`,
`sent` and `inbox`. Its initial states are those of `ChannelBuffer`, and each step of
`ChannelBuffer` is one of it or changes none of the three. `WindowAssumption` says
what comparing numbers that wrap needs: messages that may still meet are less than
half of all numbers apart, and an ordered channel sends fewer messages than there
are numbers, because the map is sorted by plain comparison (see below). Sequenced
channels wrap any number of times. In `ChannelInv`, an ordered channel has handed
over exactly the messages before `nextDequeue`, and at most `lost` of the numbers
after it belong to no message in transit or in the map; this bounds how far ahead
the map can be. A sequenced channel has nothing in the map and expects the number
after the latest message it handed over.

### Wire

`FieldsSurvive` and `SignalsSurvive` try sample fields and signals. The theorems
behind them are general. `FieldsRoundTrip` is for any number of fields, in any order:
bits, bytes, integers of 16, 32 and 64 bits, compact integers of up to 31 bits, and
strings of any bytes whose length is such an integer. What `GetAll` reads from the
bytes is what `PutAll` wrote to a new stream of any capacity up to
`PACKET_MAX_LENGTH`; reading ends at the end; and what fits a packet lies within the
buffer. `SignalsRoundTrip` is for all identifiers and parameters whose signal fits one
packet, the only ones that the handler sees.

A stream is read long after a field was written, when others have followed, and a bit
shares its byte with bits that are written later. So the lemmas do not compare the
two streams but say that a buffer u holds what was written to a stream s
(`Holds(u, s)`): the full bytes of s, and a byte that begins with the bits of the one
that s has begun. Every write keeps this for the stream before it (`Follows`); so the
final buffer holds every earlier stream, and a reader that stands where s stood finds
the next field (`ReadsBack`) and then stands where the write of that ended. The
lemmas on `WriteBool` and `WriteBytes` carry the argument about bits, bytes and growth
(`Roomy`); fields of the other kinds are sequences of bytes (`FieldIs`).
`Digits7` has the arithmetic of compact integers. `FoldSteps` turns the loops, which
are folds in the model, into steps, and `FieldsReadBack` is the induction over the
fields.

### Handshake

For any number of attempts, slots, repeated datagrams and datagrams under way, and
any set of security settings and pinned keys. `HandshakeInv` speaks of what travels
together with what `Update` would send again (`Sendable`). `MessageOK` says what a
message tells about its sender: the last part of a handshake exists only after the
client reported success, and a challenge for the right identity only if the client
was given it. `KeysOK` is what relates attempts to each other: a slot of the server
establishes one session key, and keys of later attempts have no earlier key pair of
the server. `SucceedsOnce` keeps a later attempt from using an earlier success.

It is inductive together with `ThreadsInv`, which says where the two threads of a
peer can be. The worker, between its test and `Complete`, holds the lock, so that the
slot is not reset under it; but the socket thread may have ended the handshake.
A slot that was ended is about to be reset by the thread that ended it. A part that
waits for the lock is readable with the key of the slot, or the slot is gone. No
two threads are at the client's slot without having met (`MetOK`).

`ReportedOnce` is then proved step by step: a step tells nothing and leaves the
attempt as it is (`OnceQuiet`), ends the attempt and reports it (`OnceTold`), or
begins a new one, of which nothing was told (`OnceConnect`). Only `Expires` and
`Complete`, the two that do not look whether the handshake is done, can report an
attempt that is over, and they do so only for one in `met`.

### PeerSlots

For any number of slots, addresses and ids. `SlotsInv` has two parts. The first is
about the table and the lookup and holds however the threads meet: a slot has no id
before its handshake has begun, and an id that a slot has got leads to it, also
before the handshake is done (`IdsAreFound`). It is needed because a thread may
establish a slot, or take its id from the lookup, while another is about to reset
it. The lookup takes the first slot with an id, so there is one lemma on the least
index. The second is about notices: at a slot outside `mixed` there is at most one
thread, and what it has found there still holds when it acts on it (`Undisturbed`).
The lemmas on the actions show which slots a step touches, and that it leaves the
notices of the others alone.

### SocketThreads

The model has no constants; the queues of asio may be of any length in the proof.
`ThreadsInv` relates flags, queues and threads: `m_reading` is set while a read is
pending or its handler runs, never both, and still clear when the worker, having
tested it a step earlier, is about to set it; likewise `m_sending`. The lemmas show
what beginning, completing, cancelling and handling an operation do to the queues.

### Chat

For any set of clients, any number of connections and lines, and any lengths of the
queues. The one assumption is that the server is not one of the clients. The
invariants stand at the beginning of `Chat_proofs`.

`UsersInv` is about the history: the users of the list, as if each had just joined,
and then what waits in the server's inbox. `Alternates` says that between the notice
that a client joins and anything that came over another connection of that client
there is the notice that it left. Two threads push into the inbox, and the message
that the socket thread holds may be overtaken by the loss of its connection;
`HeldOK` says that it is not overtaken by the next connection. `Follows` says that
once all is read the list has the connections that are up. A turn of the server
takes one message from the inbox and changes the list accordingly: that leaves the
history as it is (a join), or takes from it what no longer matters (the message just
read, or a join together with its leave), which keeps both (`IsThinned`).

`ConversationInv` is about all that a client has read, what waits in its inbox and
what is under way to it, one after the other (`Pipeline`). These are in order,
without gaps and not from the future (`Sound`): no entry that is not in the log, no
connection that was not made. This is not inductive without the other side of it: a
client who is in the list and can be reached was sent every entry since its last
welcome (`UpToDate`), so that the next entry leaves no gap. Entries are appended by
`ServerTick`, welcomes go to who is not yet in the list (by `UsersInv`), and every
other step moves the boundary between the three parts, cuts off the end, or adds
messages that are not of the log (`IsPadded`).

### Induction over data

Facts about all prefixes of a sequence or all subsets of a finite set are proved
from a least counterexample: well-foundedness of the natural numbers gives a least
position or size at which the fact fails, and the step from the one before refutes
it (`LeastExists`, `Positions`, `Subsets`, `UpTo`).

### Only model-checked

* Everything about liveness, and fairness, which is out of the prover's reach:
  `ArrivesUnlessLost`, `AcksLeave`, `EveryMessageArrives`, `UnpinnedEnds`,
  `DisconnectEnds`, `UnbindReturns`, `DestructorReturns`, `ReadsGoOn`, `ConnectRuns`
  and `SpeakerHears`.
* The rest of `Wire`. `HeadersSurvive` and `AdvertisementsSurvive`: which fields a
  header or an advertisement has depends on flags and lengths read before, so that
  `FieldsRoundTrip` does not apply as it stands. `ReadsWhatWasWritten`, `Reassembles`
  and `SeekReachesOffset`: segments are written at offsets, in any order, to streams
  that do not stand at their end.

## What the models leave out of what they model

* Time is abstract: a deadline that was set may pass at any later moment.
* A read handler whose slot was reset takes no further steps in `Link`; the code goes
  on with the slot it has.
* In `Handshake` the magic number and the version always match and messages are
  never too short. Ciphertext that is read as plain text is either fatal or ignored.
  `Complete` and `Reset` of the worker are one step, under the lock. A datagram counts
  as travelling until its part is handled. The callback of `Connect`, and the second
  `Reset` of `DisconnectImmediate`, are in `PeerSlots`.
* A thread that uses a handshaker which is gone has `crashed` in `Handshake` and
  `PeerSlots`. It is undefined what happens then; other outcomes are not followed.
* In `PeerSlots`, finding a free slot and reserving it is one step, and so is each
  access to `m_remoteLookup`, which has no lock of its own.
* `Chat` makes a broadcast one step, and has the simulated network only as loss and
  delay. The end of a connection is one step with one notice: it does not have the
  meetings of threads that `PeerSlots` has.

## What the code does beyond the properties

Met while modelling, and left to notes in `PROJECT.json`:

* after the first disconnect that times out the worker returns, and no slot is
  served any more (`PacketQueue.cpp:194`), hence `worker` in `DisconnectEnds` and
  `ReadsGoOn`;
* `Update` takes the lock of the slot to "ensure we're not poking at this object from
  both the packet and socket thread" (`Handshaker.cpp:85`), but `DisconnectImmediate`
  completes a handshake without it, and `Handle` takes it after its only test
  (`Peer.cpp:163`, `HandshakerThreeWay.cpp:38`). When the timeout meets the socket
  thread, an attempt may be reported twice, or a handshaker is used that is gone: hence
  `met` in `ReportedOnce`, and the crash in `UnpinnedEnds`;
* likewise `DisconnectImmediate` tests and reports without the lock. When two threads
  end a slot at once, the application may be told twice or not at all
  (`Peer.cpp:156`): hence `mixed` in `NoticesPaired`;
* a peer that is bound again after `Stop` has a socket thread that ends at once
  (`SocketUDP.cpp:70`), hence `abort` in `ReadsGoOn` and `ConnectRuns`;
* a split `RPC_SIGNAL` is put together in `HandleSplitPacket`, which does not look at
  the command: it goes to the application, and its callbacks are not run, though
  `Enumerations.h:117` says that such commands are never returned
  (`PacketQueue.cpp:391`);
* an ordered channel withholds messages at the wrap of the sequence numbers, as the
  backlog is sorted by plain comparison (`ChannelBuffer.cpp:52`);
* a datagram that arrives late sets the expected id back, so that datagrams which did
  arrive are nacked again (`CongestionControl.cpp:179`);
* the nack of a datagram removes the only record from which the receipt of an
  unreliable packet could be given (`RemotePeer.cpp:84`);
* budgets add up to an MTU before the datagram header is counted
  (`CongestionControlWindow.cpp:26`);
* the server's key is resent encrypted, though `Peer.cpp:560` says it must not be, and
  a plain key that a client resends ends the server's slot; without a pinned key a
  late key of an earlier attempt may mix two key exchanges;
* two peers without free slots answer each other's rejections for ever.

## Not modelled

* Statistics (`PeerStats`): counters for display that nothing reads back.
* Clock and addresses: wrappers of system calls.
* C bindings, the C# wrapper and the factory: forwarding functions.
* `examples/Battleships` (a windowed game in C#), `examples/FileCopy` and
  `examples/HelloWorld`: input and output around calls whose promises are modelled.
* libsodium and asio, which are external.
* Of `BinaryStream`: nested serializable objects and moves. Of
  `RpcController`: removing slots and the hash of identifiers. Of `Peer`: getters,
  setters and moves.
