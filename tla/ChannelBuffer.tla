---------------------------- MODULE ChannelBuffer ----------------------------
(***************************************************************************)
(* One direction of a channel: GetNextOutgoing on the sending side, the    *)
(* ChannelBuffer of the receiving side and the inbox behind it.  Messages  *)
(* arrive once each, in any order; on an unreliable channel some are lost. *)
(*                                                                         *)
(* Sequence numbers are unsigned and wrap at SPAN, which is 2^32 in the    *)
(* code.  m_backlog is an std::map, so its first entry is the one with the *)
(* least number.                                                           *)
(***************************************************************************)
EXTENDS Integers, Sequences, FiniteSets, FiniteSetsExt, Functions

CONSTANTS
  SPAN,          \* number of SequenceIDs
  Spread,        \* bound: how far ahead of a message in transit one may be sent
  MaxMessages,   \* bound on the messages sent, for each mode
  MaxLost        \* bound on the messages lost

ChannelMode == {"ORDERED", "SEQUENCED"}

ASSUME SpanAssumption == SPAN \in Nat /\ SPAN >= 2
ASSUME BoundAssumption ==
  Spread \in Nat \ {0} /\ MaxMessages \in [ChannelMode -> Nat] /\ MaxLost \in Nat

VARIABLES
  mode,          \* the ChannelMode the channel was made with
  sent,          \* history: number of messages sent
  outgoing,      \* m_outgoing of the sender
  transit,       \* messages under way, with their sequence numbers
  nextEnqueue,   \* m_nextEnqueue
  nextDequeue,   \* m_nextDequeue
  backlog,       \* m_backlog: from sequence number to message
  inbox,         \* m_inbox
  lost           \* number of messages lost

vars == <<mode, sent, outgoing, transit, nextEnqueue, nextDequeue, backlog, inbox, lost>>

\* Unsigned arithmetic and the comparisons that account for its overflow.
Succ(n) == (n + 1) % SPAN
HalfSpan == (SPAN - 1) \div 2
SequenceLessThan(l, r) == l # r /\ (r - l) % SPAN < HalfSpan
SequenceGreaterThanOrEqual(l, r) == l = r \/ (r - l) % SPAN > HalfSpan

\* What comparisons of numbers that wrap need: messages that may still meet are
\* less than half of all numbers apart, and the map, which knows nothing of the
\* wrap, is not used that long on an ordered channel.
ASSUME WindowAssumption ==
  /\ Spread < HalfSpan /\ Spread + MaxLost <= HalfSpan + 1
  /\ MaxMessages["ORDERED"] < SPAN

Init ==
  /\ mode \in ChannelMode
  /\ sent = 0 /\ outgoing = 0 /\ transit = {}
  /\ nextEnqueue = 0 /\ nextDequeue = 0
  /\ backlog = [s \in {} |-> 0]
  /\ inbox = <<>> /\ lost = 0

\* EnqueueOutgoing assigns the next number of the channel.
Send ==
  /\ sent < MaxMessages[mode]
  /\ \A m \in transit : sent - m.message < Spread
  /\ transit' = transit \cup {[message |-> sent, sequence |-> outgoing]}
  /\ outgoing' = Succ(outgoing)
  /\ sent' = sent + 1
  /\ UNCHANGED <<mode, nextEnqueue, nextDequeue, backlog, inbox, lost>>

\* The message is lost for good: it was sent unreliably.
Lose ==
  /\ lost < MaxLost
  /\ \E m \in transit : transit' = transit \ {m}
  /\ lost' = lost + 1
  /\ UNCHANGED <<mode, sent, outgoing, nextEnqueue, nextDequeue, backlog, inbox>>

\* Mutant of IsStale: the number expected next is too old as well.
IsStaleEqual(sequence) ==
  /\ mode = "SEQUENCED"
  /\ sequence = nextEnqueue \/ SequenceLessThan(sequence, nextEnqueue)

\* Enqueue discards what is out of date on a sequenced channel.
IsStale(sequence) == mode = "SEQUENCED" /\ SequenceLessThan(sequence, nextEnqueue)

\* Mutants of IsEligible: no order, and a strict comparison.
IsEligibleAlways(next, sequence) == TRUE
IsEligibleStrict(next, sequence) ==
  mode = "ORDERED" => next # sequence /\ SequenceGreaterThanOrEqual(next, sequence)

\* IsEligible when m_nextDequeue is `next'.
IsEligible(next, sequence) ==
  mode = "ORDERED" => SequenceGreaterThanOrEqual(next, sequence)

\* Enqueue.  emplace leaves an entry alone that is there already.
Enqueued(m) ==
  IF IsStale(m.sequence) \/ m.sequence \in DOMAIN backlog THEN backlog
  ELSE [s \in DOMAIN backlog \cup {m.sequence} |->
          IF s = m.sequence THEN m.message ELSE backlog[s]]

\* m_nextDequeue when the entries of the map before s have been taken.
NextAt(map, s) ==
  LET below == {x \in DOMAIN map : x < s}
  IN IF below = {} THEN nextDequeue ELSE Succ(Max(below))

\* The entries that repeated calls of Dequeue take from the map: from the least
\* on, as long as each is eligible after the one before it.
Dequeued(map) ==
  {s \in DOMAIN map : \A x \in DOMAIN map : x <= s => IsEligible(NextAt(map, x), x)}

\* Their messages, in the order of the map.
Payloads(map, out) ==
  [k \in 1 .. Cardinality(out) |->
     map[CHOOSE s \in out : Cardinality({x \in out : x < s}) = k - 1]]

\* HandleIncomingPacket: Enqueue, then Dequeue until nothing is eligible.
HandleIncomingPacket ==
  \E m \in transit :
    LET map == Enqueued(m)
        out == Dequeued(map)
    IN
    /\ transit' = transit \ {m}
    /\ nextEnqueue' = IF mode = "SEQUENCED" /\ ~ IsStale(m.sequence)
                      THEN Succ(m.sequence) ELSE nextEnqueue
    /\ nextDequeue' = IF out = {} THEN nextDequeue ELSE Succ(Max(out))
    /\ inbox' = inbox \o Payloads(map, out)
    /\ backlog' = Restrict(map, DOMAIN map \ out)
    /\ UNCHANGED <<mode, sent, outgoing, lost>>

Next == Send \/ Lose \/ HandleIncomingPacket

Spec == Init /\ [][Next]_vars

\* The network delivers every message that is not lost.
FairSpec == Spec /\ WF_vars(HandleIncomingPacket)

-----------------------------------------------------------------------------
\* The channel implements what its mode promises.
Promise ==
  INSTANCE OrderedDelivery WITH mode <- mode, sent <- sent, inbox <- inbox

DeliversInOrder == Promise!Spec

\* A message that is next in order is never withheld: the first entry of the map
\* is the only one that Dequeue needs to look at.
NothingWithheld == mode = "ORDERED" => nextDequeue \notin DOMAIN backlog

\* Every message is handed over or, on a sequenced channel, overtaken by a later
\* one, unless the network has lost a message.
EveryMessageArrives ==
  \A n \in 0 .. MaxMessages["SEQUENCED"] - 1 :
    sent > n ~> \/ \E k \in DOMAIN inbox : inbox[k] >= n
                \/ lost > 0

-----------------------------------------------------------------------------
(***************************************************************************)
(* The inductive invariant of ChannelBuffer_proofs.                        *)
(***************************************************************************)

TypeOK ==
  /\ mode \in ChannelMode /\ sent \in 0 .. MaxMessages[mode] /\ outgoing = sent % SPAN
  /\ transit \subseteq [message : 0 .. sent - 1, sequence : 0 .. SPAN - 1]
  /\ nextEnqueue \in 0 .. SPAN - 1 /\ nextDequeue \in 0 .. SPAN - 1
  /\ inbox \in Seq(Nat) /\ lost \in 0 .. MaxLost

\* A message carries its number, and those sent meanwhile are not far ahead.
TransitOK ==
  \A m \in transit : m.sequence = m.message % SPAN /\ sent - m.message <= Spread

\* On an ordered channel: the messages that will not arrive any more.
Missing ==
  {n \in Len(inbox) .. sent - 1 :
     n \notin DOMAIN backlog /\ \A m \in transit : m.message # n}

\* An ordered channel has handed over the messages before m_nextDequeue, and the map
\* has later ones, not the next.  A message is in one place only.
OrderedOK ==
  /\ nextDequeue = Len(inbox) /\ Len(inbox) <= sent
  /\ DOMAIN backlog \subseteq Len(inbox) .. sent - 1
  /\ backlog = [s \in DOMAIN backlog |-> s]
  /\ \A m \in transit : m.message >= Len(inbox) /\ m.message \notin DOMAIN backlog
  /\ Cardinality(Missing) <= lost
  /\ nextDequeue \notin DOMAIN backlog

\* The number after the latest message that a sequenced channel has handed over.
Latest == IF inbox = <<>> THEN 0 ELSE inbox[Len(inbox)] + 1

\* A sequenced channel keeps nothing, and knows what it has handed over last.
SequencedOK ==
  /\ DOMAIN backlog = {}
  /\ Latest <= sent /\ nextEnqueue = Latest % SPAN
  /\ \A k \in DOMAIN inbox : inbox[k] < Latest
  /\ \A m \in transit : m.message + 1 # Latest

ChannelInv ==
  /\ TypeOK /\ TransitOK
  /\ mode = "ORDERED" => OrderedOK
  /\ mode = "SEQUENCED" => SequencedOK
=============================================================================
