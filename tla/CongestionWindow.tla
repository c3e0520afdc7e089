-------------------------- MODULE CongestionWindow --------------------------
(***************************************************************************)
(* CongestionControlWindow: the send window, the bytes in flight and the   *)
(* round trip times of one connection.  Link models what becomes of the    *)
(* packets; this module models the numbers that pace them.                 *)
(*                                                                         *)
(* Lengths are in bytes, times in milliseconds.  m_outgoing is the         *)
(* sequence of the datagrams in flight in the order of their ids.          *)
(***************************************************************************)
EXTENDS Integers, Sequences, FiniteSetsExt, Functions

CONSTANTS
  MTU,             \* cfg::MTU
  SSTHRESH,        \* cfg::CONGESTION_WINDOW_SSTHRESH
  RTT_HISTORY_LEN, \* cfg::CONGESTION_RTT_HISTORY_LEN
  TICK,            \* cfg::THREAD_SLEEP_PACKETQUEUE_TICK
  FIRST_RTO,       \* the delay of GetRetransmissionRTO without a history
  Lengths,         \* lengths a datagram may have
  Rtts,            \* round trip times that may be measured
  MaxWindow,       \* bound: the window grows no further from here
  MaxInFlight      \* bound on the datagrams in flight

ASSUME WindowAssumption ==
  /\ MTU \in Nat /\ MTU >= 8
  /\ SSTHRESH \in Nat /\ SSTHRESH >= MTU
ASSUME TimeAssumption ==
  /\ RTT_HISTORY_LEN \in Nat \ {0} /\ TICK \in Nat \ {0} /\ FIRST_RTO \in Nat \ {0}
  /\ Rtts \subseteq Nat
ASSUME BoundAssumption ==
  Lengths \subseteq Nat /\ MaxWindow \in Nat /\ MaxInFlight \in Nat

VARIABLES
  window,         \* m_window
  threshold,      \* m_threshold
  outgoing,       \* m_outgoing: the bytes of each datagram in flight
  bytesInFlight,  \* m_bytesInFlight
  rttHistory,     \* m_rttHistory
  rttMin, rttMax, rttAvg

flightVars == <<outgoing, bytesInFlight>>
rttVars == <<rttHistory, rttMin, rttMax, rttAvg>>
vars == <<window, threshold, flightVars, rttVars>>

Least(a, b) == IF a <= b THEN a ELSE b
Greatest(a, b) == IF a >= b THEN a ELSE b
Without(s, k) == SubSeq(s, 1, k - 1) \o SubSeq(s, k + 1, Len(s))
Sum(s) ==
  LET sum[k \in 0 .. Len(s)] == IF k = 0 THEN 0 ELSE sum[k - 1] + s[k]
  IN sum[Len(s)]

Init ==
  /\ window = MTU
  /\ threshold = SSTHRESH
  /\ outgoing = <<>> /\ bytesInFlight = 0
  /\ rttHistory = <<>> /\ rttMin = 0 /\ rttMax = 0 /\ rttAvg = 0

-----------------------------------------------------------------------------
\* The queries of the DatagramBuilder.
GetRetransmissionBudget == Least(bytesInFlight, MTU)

GetTransmissionBudget ==
  Least(IF bytesInFlight >= window THEN 0 ELSE window - bytesInFlight,
        MTU - GetRetransmissionBudget)

GetRTTHistoryAvailable == Len(rttHistory) >= 2

\* Mutant of GetRetransmissionRTO: the spread of the samples is not considered.
GetRetransmissionRTOPlain(retries) ==
  IF GetRTTHistoryAvailable THEN (2 * rttAvg + TICK) * (retries + 1) ELSE FIRST_RTO + TICK

\* The delay after which a packet sent `retries' times is due again.
GetRetransmissionRTO(retries) ==
  IF GetRTTHistoryAvailable
  THEN (2 * rttAvg + 4 * (rttMax - rttMin) + TICK) * (retries + 1)
  ELSE FIRST_RTO + TICK

GetIsSlowStart == window <= threshold

-----------------------------------------------------------------------------
\* A datagram leaves: NotifySendingBytes.
NotifySendingBytes ==
  /\ Len(outgoing) < MaxInFlight
  /\ \E bytes \in Lengths :
       /\ outgoing' = Append(outgoing, bytes)
       /\ bytesInFlight' = bytesInFlight + bytes
  /\ UNCHANGED <<window, threshold, rttVars>>

\* Mutant of Growth: the constant part is missing.
GrowthAdditive == (MTU * MTU) \div window

\* By how much an ack opens the window after slow start.
Growth == (MTU * MTU) \div window + MTU \div 8

\* RecalculateRTT over a history, which is not empty.
RecalculateRTT(history) ==
  /\ rttAvg' = Sum(history) \div Len(history)
  /\ rttMax' = Max(Range(history) \cup {0})
  /\ rttMin' = Min(Range(history))

\* NotifyReceivedAck.  The ack of a datagram that is no longer in flight, being
\* too old or acked before, opens the window like any other.
NotifyReceivedAck ==
  /\ window < MaxWindow
  /\ window' = window + IF GetIsSlowStart THEN MTU ELSE Growth
  /\ \/ \E k \in DOMAIN outgoing, rtt \in Rtts :
          LET history == Append(rttHistory, rtt)
              kept == IF Len(history) > RTT_HISTORY_LEN THEN Tail(history) ELSE history
          IN /\ rttHistory' = kept
             /\ RecalculateRTT(kept)
             /\ bytesInFlight' = bytesInFlight - outgoing[k]
             /\ outgoing' = Without(outgoing, k)
     \/ UNCHANGED <<flightVars, rttVars>>
  /\ UNCHANGED threshold

\* The slow start threshold after losses.
NakThreshold == Greatest(window \div 2, MTU * 2)

\* Mutant of NakWindow: half the window, as in TCP's fast recovery.
NakWindowHalf == window \div 2

\* The window after losses.
NakWindow == MTU

\* NotifyReceivedNakGroup, once for all the nacks of a datagram.
NotifyReceivedNakGroup ==
  /\ threshold' = NakThreshold
  /\ window' = NakWindow
  /\ UNCHANGED <<flightVars, rttVars>>

\* Mutant of Update: a datagram leaves m_outgoing but stays in the sum.
UpdateKeepsBytes ==
  /\ outgoing # <<>>
  /\ outgoing' = Tail(outgoing)
  /\ UNCHANGED <<window, threshold, bytesInFlight, rttVars>>

\* Update: the oldest datagram has been in flight for too long.  When several
\* have, the loop takes this step for each, and what it leaves in between is
\* what a call a moment earlier would have left.
Update ==
  /\ outgoing # <<>>
  /\ bytesInFlight' = bytesInFlight - Head(outgoing)
  /\ outgoing' = Tail(outgoing)
  /\ UNCHANGED <<window, threshold, rttVars>>

Next ==
  \/ NotifySendingBytes
  \/ NotifyReceivedAck
  \/ NotifyReceivedNakGroup
  \/ Update

Spec == Init /\ [][Next]_vars

-----------------------------------------------------------------------------
\* Types.  m_bytesInFlight is unsigned, so it must not be asked to go below
\* zero; it is the sum over m_outgoing, as Update asserts.
TypeOK ==
  /\ window \in Nat /\ threshold \in Nat
  /\ outgoing \in Seq(Lengths) /\ bytesInFlight = Sum(outgoing)
  /\ rttHistory \in Seq(Rtts) /\ Len(rttHistory) <= RTT_HISTORY_LEN
  /\ rttMin \in Nat /\ rttMax \in Nat /\ rttAvg \in Nat

\* The window of GetTransmissionBudget is never the smaller of the two limits:
\* what may be sent and what may be resent always add up to one MTU, which is
\* the assertion at the head of MakeDatagram.
WindowNeverLimits == GetTransmissionBudget + GetRetransmissionBudget = MTU

\* Once two round trips are known, a packet is never due again before the
\* slowest round trip on record would have brought its acknowledgement.
RtoCoversHistory ==
  GetRTTHistoryAvailable =>
    \A k \in DOMAIN rttHistory : \A retries \in 0 .. 1 :
      GetRetransmissionRTO(retries) > rttHistory[k]

\* Every ack opens the window, and every group of nacks leads back to slow
\* start, wherever the window and the threshold stand.
WindowFollowsFeedback ==
  [][/\ NotifyReceivedAck => window' > window
     /\ NotifyReceivedNakGroup => GetIsSlowStart']_vars
=============================================================================
