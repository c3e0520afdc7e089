--------------------------- MODULE OrderedDelivery ---------------------------
(***************************************************************************)
(* What ChannelMode promises of the messages sent on a channel, which are  *)
(* numbered from zero: an ORDERED channel hands them to the application in *)
(* the order of sending and leaves none out, a SEQUENCED channel never     *)
(* hands over a message older than one it has handed over before.          *)
(***************************************************************************)
EXTENDS Naturals, Sequences

CONSTANT MaxMessages

VARIABLES
  mode,   \* the mode of the channel, which never changes
  sent,   \* how many messages were sent
  inbox   \* the messages handed over, in this order

vars == <<mode, sent, inbox>>

Init == mode \in {"ORDERED", "SEQUENCED"} /\ sent = 0 /\ inbox = <<>>

Send == sent < MaxMessages[mode] /\ sent' = sent + 1 /\ UNCHANGED <<mode, inbox>>

\* Several messages that waited for one another may be handed over at once.
DeliverOrdered ==
  /\ mode = "ORDERED"
  /\ \E n \in Len(inbox) + 1 .. sent :
       inbox' = inbox \o [k \in 1 .. n - Len(inbox) |-> Len(inbox) + k - 1]
  /\ UNCHANGED <<mode, sent>>

DeliverSequenced ==
  /\ mode = "SEQUENCED"
  /\ \E m \in 0 .. sent - 1 :
       /\ \A k \in DOMAIN inbox : inbox[k] < m
       /\ inbox' = Append(inbox, m)
  /\ UNCHANGED <<mode, sent>>

Next == Send \/ DeliverOrdered \/ DeliverSequenced

Spec == Init /\ [][Next]_vars
=============================================================================
