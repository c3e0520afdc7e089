------------------------------- MODULE MCLink -------------------------------
(***************************************************************************)
(* Instances of Link for TLC.  The unit of length is the DatagramHeader.   *)
(***************************************************************************)
EXTENDS Link, TLC

CONSTANTS A, B

Peers == {A, B}

Msg(options, segments, length) ==
  [options |-> options, segments |-> segments, length |-> length]

\* One side sends reliable messages, the other only acknowledges.
ReliableOneWay == (A :> {Msg({"RELIABLE", "WITH_RECEIPT"}, 1, 2)}) @@ (B :> {})

\* The same, and unreliable messages that are cut in two segments.
ReliableOrSplit ==
  (A :> {Msg({"RELIABLE", "WITH_RECEIPT"}, 1, 2), Msg({"WITH_RECEIPT"}, 2, 1)}) @@ (B :> {})

\* Reliable and unreliable messages that share datagrams.
Mixed ==
  (A :> {Msg({}, 1, 2), Msg({"RELIABLE", "WITH_RECEIPT"}, 1, 1), Msg({"RELIABLE", "WITH_RECEIPT"}, 1, 2)})
  @@ (B :> {})
=============================================================================
