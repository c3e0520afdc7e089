----------------------------- MODULE MCPeerSlots -----------------------------
(***************************************************************************)
(* Instances of PeerSlots for TLC.                                         *)
(***************************************************************************)
EXTENDS PeerSlots

CONSTANTS a1, a2, i1

\* A peer that may come back from another address.
Remotes == {<<a1, i1>>, <<a2, i1>>}
=============================================================================
