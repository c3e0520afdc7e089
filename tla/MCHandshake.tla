----------------------------- MODULE MCHandshake -----------------------------
(***************************************************************************)
(* Instances of Handshake for TLC.                                         *)
(***************************************************************************)
EXTENDS Handshake

AllPins == {"none", "right", "wrong"}
AllSecurity == [Side -> BOOLEAN]
=============================================================================
