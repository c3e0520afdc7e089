------------------------- MODULE MCCongestionWindow -------------------------
(***************************************************************************)
(* An instance of CongestionWindow for TLC.  The MTU is the smallest for   *)
(* which MTU / 8 is not zero; MaxWindow lies beyond MTU * MTU, from where  *)
(* on the integer division in the growth of the window is zero.            *)
(***************************************************************************)
EXTENDS CongestionWindow

TwoLengths == {1, 9}
ThreeRtts == {0, 1, 20}
=============================================================================
