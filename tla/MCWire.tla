------------------------------- MODULE MCWire -------------------------------
(***************************************************************************)
(* Instances of Wire for TLC.  Lengths are those of wirefox divided by 16, *)
(* which keeps the proportion of chunks to capacities: segments of 1200    *)
(* bytes, streams that begin with 128.  The headers keep their lengths,    *)
(* for which the MTU leaves room.                                          *)
(***************************************************************************)
EXTENDS Wire

\* A message of one to three segments, the last of them short or full; one of two
\* segments; a short one for the library.
ThreeMessages == {1, 2, 3}
ThreeSizes == <<{20, 75, 76, 151, 225}, {76, 150}, {10}>>
ThreeCommands == <<USER_PACKET, USER_PACKET + 1, 6>>

\* One message of four segments, the last of them short or full.
FourMessages == {1}
FourSizes == <<{226, 300}>>
FourCommands == <<USER_PACKET>>
=============================================================================
