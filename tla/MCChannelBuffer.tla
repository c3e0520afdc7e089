--------------------------- MODULE MCChannelBuffer ---------------------------
(***************************************************************************)
(* An instance of ChannelBuffer for TLC.  The numbers of the sequenced     *)
(* channel wrap, those of the ordered one do not.                          *)
(***************************************************************************)
EXTENDS ChannelBuffer

Messages == [m \in ChannelMode |-> IF m = "SEQUENCED" THEN SPAN + 2 ELSE SPAN - 1]
=============================================================================
