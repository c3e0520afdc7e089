------------------------------- MODULE MCChat -------------------------------
(***************************************************************************)
(* Two clients, and two attempts to connect: of one client, or of both.    *)
(***************************************************************************)
EXTENDS Chat

CONSTANTS ann, bob

MCClient == {ann, bob}
MCMaxInputs == [c \in MCClient |-> IF c = ann THEN 1 ELSE 0]
=============================================================================
