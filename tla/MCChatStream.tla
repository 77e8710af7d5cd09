---------------------------- MODULE MCChatStream ----------------------------
(***************************************************************************)
(* ChatStream for TLC: one answer of two words, three tokens.              *)
(***************************************************************************)
EXTENDS ChatStream, TLC

CONSTANT r1

MCRequests == {r1}
MCWords == r1 :> 2
MCTokens == r1 :> 3
=============================================================================
