----------------------------- MODULE MCGateway -----------------------------
(***************************************************************************)
(* Two requests, an upstream and the fallback, and a pool that one of the  *)
(* requests or the probe can fill alone.                                   *)
(***************************************************************************)
EXTENDS Gateway, TLC

CONSTANTS fp16, triage

MCPosition == fp16 :> 1
MCRoutes == triage :> fp16
MCAsks == [task : {triage}, stream : BOOLEAN]
MCSamples == {0, 1}
=============================================================================
