------------------------------ MODULE MCRouter ------------------------------
(***************************************************************************)
(* Two upstreams: fp16 is polled first and has a metrics page; awq comes   *)
(* second, has none, and takes the routed task.                            *)
(***************************************************************************)
EXTENDS Router, TLC

CONSTANTS fp16, awq, triage, other

MCUpstreams == {fp16, awq}
MCPosition == fp16 :> 1 @@ awq :> 2
MCRoutes == triage :> awq
MCTasks == {triage, other}
=============================================================================
