---------------------------- MODULE MCPushLimiter ----------------------------
(* Instances of PushLimiter for TLC.                                       *)
EXTENDS PushLimiter

CONSTANTS u1, u2, crewA, crewB
=============================================================================
