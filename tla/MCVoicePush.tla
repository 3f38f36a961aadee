----------------------------- MODULE MCVoicePush -----------------------------
(* Instances of VoicePush for TLC.                                         *)
EXTENDS VoicePush

CONSTANTS p1, p2, loop
=============================================================================
