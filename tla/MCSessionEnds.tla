---------------------------- MODULE MCSessionEnds ----------------------------
(* Instances of SessionEnds for TLC.                                       *)
EXTENDS SessionEnds

CONSTANTS h1, h2
=============================================================================
