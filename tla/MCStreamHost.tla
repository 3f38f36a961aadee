---------------------------- MODULE MCStreamHost ----------------------------
(* Instances of StreamHost for TLC: its constants are numbers.               *)
EXTENDS StreamHost
=============================================================================
