---------------------------- MODULE MCClipUpload ----------------------------
(* Instances of ClipUpload for TLC.                                        *)
EXTENDS ClipUpload

CONSTANTS ann, bob
=============================================================================
