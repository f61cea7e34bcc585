---------------------------- MODULE MCFrameStream ----------------------------
(* Instances of FrameStream for TLC. *)
EXTENDS FrameStream
=============================================================================
