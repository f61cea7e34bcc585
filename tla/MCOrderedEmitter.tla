--------------------------- MODULE MCOrderedEmitter ---------------------------
(* Instances of OrderedEmitter for TLC. *)
EXTENDS OrderedEmitter

CONSTANTS d1, d2

MCDispatchers == {d1, d2}
MCSecondSink == {2}
=============================================================================
