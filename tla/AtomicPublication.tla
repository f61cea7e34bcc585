-------------------------- MODULE AtomicPublication --------------------------
(***************************************************************************)
(* What the ordered emitter promises of a stream fanned out to several     *)
(* sinks, without rings, locks or condition variables: frames are reserved *)
(* and then emitted one at a time; a single irrevocable verdict ends the   *)
(* stream; a commit verdict is possible only when nothing reserved is      *)
(* missing, and is never overtaken by an abort of the whole stream; every  *)
(* sink is in the end either published or discarded.                       *)
(***************************************************************************)
EXTENDS Integers, FiniteSets

CONSTANT NumSinks

VARIABLES reserved, emitted, verdict, published, discarded

avars == <<reserved, emitted, verdict, published, discarded>>

ASinks == 1 .. NumSinks

AInit ==
  /\ reserved = 0 /\ emitted = 0
  /\ verdict = "open"
  /\ published = {} /\ discarded = {}

ReserveFrame ==
  /\ verdict = "open"
  /\ reserved' = reserved + 1
  /\ UNCHANGED <<emitted, verdict, published, discarded>>

\* A frame in flight when the stream is aborted still reaches the sinks.
EmitFrame ==
  /\ verdict \in {"open", "abort"} /\ discarded = {}
  /\ emitted < reserved
  /\ emitted' = emitted + 1
  /\ UNCHANGED <<reserved, verdict, published, discarded>>

Abort ==
  /\ verdict = "open" /\ verdict' = "abort"
  /\ UNCHANGED <<reserved, emitted, published, discarded>>

\* The last frame can also be the one whose delivery failed.
Commit ==
  /\ verdict = "open" /\ verdict' = "commit"
  /\ emitted = reserved
  /\ UNCHANGED <<reserved, emitted, published, discarded>>

\* Sinks are published in order, so the published ones are always a prefix.
PublishSink ==
  /\ verdict = "commit"
  /\ \E k \in ASinks :
       /\ published = 1 .. k - 1
       /\ published' = published \cup {k}
  /\ UNCHANGED <<reserved, emitted, verdict, discarded>>

BreakCommit ==
  /\ verdict = "commit" /\ verdict' = "broken"
  /\ published # ASinks
  /\ UNCHANGED <<reserved, emitted, published, discarded>>

DiscardSink ==
  /\ verdict \in {"abort", "broken"}
  /\ \E k \in ASinks \ (published \cup discarded) : discarded' = discarded \cup {k}
  /\ UNCHANGED <<reserved, emitted, verdict, published>>

ANext ==
  \/ ReserveFrame
  \/ EmitFrame
  \/ Abort
  \/ Commit
  \/ PublishSink
  \/ BreakCommit
  \/ DiscardSink

SettleSinks == PublishSink \/ BreakCommit \/ DiscardSink

\* What may happen, and that settling sinks does.
ASafety == AInit /\ [][ANext]_avars

ASpec == ASafety /\ WF_avars(SettleSinks)
=============================================================================
