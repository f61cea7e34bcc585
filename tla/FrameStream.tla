----------------------------- MODULE FrameStream -----------------------------
(***************************************************************************)
(* The imperative front of the pipeline: crates/fmn-runtime/src/stream.rs. *)
(* One owner thread, the front, produces frames for a FramePipeline that   *)
(* runs on a coordinator thread of its own.  The pipeline's scene is the   *)
(* Source iterator: asked for an event, it puts a ticket into a channel of *)
(* one and waits to be answered through it.  The front takes the ticket    *)
(* (reserve), may only then freeze a frame, and hands it over in a         *)
(* rendezvous (submit).  A flush sends a barrier the same way and waits    *)
(* for its acknowledgement in another channel of one.                      *)
(*                                                                         *)
(* The pipeline is module FramePipeline with its scene and its barrier     *)
(* callback replaced by these.  recv_timeout answers at once when the      *)
(* channel has something to say, and otherwise may expire at any time.     *)
(***************************************************************************)
EXTENDS FramePipeline

VARIABLES
  front,      \* where the owner of the stream is
  wanted,     \* what the reservation is for: a frame or a flush
  freezing,   \* the sequence of the frame being submitted, 0 for a barrier
  sealed,     \* FrameStream::requests is dropped
  ticket,     \* the sender of the current ticket: where it is
  source,     \* where Source::next is
  acks,       \* acknowledgements waiting in the barrier channel
  taken,      \* history: sequences for which submit returned Ok
  forfeited   \* history: a permit was dropped without submitting

frontVars == <<front, wanted, freezing, sealed>>
historyVars == <<taken, forfeited>>
streamVars == <<frontVars, ticket, source, acks, historyVars>>
pipeVars == <<coord, flushing, spawned, previous, coordVars, slots, completions, inputClosed,
              workerVars, logVars>>
allVars == <<vars, streamVars>>

(* One type invariant: the front, the ticket, and the two channels of one. *)
StreamTypeOK ==
  /\ TypeOK
  /\ front \in {"idle", "reserve", "demand", "permit", "abandon", "submit", "await", "ack",
                "seal", "join", "done"}
  /\ wanted \in {"frame", "flush"}
  /\ freezing \in 0 .. MaxSequence
  /\ sealed \in BOOLEAN
  /\ ticket \in {"none", "queued", "held", "dropped"}
  /\ source \in {"idle", "check", "receive"}
  /\ acks \in 0 .. 1
  /\ taken \in Seq(FrameIds)
  /\ forfeited \in BOOLEAN

StreamInit ==
  /\ Init /\ ~cancelled
  /\ front = "idle" /\ wanted = "frame" /\ freezing = 0 /\ sealed = FALSE
  /\ ticket = "none" /\ source = "idle"
  /\ acks = 0
  /\ taken = <<>> /\ forfeited = FALSE

-----------------------------------------------------------------------------
(* Source::next, on the coordinator thread. *)

\* Scene steps of the pipeline that do not answer a ticket.
Asked == UNCHANGED <<frontVars, acks, historyVars, spawned, workerVars>>

SourceEnds == SceneEnds /\ source' = "idle" /\ UNCHANGED ticket

SourceAsks ==
  /\ At("pull") /\ source = "idle"
  /\ IF cancelled \/ sealed
     THEN SourceEnds
     ELSE /\ ticket' = "queued" /\ source' = "check"
          /\ UNCHANGED <<coord, flushing, previous, coordVars, cancelled, slots, completions,
                         inputClosed, logVars>>
  /\ Asked

SourceChecks ==
  /\ source = "check"
  /\ IF cancelled
     THEN SourceEnds
     ELSE /\ source' = "receive"
          /\ UNCHANGED <<coord, flushing, previous, coordVars, cancelled, slots, completions,
                         inputClosed, logVars, ticket>>
  /\ Asked

SourceDisconnected ==
  /\ source = "receive" /\ ticket = "dropped"
  /\ SourceEnds
  /\ Asked

SourceTimesOut ==
  /\ source = "receive" /\ ticket # "dropped" /\ front # "submit"
  /\ source' = "check"
  /\ UNCHANGED <<coord, flushing, previous, coordVars, cancelled, slots, completions,
                 inputClosed, logVars, ticket>>
  /\ Asked

\* The rendezvous: submit returns Ok and next() returns the event.
HandOver ==
  /\ source = "receive" /\ front = "submit"
  /\ source' = "idle" /\ ticket' = "none"
  /\ IF wanted = "flush"
     THEN SceneBarrier /\ front' = "await" /\ UNCHANGED taken
     ELSE /\ SceneFrame(freezing) /\ front' = "idle"
          /\ taken' = Append(taken, freezing)
  /\ freezing' = 0
  /\ UNCHANGED <<wanted, sealed, acks, forfeited, spawned, workerVars>>

\* The barrier callback: barrier_sender.send, which blocks while one is waiting.
BarrierAcknowledges ==
  /\ acks < 1
  /\ BarrierRuns
  /\ acks' = acks + 1
  /\ UNCHANGED <<frontVars, ticket, source, historyVars, spawned, workerVars>>

SourceStep ==
  \/ SourceAsks
  \/ SourceChecks
  \/ SourceDisconnected
  \/ SourceTimesOut
  \/ HandOver

StreamCoordinator ==
  \/ SourceStep
  \/ BarrierAcknowledges
  \/ /\ \/ SpawnWorker
        \/ SpawnRefused
        \/ EmitReady
        \/ SendToPrepare
        \/ RunStep /\ UNCHANGED <<spawned, workerVars>>
     /\ UNCHANGED streamVars

-----------------------------------------------------------------------------
(* FrameStream and FramePermit, on the owner's thread. *)

\* The source iterator, and with it the sender of tickets, goes with the run.
SourceGone == coord \in {"joining", "done"}

Goto(place) == front' = place /\ UNCHANGED <<wanted, freezing, sealed>>
Closed == Goto("idle")

\* The front changes nothing of the pipeline.
FrontOnly == UNCHANGED <<pipeVars, source>>

Reserve(purpose) ==
  /\ front = "idle" /\ ~sealed
  /\ purpose = "flush" => barriers < MaxBarriers
  /\ front' = "reserve" /\ wanted' = purpose
  /\ UNCHANGED <<freezing, sealed, ticket, acks, historyVars, cancelled>>

ReserveChecks ==
  /\ front = "reserve"
  /\ IF cancelled THEN Closed ELSE Goto("demand")
  /\ UNCHANGED <<ticket, acks, historyVars, cancelled>>

ReserveTakes ==
  /\ front = "demand" /\ ticket = "queued"
  /\ ticket' = "held"
  /\ Goto(IF wanted = "flush" THEN "submit" ELSE "permit")
  /\ UNCHANGED <<acks, historyVars, cancelled>>

ReserveMisses ==
  /\ front = "demand" /\ ticket # "queued"
  /\ IF SourceGone THEN Closed ELSE Goto("reserve")
  /\ UNCHANGED <<ticket, acks, historyVars, cancelled>>

Submit(s) ==
  /\ front = "permit"
  /\ front' = "submit" /\ freezing' = s
  /\ UNCHANGED <<wanted, sealed, ticket, acks, historyVars, cancelled>>

\* Nobody receives from the ticket any more: the frame is given back.
SubmitRefused ==
  /\ front = "submit" /\ source = "idle"
  /\ ticket' = "none" /\ front' = "idle" /\ freezing' = 0
  /\ UNCHANGED <<wanted, sealed, acks, historyVars, cancelled>>

\* Mutation of AbandonPermit: the sender is dropped without cancelling.
AbandonPermitQuietly ==
  /\ front = "permit"
  /\ forfeited' = TRUE
  /\ Goto("abandon")
  /\ UNCHANGED <<ticket, acks, taken, cancelled>>

\* FramePermit::drop cancels, and only then is the sender dropped.
AbandonPermit ==
  /\ front = "permit"
  /\ cancelled' = TRUE /\ forfeited' = TRUE
  /\ Goto("abandon")
  /\ UNCHANGED <<ticket, acks, taken>>

PermitGone ==
  /\ front = "abandon"
  /\ ticket' = "dropped"
  /\ Goto("idle")
  /\ UNCHANGED <<acks, historyVars, cancelled>>

FlushChecks ==
  /\ front = "await"
  /\ IF cancelled THEN Closed ELSE Goto("ack")
  /\ UNCHANGED <<ticket, acks, historyVars, cancelled>>

FlushReturns ==
  /\ front = "ack" /\ acks > 0
  /\ acks' = acks - 1
  /\ Goto("idle")
  /\ UNCHANGED <<ticket, historyVars, cancelled>>

\* Mutation of FlushMisses: a flush gives up after one STOP_CHECK.
FlushGivesUp ==
  /\ front = "ack" /\ acks = 0
  /\ Closed
  /\ UNCHANGED <<ticket, acks, historyVars, cancelled>>

FlushMisses ==
  /\ front = "ack" /\ acks = 0
  /\ IF SourceGone THEN Closed ELSE Goto("await")
  /\ UNCHANGED <<ticket, acks, historyVars, cancelled>>

\* Dropping the receiver drops the ticket that waits in it.
CloseInput ==
  /\ sealed' = TRUE
  /\ ticket' = IF ticket = "queued" THEN "dropped" ELSE ticket

SealInput ==
  /\ front = "idle" /\ ~sealed
  /\ CloseInput
  /\ UNCHANGED <<front, wanted, freezing, acks, historyVars, cancelled>>

Finish ==
  /\ front = "idle"
  /\ CloseInput
  /\ front' = "join"
  /\ UNCHANGED <<wanted, freezing, acks, historyVars, cancelled>>

\* cancel() and drop: the token first, then the receiver.
CancelStream ==
  /\ front = "idle"
  /\ cancelled' = TRUE
  /\ Goto("seal")
  /\ UNCHANGED <<ticket, acks, historyVars>>

CancelSeals ==
  /\ front = "seal"
  /\ CloseInput
  /\ front' = "join"
  /\ UNCHANGED <<wanted, freezing, acks, historyVars, cancelled>>

Join ==
  /\ front = "join" /\ coord = "done"
  /\ Goto("done")
  /\ UNCHANGED <<ticket, acks, historyVars, cancelled>>

\* What the owner decides to do next.
FrontCalls ==
  /\ \/ \E purpose \in {"frame", "flush"} : Reserve(purpose)
     \/ \E s \in FrameIds : Submit(s)
     \/ AbandonPermit
     \/ SealInput
     \/ Finish
     \/ CancelStream
  /\ FrontOnly

\* What a call it is in does next.
FrontContinues ==
  /\ \/ ReserveChecks
     \/ ReserveTakes
     \/ ReserveMisses
     \/ SubmitRefused
     \/ PermitGone
     \/ FlushChecks
     \/ FlushReturns
     \/ FlushMisses
     \/ CancelSeals
     \/ Join
  /\ FrontOnly

TokenCancelled == HostCancels /\ UNCHANGED streamVars

StreamEnded == front = "done" /\ UNCHANGED allVars

StreamNext ==
  \/ StreamCoordinator
  \/ (\E w \in Workers : WorkerStep(w)) /\ UNCHANGED streamVars
  \/ FrontCalls
  \/ FrontContinues
  \/ TokenCancelled
  \/ StreamEnded

StreamSpec == StreamInit /\ [][StreamNext]_allVars

\* Threads keep running; nothing obliges the owner to make another call.
StreamFairness ==
  /\ WF_allVars(StreamCoordinator)
  /\ WF_allVars(FrontContinues)
  /\ \A w \in Workers : WF_allVars(WorkerStep(w) /\ UNCHANGED streamVars)

FairStreamSpec == StreamSpec /\ StreamFairness

-----------------------------------------------------------------------------
(* Properties. *)

(* finish returns Ok only if every frame whose submit returned Ok was        *)
(* emitted, and no permit was dropped on the way.                            *)
FinishOkIsComplete ==
  front = "done" /\ error = "None" => emitted = taken /\ ~forfeited

(* flush returns Ok only when every frame submitted so far was emitted.      *)
FlushMeansEmitted ==
  [][FlushReturns => emitted = taken]_allVars

(* Every call the owner makes comes back to it: no refusal, failure or       *)
(* cancellation leaves a reserve, a submit, a flush or a finish waiting.     *)
CallsReturn ==
  /\ front \in {"submit", "await", "ack", "abandon"} ~> front = "idle"
  /\ front \in {"reserve", "demand"} ~> front \in {"idle", "permit"}
  /\ front \in {"seal", "join"} ~> front = "done"

(* Seen by its owner, the stream is ordered delivery through a bounded       *)
(* window: what submit accepted is emitted in that order, all of it on Ok.   *)
StreamOutcome == IF front # "done" THEN "running" ELSE IF failed THEN "failed" ELSE "complete"

Promise == INSTANCE OrderedDelivery WITH
  Window <- Limit, Items <- FrameIds,
  given <- taken, handed <- emitted, outcome <- StreamOutcome

StreamDeliversInOrder == Promise!DSafety
=============================================================================
