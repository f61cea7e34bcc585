------------------------- MODULE FrameStreamProofs -------------------------
(***************************************************************************)
(* The safety of the stream's owner, for every size of the pipeline behind *)
(* it.  Every step of the stream is a step of the pipeline or leaves it    *)
(* alone, so all that is proved of the pipeline holds of it; what is added *)
(* is who holds the ticket and what the flags of a stopped run have to say *)
(* before the owner may believe that all was emitted.                      *)
(***************************************************************************)
EXTENDS FrameStream, FramePipelineProofs

-----------------------------------------------------------------------------
(* The invariant. *)

\* The source iterator waits for its ticket inside next(), and nowhere else.
Waiting == source # "idle" => At("pull")

\* A permit is the ticket's sender.
PermitsAreHeld == front \in {"permit", "abandon", "submit"} => ticket = "held"

\* The run is stopping, and will say so when it ends.
Stopping == cancelled /\ (SourceGone => failed)

\* A sender that outlives its ticket, and a permit given up, mean the run stops.
StaleTickets == source = "idle" /\ ticket \in {"queued", "held"} => Stopping
Forfeits == forfeited => Stopping

\* Frames taken from the owner are those submitted, while nothing has failed.
TakenAreSubmitted ==
  /\ ~failed => taken = submitted
  /\ front = "submit" /\ wanted = "frame" => freezing \in FrameIds
  /\ front = "done" => coord = "done"

\* An acknowledgement waits for the flush that asked for it, with everything
\* emitted; a flush that gave up did so because the token is raised.
Flushes ==
  /\ acks > 0 =>
       /\ emitted = taken
       /\ \/ front \in {"await", "ack"}
          \/ cancelled /\ front \notin {"demand", "permit", "submit"}
  /\ coord = "barrier" => cancelled \/ (front \in {"await", "ack"} /\ acks = 0)

StreamInv ==
  /\ PipelineInv /\ StreamTypeOK
  /\ Waiting /\ PermitsAreHeld /\ StaleTickets /\ Forfeits /\ TakenAreSubmitted /\ Flushes

-----------------------------------------------------------------------------
(* Every step of the stream is a step of the pipeline, or none. *)

\* The steps of the pipeline's threads that the stream leaves as they are.
InnerStep ==
  \/ SpawnWorker \/ SpawnRefused \/ EmitReady \/ SendToPrepare
  \/ RunStep /\ UNCHANGED <<spawned, workerVars>>
  \/ \E w \in Workers : WorkerStep(w)
  \/ HostCancels

\* An inner step is a step of the pipeline.
LEMMA InnerIsPipeline ==
    ASSUME InnerStep
    PROVE  Next
  BY DEF InnerStep, Next, CoordinatorStep, CoordinatorLoop

\* They submit nothing, and do not move the coordinator while it asks for a
\* frame or into a barrier.
LEMMA InnerEffect ==
    ASSUME InnerStep
    PROVE  /\ UNCHANGED submitted
           /\ At("pull") => At("pull")'
           /\ coord' = "barrier" => coord = "barrier"
  <1>1. CASE SpawnWorker \/ SpawnRefused \/ SendToPrepare
    BY <1>1 DEF SpawnWorker, SpawnRefused, SendToPrepare, At, Stay, logVars
  <1>2. CASE EmitReady
    BY <1>2 DEF EmitReady, At
  <1>3. CASE RunStep
    <2>1. CASE OpenScene \/ LoopHead \/ GateWaits \/ GatePasses \/ ReceiveReady
      BY <2>1 DEF OpenScene, LoopHead, GateWaits, GatePasses, ReceiveReady, At, Stay, Break, logVars
    <2>2. CASE BarrierDrains \/ BarrierSkipped \/ FinalDrain \/ EndRun \/ JoinWorkers
      BY <2>2 DEF BarrierDrains, BarrierSkipped, FinalDrain, EndRun, JoinWorkers, At, Stay, Break,
         logVars
    <2> QED
      BY <1>3, <2>1, <2>2 DEF RunStep
  <1>4. CASE (\E w \in Workers : WorkerStep(w)) \/ HostCancels
    BY <1>4 DEF WorkerStep, HostCancels, At, logVars
  <1> QED
    BY <1>1, <1>2, <1>3, <1>4 DEF InnerStep

\* The source ends the run, or leaves the pipeline alone.
SourceLeaves ==
  UNCHANGED <<coord, flushing, previous, coordVars, cancelled, slots, completions, inputClosed,
              logVars>>

\* A source that leaves the rendezvous does not move the pipeline.
LEMMA LeavingIsStuttering ==
    ASSUME SourceLeaves, UNCHANGED <<spawned, workerVars>>
    PROVE  UNCHANGED vars
  BY DEF SourceLeaves, vars

\* The source's checks stutter, or end the scene.
LEMMA SourceIsPipeline ==
    ASSUME \/ SourceAsks \/ SourceChecks \/ SourceDisconnected \/ SourceTimesOut
    PROVE  /\ UNCHANGED <<submitted, emitted, barriers, error, cancelled, frontVars, acks, historyVars>>
           /\ \/ UNCHANGED vars
              \/ SceneEnds /\ Next /\ coord = "pull" /\ coord' = "drain"
  <1>1. Asked /\ (SourceLeaves \/ SceneEnds)
    BY DEF SourceAsks, SourceChecks, SourceDisconnected, SourceTimesOut, SourceEnds, SourceLeaves
  <1>2. CASE SourceLeaves
    <2>1. UNCHANGED vars
      BY <1>1, <1>2, LeavingIsStuttering DEF Asked
    <2> QED
      BY <1>1, <2>1 DEF Asked, vars, logVars, coordVars
  <1>3. CASE SceneEnds
    <2>1. Next
      BY <1>1, <1>3 DEF Asked, Next, CoordinatorStep, CoordinatorLoop, SceneStep
    <2> QED
      BY <1>1, <1>3, <2>1 DEF Asked, SceneEnds, At, Break, logVars, coordVars
  <1> QED
    BY <1>1, <1>2, <1>3

\* The front only ever raises the token, as the host may.
LEMMA FrontIsPipeline ==
    ASSUME PipelineInv, FrontCalls \/ FrontContinues
    PROVE  /\ FrontOnly /\ [Next]_vars
           /\ UNCHANGED <<coord, flushing, submitted, emitted, barriers, error, source>>
           /\ cancelled => cancelled'
  <1>1. FrontOnly
    BY DEF FrontCalls, FrontContinues
  <1>2. cancelled' = cancelled \/ cancelled' = TRUE
    <2>1. CASE FrontCalls
      BY <2>1 DEF FrontCalls, Reserve, Submit, AbandonPermit, SealInput, Finish, CancelStream
    <2>2. CASE FrontContinues
      BY <2>2 DEF FrontContinues, ReserveChecks, ReserveTakes, ReserveMisses, SubmitRefused,
         PermitGone, FlushChecks, FlushReturns, FlushMisses, CancelSeals, Join
    <2> QED
      BY <2>1, <2>2
  <1>3. UNCHANGED <<coord, flushing, submitted, emitted, barriers, error, source>>
    BY <1>1 DEF FrontOnly, pipeVars, coordVars, logVars
  <1>4. cancelled \in BOOLEAN
    BY DEF PipelineInv, TypeOK
  <1>5. CASE cancelled' = cancelled
    BY <1>1, <1>3, <1>5 DEF FrontOnly, pipeVars, vars
  <1>6. CASE ~cancelled /\ cancelled' = TRUE
    <2>1. HostCancels
      BY <1>1, <1>6 DEF FrontOnly, pipeVars, HostCancels
    <2> QED
      BY <1>1, <1>3, <1>6, <2>1 DEF Next
  <1> QED
    BY <1>2, <1>4, <1>5, <1>6

\* The hand-over is the scene answering, with the frame the owner froze.
LEMMA HandOverIsPipeline ==
    ASSUME StreamInv, HandOver
    PROVE  Next
  <1>1. CASE wanted = "flush"
    BY <1>1 DEF HandOver, Next, CoordinatorStep, CoordinatorLoop, SceneStep
  <1>2. CASE wanted = "frame"
    <2>1. freezing \in FrameIds /\ SceneFrame(freezing)
      BY <1>2 DEF HandOver, StreamInv, TakenAreSubmitted
    <2> QED
      BY <1>2, <2>1 DEF HandOver, Next, CoordinatorStep, CoordinatorLoop, SceneStep
  <1> QED
    BY <1>1, <1>2 DEF StreamInv, StreamTypeOK

\* Acknowledging a barrier is a step of the pipeline.
LEMMA AcknowledgeIsPipeline ==
    ASSUME BarrierAcknowledges
    PROVE  Next
  BY DEF BarrierAcknowledges, Next, CoordinatorStep, CoordinatorLoop, BarrierStep

\* The kinds of steps of the stream.
LEMMA StreamSteps ==
    ASSUME [StreamNext]_allVars
    PROVE  \/ InnerStep /\ UNCHANGED streamVars
           \/ SourceAsks \/ SourceChecks \/ SourceDisconnected \/ SourceTimesOut
           \/ HandOver
           \/ BarrierAcknowledges
           \/ FrontCalls
           \/ FrontContinues
           \/ UNCHANGED allVars
  BY DEF StreamNext, StreamCoordinator, SourceStep, InnerStep, TokenCancelled, StreamEnded

\* Every step of the stream is a step of the pipeline or stutters.
LEMMA StreamIsPipeline ==
    ASSUME StreamInv, [StreamNext]_allVars
    PROVE  [Next]_vars
  <1>1. CASE InnerStep
    BY <1>1, InnerIsPipeline
  <1>2. CASE SourceAsks \/ SourceChecks \/ SourceDisconnected \/ SourceTimesOut
    BY <1>2, SourceIsPipeline
  <1>3. CASE HandOver
    BY <1>3, HandOverIsPipeline
  <1>4. CASE BarrierAcknowledges
    BY <1>4, AcknowledgeIsPipeline
  <1>5. CASE FrontCalls \/ FrontContinues
    BY <1>5, FrontIsPipeline DEF StreamInv
  <1>6. CASE UNCHANGED allVars
    BY <1>6 DEF allVars
  <1> QED
    BY <1>1, <1>2, <1>3, <1>4, <1>5, <1>6, StreamSteps

-----------------------------------------------------------------------------
(* The invariant is inductive. *)

\* A pipeline that stops pulling does not start again.
LEMMA StoppingStays ==
    ASSUME PipelineInv, [Next]_vars, Stopping
    PROVE  Stopping'
  BY Endings DEF Stopping, SourceGone

\* With everything emitted nothing more is emitted.
LEMMA NothingToEmit ==
    ASSUME PipelineInv, TakenAreSubmitted, [Next]_vars, emitted = taken
    PROVE  UNCHANGED emitted
  <1> SUFFICES ASSUME Emits PROVE FALSE
    BY Steps DEF Pulls, Finishes, RunsBarrier, Inside
  <1>1. ~cancelled /\ order # <<>> /\ ~failed
    BY DEF Emits, PipelineInv, Verdicts
  <1>2. emitted = submitted /\ emitted \in Seq(FrameIds)
    BY <1>1 DEF TakenAreSubmitted, PipelineInv, TypeOK
  <1>3. Len(emitted) < Len(submitted) /\ Len(emitted) \in Nat
    BY <1>1, <1>2, NextToEmit
  <1> QED
    BY <1>2, <1>3

\* The pipeline's own steps keep the stream's invariant.
LEMMA InnerKeeps ==
    ASSUME StreamInv, PipelineInv', InnerStep, UNCHANGED streamVars
    PROVE  StreamInv'
  <1> USE DEF StreamInv
  <1>1. [Next]_vars
    BY InnerIsPipeline
  <1>2. /\ UNCHANGED submitted
        /\ (At("pull") => At("pull")') /\ (coord' = "barrier" => coord = "barrier")
    BY InnerEffect
  <1>3. UNCHANGED <<front, wanted, freezing, sealed, ticket, source, acks, taken, forfeited>>
    BY DEF streamVars, frontVars, historyVars
  <1>4. /\ (cancelled => cancelled') /\ (failed => failed') /\ (coord = "done" => coord' = "done")
    BY <1>1, Endings
  <1>5. StreamTypeOK'
    BY <1>3 DEF StreamTypeOK, PipelineInv
  <1>6. Waiting' /\ PermitsAreHeld'
    BY <1>2, <1>3 DEF Waiting, PermitsAreHeld
  <1>7. StaleTickets' /\ Forfeits'
    BY <1>1, <1>3, StoppingStays DEF StaleTickets, Forfeits
  <1>8. TakenAreSubmitted'
    BY <1>2, <1>3, <1>4 DEF TakenAreSubmitted
  <1>9. Flushes'
    <2>1. emitted = taken => UNCHANGED emitted
      BY <1>1, NothingToEmit
    <2> QED
      BY <1>2, <1>3, <1>4, <2>1 DEF Flushes
  <1> QED
    BY <1>5, <1>6, <1>7, <1>8, <1>9

\* The source asks, checks, finds its ticket dropped, or waits again.
LEMMA SourceKeeps ==
    ASSUME StreamInv, PipelineInv',
           SourceAsks \/ SourceChecks \/ SourceDisconnected \/ SourceTimesOut
    PROVE  StreamInv'
  <1> USE DEF StreamInv
  <1>1. /\ UNCHANGED <<submitted, emitted, barriers, error, cancelled>>
        /\ UNCHANGED <<front, wanted, freezing, sealed, acks, taken, forfeited>>
        /\ UNCHANGED vars \/ (coord = "pull" /\ coord' = "drain")
        /\ [Next]_vars
    BY SourceIsPipeline DEF frontVars, historyVars
  <1>2. /\ ticket' \in {ticket, "queued"}
        /\ source' \in {"idle", "check", "receive"}
        /\ ticket' # ticket => source = "idle" /\ ~cancelled /\ source' = "check"
        /\ source' = "idle" => source = "idle" \/ cancelled \/ ticket = "dropped"
    BY DEF SourceAsks, SourceChecks, SourceDisconnected, SourceTimesOut, SourceEnds
  <1>3. source' # "idle" => At("pull") /\ UNCHANGED <<coord, flushing>>
    BY DEF SourceAsks, SourceChecks, SourceDisconnected, SourceTimesOut, SourceEnds, Waiting
  <1>4. coord = "pull"
    BY DEF SourceAsks, SourceChecks, SourceDisconnected, SourceTimesOut, Waiting, At
  <1>5. StreamTypeOK'
    BY <1>1, <1>2 DEF StreamTypeOK, PipelineInv
  <1>6. Waiting'
    BY <1>3 DEF Waiting, At
  <1>7. PermitsAreHeld'
    <2>1. ASSUME ticket = "held" PROVE ticket' = "held"
      BY <1>2, <2>1 DEF StaleTickets, Stopping
    <2> QED
      BY <1>1, <2>1 DEF PermitsAreHeld
  <1>8. ~SourceGone'
    BY <1>1, <1>4 DEF SourceGone, vars
  <1>9. StaleTickets'
    <2> SUFFICES ASSUME source' = "idle", ticket' \in {"queued", "held"} PROVE Stopping'
      BY DEF StaleTickets
    <2>1. ticket' = ticket /\ cancelled
      BY <1>2 DEF StaleTickets, Stopping
    <2> QED
      BY <1>1, <1>8, <2>1 DEF Stopping
  <1>10. Forfeits'
    BY <1>1, <1>8 DEF Forfeits, Stopping
  <1>11. TakenAreSubmitted'
    BY <1>1, <1>4 DEF TakenAreSubmitted, failed, vars
  <1>12. Flushes'
    BY <1>1, <1>4 DEF Flushes, vars
  <1> QED
    BY <1>5, <1>6, <1>7, <1>9, <1>10, <1>11, <1>12

\* The rendezvous.
LEMMA RendezvousKeeps ==
    ASSUME StreamInv, PipelineInv', HandOver
    PROVE  StreamInv'
  <1> USE DEF StreamInv
  <1>1. /\ source = "receive" /\ front = "submit" /\ source' = "idle" /\ ticket' = "none"
        /\ freezing' = 0 /\ UNCHANGED <<wanted, sealed, acks, forfeited>>
        /\ coord = "pull" /\ ~flushing
    BY DEF HandOver, Waiting, At
  <1>a. freezing' \in 0 .. MaxSequence /\ TypeOK'
    BY <1>1, BoundAssumption DEF PipelineInv
  <1>2. [Next]_vars
    BY HandOverIsPipeline
  <1>3. ~(acks > 0)
    BY <1>1 DEF Flushes
  <1>4. Waiting' /\ PermitsAreHeld' /\ StaleTickets' /\ Forfeits'
    <2>1. front' \in {"idle", "await"}
      BY DEF HandOver
    <2> QED
      BY <1>1, <1>2, <2>1, StoppingStays DEF Waiting, PermitsAreHeld, StaleTickets, Forfeits
  <1>5. CASE wanted = "flush"
    <2>1. /\ coord' = "barrier" /\ front' = "await" /\ taken' = taken
          /\ UNCHANGED <<submitted, error>>
      BY <1>5 DEF HandOver, SceneBarrier, Stay, logVars, coordVars
    <2>2. StreamTypeOK'
      BY <1>1, <1>a, <2>1 DEF StreamTypeOK
    <2>3. TakenAreSubmitted'
      BY <2>1 DEF TakenAreSubmitted, failed
    <2>4. Flushes'
      BY <1>1, <1>3, <2>1 DEF Flushes, StreamTypeOK
    <2> QED
      BY <1>4, <2>2, <2>3, <2>4
  <1>6. CASE wanted = "frame"
    <2>1. /\ SceneFrame(freezing) /\ front' = "idle" /\ taken' = Append(taken, freezing)
          /\ freezing \in FrameIds
      BY <1>1, <1>6 DEF HandOver, TakenAreSubmitted
    <2>2. StreamTypeOK'
      <3>1. taken' \in Seq(FrameIds)
        BY <2>1 DEF StreamTypeOK
      <3> QED
        BY <1>1, <1>a, <2>1, <3>1 DEF StreamTypeOK
    <2>3. coord' \in {"send", "drain"} /\ (failed' \/ (submitted' = Append(submitted, freezing)
                                                     /\ UNCHANGED error))
      BY <2>1 DEF SceneFrame, Stay, Break, FailWith, Fail, failed
    <2>4. TakenAreSubmitted'
      BY <2>1, <2>3 DEF TakenAreSubmitted, failed
    <2>5. Flushes'
      BY <1>1, <1>3, <2>3 DEF Flushes
    <2> QED
      BY <1>4, <2>2, <2>4, <2>5
  <1> QED
    BY <1>5, <1>6 DEF StreamTypeOK

\* The barrier's callback acknowledges, with everything emitted.
LEMMA AcknowledgeKeeps ==
    ASSUME StreamInv, PipelineInv', BarrierAcknowledges
    PROVE  StreamInv'
  <1> USE DEF StreamInv
  <1>1. /\ coord = "barrier" /\ coord' = "head" /\ outstanding = {} /\ ~cancelled /\ ~failed
        /\ acks < 1 /\ acks' = acks + 1
        /\ UNCHANGED <<front, wanted, freezing, sealed, ticket, source, taken, forfeited>>
        /\ UNCHANGED <<submitted, emitted, error, cancelled>>
    BY DEF BarrierAcknowledges, BarrierRuns, At, Stay, Stopped, frontVars, historyVars, coordVars
  <1>2. emitted = taken
    BY <1>1, NothingOutstanding DEF TakenAreSubmitted
  <1>3. front \in {"await", "ack"} /\ source = "idle"
    BY <1>1 DEF Flushes, Waiting, At
  <1>4. StreamTypeOK'
    BY <1>1 DEF StreamTypeOK, PipelineInv
  <1>5. Waiting' /\ PermitsAreHeld' /\ StaleTickets' /\ Forfeits'
    BY <1>1, <1>3 DEF Waiting, PermitsAreHeld, StaleTickets, Forfeits, Stopping
  <1>6. TakenAreSubmitted' /\ Flushes'
    BY <1>1, <1>2, <1>3 DEF TakenAreSubmitted, Flushes, failed
  <1> QED
    BY <1>4, <1>5, <1>6

\* The calls the owner makes.
LEMMA CallsKeep ==
    ASSUME StreamInv, PipelineInv', FrontCalls
    PROVE  StreamInv'
  <1> USE DEF StreamInv
  <1>1. /\ UNCHANGED <<coord, flushing, submitted, emitted, barriers, error, source>>
        /\ (cancelled => cancelled') /\ [Next]_vars /\ TypeOK'
    BY FrontIsPipeline DEF PipelineInv
  <1>2. Waiting'
    BY <1>1 DEF Waiting, At
  <1>3. CASE \E purpose \in {"frame", "flush"} : Reserve(purpose)
    <2>1. /\ front = "idle" /\ front' = "reserve" /\ wanted' \in {"frame", "flush"}
          /\ UNCHANGED <<freezing, sealed, ticket, acks, taken, forfeited, cancelled>>
      BY <1>3 DEF Reserve, historyVars
    <2>2. StreamTypeOK'
      BY <1>1, <2>1 DEF StreamTypeOK
    <2>3. PermitsAreHeld' /\ StaleTickets' /\ Forfeits' /\ TakenAreSubmitted' /\ Flushes'
      BY <1>1, <2>1 DEF PermitsAreHeld, StaleTickets, Forfeits, Stopping, SourceGone,
         TakenAreSubmitted, Flushes, failed
    <2> QED
      BY <1>2, <2>2, <2>3
  <1>4. CASE \E s \in FrameIds : Submit(s)
    <2>1. /\ front = "permit" /\ front' = "submit" /\ freezing' \in FrameIds
          /\ UNCHANGED <<wanted, sealed, ticket, acks, taken, forfeited, cancelled>>
      BY <1>4 DEF Submit, historyVars
    <2>2. StreamTypeOK'
      BY <1>1, <2>1 DEF StreamTypeOK, FrameIds
    <2>3. PermitsAreHeld' /\ StaleTickets' /\ Forfeits' /\ TakenAreSubmitted' /\ Flushes'
      BY <1>1, <2>1 DEF PermitsAreHeld, StaleTickets, Forfeits, Stopping, SourceGone,
         TakenAreSubmitted, Flushes, failed
    <2> QED
      BY <1>2, <2>2, <2>3
  <1>5. CASE AbandonPermit
    <2>1. /\ front = "permit" /\ front' = "abandon" /\ cancelled' = TRUE /\ forfeited' = TRUE
          /\ UNCHANGED <<wanted, freezing, sealed, ticket, acks, taken>>
      BY <1>5 DEF AbandonPermit, Goto
    <2>2. StreamTypeOK'
      BY <1>1, <2>1 DEF StreamTypeOK
    <2>3. SourceGone => failed
      <3>1. SourceGone => source = "idle"
        BY DEF SourceGone, Waiting, At
      <3> QED
        BY <2>1, <3>1 DEF PermitsAreHeld, StaleTickets, Stopping
    <2>4. Stopping'
      BY <1>1, <2>1, <2>3 DEF Stopping, SourceGone, failed
    <2>5. PermitsAreHeld' /\ StaleTickets' /\ Forfeits'
      BY <2>1, <2>4 DEF PermitsAreHeld, StaleTickets, Forfeits
    <2>6. TakenAreSubmitted' /\ Flushes'
      BY <1>1, <2>1 DEF TakenAreSubmitted, Flushes, failed
    <2> QED
      BY <1>2, <2>2, <2>5, <2>6
  <1>6. CASE SealInput \/ Finish
    <2>1. /\ front = "idle" /\ front' \in {"idle", "join"} /\ sealed' = TRUE
          /\ ticket' \in {ticket, "dropped"}
          /\ UNCHANGED <<wanted, freezing, acks, taken, forfeited, cancelled>>
      BY <1>6 DEF SealInput, Finish, CloseInput, historyVars
    <2>2. StreamTypeOK'
      BY <1>1, <2>1 DEF StreamTypeOK
    <2>3. PermitsAreHeld' /\ StaleTickets' /\ Forfeits' /\ TakenAreSubmitted' /\ Flushes'
      BY <1>1, <2>1 DEF PermitsAreHeld, StaleTickets, Forfeits, Stopping, SourceGone,
         TakenAreSubmitted, Flushes, failed
    <2> QED
      BY <1>2, <2>2, <2>3
  <1>7. CASE CancelStream
    <2>1. /\ front = "idle" /\ front' = "seal" /\ cancelled' = TRUE
          /\ UNCHANGED <<wanted, freezing, sealed, ticket, acks, taken, forfeited>>
      BY <1>7 DEF CancelStream, Goto, historyVars
    <2>2. StreamTypeOK'
      BY <1>1, <2>1 DEF StreamTypeOK
    <2>3. PermitsAreHeld' /\ TakenAreSubmitted' /\ Flushes'
      BY <1>1, <2>1 DEF PermitsAreHeld, TakenAreSubmitted, Flushes, failed
    <2>4. StaleTickets' /\ Forfeits'
      BY <1>1, <2>1, StoppingStays DEF StaleTickets, Forfeits
    <2> QED
      BY <1>2, <2>2, <2>3, <2>4
  <1> QED
    BY <1>3, <1>4, <1>5, <1>6, <1>7 DEF FrontCalls

\* What the call it is in does next; none of it raises the token.
LEMMA ContinuesKeep ==
    ASSUME StreamInv, PipelineInv', FrontContinues
    PROVE  StreamInv'
  <1> USE DEF StreamInv
  <1>1. /\ UNCHANGED <<coord, flushing, submitted, emitted, barriers, error, source>>
        /\ [Next]_vars /\ TypeOK'
    BY FrontIsPipeline DEF PipelineInv
  <1>2. Waiting'
    BY <1>1 DEF Waiting, At
  <1>3. CASE ReserveChecks \/ ReserveMisses
    <2>1. /\ front \in {"reserve", "demand"} /\ front' \in {"idle", "reserve", "demand"}
          /\ UNCHANGED <<wanted, freezing, sealed, ticket, acks, taken, forfeited, cancelled>>
          /\ front' = "demand" => ~cancelled
      BY <1>3 DEF ReserveChecks, ReserveMisses, Closed, Goto, historyVars
    <2>2. StreamTypeOK'
      BY <1>1, <2>1 DEF StreamTypeOK
    <2>3. PermitsAreHeld' /\ StaleTickets' /\ Forfeits' /\ TakenAreSubmitted' /\ Flushes'
      BY <1>1, <2>1 DEF PermitsAreHeld, StaleTickets, Forfeits, Stopping, SourceGone,
         TakenAreSubmitted, Flushes, failed
    <2> QED
      BY <1>2, <2>2, <2>3
  <1>4. CASE ReserveTakes
    <2>1. /\ front = "demand" /\ front' = (IF wanted = "flush" THEN "submit" ELSE "permit")
          /\ ticket = "queued" /\ ticket' = "held"
          /\ UNCHANGED <<wanted, freezing, sealed, acks, taken, forfeited, cancelled>>
      BY <1>4 DEF ReserveTakes, Goto, historyVars
    <2>2. StreamTypeOK'
      BY <1>1, <2>1 DEF StreamTypeOK
    <2>3. acks = 0
      BY <2>1 DEF Flushes, StreamTypeOK
    <2>4. PermitsAreHeld' /\ StaleTickets' /\ Forfeits'
      BY <1>1, <2>1 DEF PermitsAreHeld, StaleTickets, Forfeits, Stopping, SourceGone, failed
    <2>5. TakenAreSubmitted' /\ Flushes'
      BY <1>1, <2>1, <2>3 DEF TakenAreSubmitted, Flushes, failed
    <2> QED
      BY <1>2, <2>2, <2>4, <2>5
  <1>5. CASE SubmitRefused \/ PermitGone
    <2>1. /\ front \in {"submit", "abandon"} /\ front' = "idle" /\ ticket' \in {"none", "dropped"}
          /\ freezing' \in {0, freezing}
          /\ UNCHANGED <<wanted, sealed, acks, taken, forfeited, cancelled>>
      BY <1>5 DEF SubmitRefused, PermitGone, Goto, historyVars
    <2>2. freezing' \in 0 .. MaxSequence
      BY <2>1, BoundAssumption DEF StreamTypeOK
    <2>3. StreamTypeOK'
      BY <1>1, <2>1, <2>2 DEF StreamTypeOK
    <2>4. PermitsAreHeld' /\ StaleTickets' /\ Forfeits' /\ TakenAreSubmitted' /\ Flushes'
      BY <1>1, <2>1 DEF PermitsAreHeld, StaleTickets, Forfeits, Stopping, SourceGone,
         TakenAreSubmitted, Flushes, failed
    <2> QED
      BY <1>2, <2>3, <2>4
  <1>6. CASE FlushChecks \/ FlushMisses
    <2>1. /\ front \in {"await", "ack"} /\ front' \in {"idle", "await", "ack"}
          /\ UNCHANGED <<wanted, freezing, sealed, ticket, acks, taken, forfeited, cancelled>>
          /\ front' = "idle" => cancelled \/ (acks = 0 /\ SourceGone)
      BY <1>6 DEF FlushChecks, FlushMisses, Closed, Goto, historyVars
    <2>2. StreamTypeOK'
      BY <1>1, <2>1 DEF StreamTypeOK
    <2>3. PermitsAreHeld' /\ StaleTickets' /\ Forfeits' /\ TakenAreSubmitted'
      BY <1>1, <2>1 DEF PermitsAreHeld, StaleTickets, Forfeits, Stopping, SourceGone,
         TakenAreSubmitted, failed
    <2>4. Flushes'
      BY <1>1, <2>1 DEF Flushes, SourceGone
    <2> QED
      BY <1>2, <2>2, <2>3, <2>4
  <1>7. CASE FlushReturns
    <2>1. /\ front = "ack" /\ front' = "idle" /\ acks = 1 /\ acks' = 0
          /\ UNCHANGED <<wanted, freezing, sealed, ticket, taken, forfeited, cancelled>>
      BY <1>7 DEF FlushReturns, Goto, historyVars, StreamTypeOK
    <2>2. StreamTypeOK'
      BY <1>1, <2>1 DEF StreamTypeOK
    <2>3. PermitsAreHeld' /\ StaleTickets' /\ Forfeits' /\ TakenAreSubmitted' /\ Flushes'
      BY <1>1, <2>1 DEF PermitsAreHeld, StaleTickets, Forfeits, Stopping, SourceGone,
         TakenAreSubmitted, Flushes, failed
    <2> QED
      BY <1>2, <2>2, <2>3
  <1>8. CASE CancelSeals \/ Join
    <2>1. /\ front \in {"seal", "join"} /\ front' \in {"join", "done"}
          /\ front' = "done" => coord = "done"
          /\ ticket' \in {ticket, "dropped"} /\ sealed' \in {TRUE, sealed}
          /\ UNCHANGED <<wanted, freezing, acks, taken, forfeited, cancelled>>
      BY <1>8 DEF CancelSeals, CloseInput, Join, Goto, historyVars
    <2>2. StreamTypeOK'
      BY <1>1, <2>1 DEF StreamTypeOK
    <2>3. PermitsAreHeld' /\ StaleTickets' /\ Forfeits' /\ TakenAreSubmitted' /\ Flushes'
      BY <1>1, <2>1 DEF PermitsAreHeld, StaleTickets, Forfeits, Stopping, SourceGone,
         TakenAreSubmitted, Flushes, failed
    <2> QED
      BY <1>2, <2>2, <2>3
  <1> QED
    BY <1>3, <1>4, <1>5, <1>6, <1>7, <1>8 DEF FrontContinues

\* The stream starts in the invariant.
LEMMA StreamInitEstablishes == StreamInit => StreamInv
  <1> SUFFICES ASSUME StreamInit PROVE StreamInv
    OBVIOUS
  <1>1. PipelineInv /\ TypeOK
    BY InitEstablishes DEF StreamInit, PipelineInv
  <1>2. StreamTypeOK
    <2>1. /\ front = "idle" /\ wanted = "frame" /\ freezing = 0 /\ sealed = FALSE
          /\ ticket = "none" /\ source = "idle" /\ acks = 0 /\ taken = <<>> /\ forfeited = FALSE
      BY DEF StreamInit
    <2>2. freezing \in 0 .. MaxSequence /\ acks \in 0 .. 1 /\ taken \in Seq(FrameIds)
      BY <2>1, BoundAssumption
    <2> QED
      BY <1>1, <2>1, <2>2 DEF StreamTypeOK
  <1>3. taken = submitted /\ coord = "spawn"
    BY DEF StreamInit, Init
  <1>4. Waiting /\ PermitsAreHeld /\ StaleTickets /\ Forfeits /\ TakenAreSubmitted /\ Flushes
    BY <1>3 DEF StreamInit, Waiting, PermitsAreHeld, StaleTickets, Forfeits, TakenAreSubmitted,
       Flushes
  <1> QED
    BY <1>1, <1>2, <1>4 DEF StreamInv

\* Stuttering keeps the stream's invariant.
LEMMA StreamStutterKeeps ==
    ASSUME StreamInv, PipelineInv', UNCHANGED allVars
    PROVE  StreamInv'
  <1>1. /\ UNCHANGED <<coord, flushing, submitted, emitted, error, cancelled, barriers>>
        /\ UNCHANGED <<front, wanted, freezing, sealed, ticket, source, acks, taken, forfeited>>
    BY DEF allVars, vars, coordVars, logVars, streamVars, frontVars, historyVars
  <1>2. StreamTypeOK'
    BY <1>1 DEF StreamInv, StreamTypeOK, PipelineInv
  <1>3. (Waiting /\ PermitsAreHeld /\ StaleTickets /\ Forfeits /\ TakenAreSubmitted /\ Flushes)'
    BY <1>1 DEF StreamInv, Waiting, At, PermitsAreHeld, StaleTickets, Forfeits, Stopping,
       SourceGone, TakenAreSubmitted, Flushes, failed
  <1> QED
    BY <1>2, <1>3 DEF StreamInv

\* Every step keeps the stream's invariant.
LEMMA StreamNextKeeps ==
    ASSUME StreamInv, [StreamNext]_allVars
    PROVE  StreamInv'
  <1>1. PipelineInv'
    BY StreamIsPipeline, NextKeeps DEF StreamInv
  <1> QED
    BY <1>1, StreamSteps, InnerKeeps, SourceKeeps, RendezvousKeeps, AcknowledgeKeeps, CallsKeep,
       ContinuesKeep, StreamStutterKeeps

-----------------------------------------------------------------------------
(* The theorems. *)

\* The invariant of the stream and the pipeline behind it.
THEOREM StreamInvariant == StreamSpec => []StreamInv
  <1>1. StreamInv /\ [StreamNext]_allVars => StreamInv'
    BY StreamNextKeeps
  <1> QED
    BY <1>1, StreamInitEstablishes, PTL DEF StreamSpec

\* The front, its ticket and its two channels of one keep their types: no ticket
\* is left behind and no second acknowledgement is put where one waits.
THEOREM StreamTyping == StreamSpec => []StreamTypeOK
  <1>1. StreamInv => StreamTypeOK
    BY DEF StreamInv
  <1> QED
    BY <1>1, StreamInvariant, PTL

\* The pipeline the owner drives behaves as the pipeline driven by any scene:
\* what is proved of Spec holds of StreamSpec.
THEOREM StreamRunsThePipeline == StreamSpec => Spec
  <1>1. StreamInit => Init
    BY DEF StreamInit
  <1>2. StreamInv /\ [StreamNext]_allVars => [Next]_vars
    BY StreamIsPipeline
  <1> QED
    BY <1>1, <1>2, StreamInvariant, PTL DEF StreamSpec, Spec

\* finish returns Ok only if everything submit accepted was emitted and no
\* permit was given up on the way.
THEOREM StreamFinish == StreamSpec => []FinishOkIsComplete
  <1>1. StreamInv => FinishOkIsComplete
    <2> SUFFICES ASSUME StreamInv, front = "done", error = "None"
                 PROVE  emitted = taken /\ ~forfeited
      BY DEF FinishOkIsComplete
    <2>1. coord = "done" /\ ~failed /\ taken = submitted
      BY DEF StreamInv, TakenAreSubmitted, failed
    <2>2. emitted = submitted
      BY <2>1 DEF StreamInv, PipelineInv, Emission
    <2> QED
      BY <2>1, <2>2 DEF StreamInv, Forfeits, Stopping, SourceGone
  <1> QED
    BY <1>1, StreamInvariant, PTL

\* flush returns Ok only with everything submitted so far emitted.
THEOREM StreamFlush == StreamSpec => FlushMeansEmitted
  <1>1. StreamInv /\ [StreamNext]_allVars => [FlushReturns => emitted = taken]_allVars
    BY DEF StreamInv, Flushes, FlushReturns
  <1> QED
    BY <1>1, StreamInvariant, PTL DEF StreamSpec, FlushMeansEmitted

\* What the owner sees of a step: a frame taken, a frame emitted, the end, or
\* nothing.
LEMMA StreamStepDelivers ==
    ASSUME StreamInv, [StreamNext]_allVars
    PROVE  [Promise!DNext]_(Promise!dvars)
  <1> USE DEF StreamInv
  <1>1. [Next]_vars
    BY StreamIsPipeline
  <1>2. CASE HandOver /\ wanted = "frame"
    <2>1. /\ taken' = Append(taken, freezing) /\ freezing \in FrameIds
          /\ front = "submit" /\ front' = "idle" /\ UNCHANGED emitted /\ coord = "pull"
      BY <1>2 DEF HandOver, SceneFrame, At, TakenAreSubmitted
    <2>2. taken = submitted /\ Len(submitted) - Len(emitted) < Limit
      BY <2>1 DEF TakenAreSubmitted, PipelineInv, Emission
    <2>3. Promise!Give
      BY <2>1, <2>2 DEF Promise!Give, StreamOutcome
    <2> QED
      BY <2>3 DEF Promise!DNext
  <1>3. CASE HandOver /\ wanted = "flush"
    BY <1>3 DEF HandOver, SceneBarrier, logVars, StreamOutcome, Promise!dvars
  <1>4. CASE SourceAsks \/ SourceChecks \/ SourceDisconnected \/ SourceTimesOut
    <2>1. UNCHANGED <<emitted, taken, front, error>>
      BY <1>4, SourceIsPipeline DEF frontVars, historyVars
    <2> QED
      BY <2>1 DEF StreamOutcome, failed, Promise!dvars
  <1>5. CASE BarrierAcknowledges
    BY <1>5 DEF BarrierAcknowledges, BarrierRuns, frontVars, historyVars, coordVars,
       StreamOutcome, failed, Promise!dvars
  <1>6. CASE FrontCalls
    <2>1. UNCHANGED <<emitted, error>>
      BY <1>6, FrontIsPipeline
    <2>2. UNCHANGED taken /\ front # "done" /\ front' # "done"
      BY <1>6 DEF FrontCalls, Reserve, Submit, AbandonPermit, SealInput, Finish, CancelStream,
         Goto, historyVars
    <2> QED
      BY <2>1, <2>2 DEF StreamOutcome, Promise!dvars
  <1>7. CASE FrontContinues /\ ~Join
    <2>1. UNCHANGED <<emitted, error>>
      BY <1>7, FrontIsPipeline
    <2>2. UNCHANGED taken /\ front # "done" /\ front' # "done"
      BY <1>7 DEF FrontContinues, ReserveChecks, ReserveTakes, ReserveMisses, SubmitRefused,
         PermitGone, FlushChecks, FlushReturns, FlushMisses, CancelSeals, Closed, Goto,
         historyVars
    <2> QED
      BY <2>1, <2>2 DEF StreamOutcome, Promise!dvars
  <1>8. CASE FrontContinues /\ Join
    <2>1. UNCHANGED <<emitted, error, taken>> /\ front = "join" /\ front' = "done" /\ coord = "done"
      BY <1>8, FrontIsPipeline DEF Join, Goto, historyVars
    <2>2. ~failed => emitted = taken
      BY <2>1 DEF TakenAreSubmitted, PipelineInv, Emission, failed
    <2>3. Promise!Complete \/ Promise!Break
      BY <2>1, <2>2 DEF Promise!Complete, Promise!Break, StreamOutcome, failed
    <2> QED
      BY <2>3 DEF Promise!DNext
  <1>9. CASE InnerStep /\ UNCHANGED streamVars
    <2>1. UNCHANGED <<taken, front, submitted>>
      BY <1>9, InnerEffect DEF streamVars, frontVars, historyVars
    <2>2. front = "done" => UNCHANGED <<emitted, error>>
      BY <1>1, Steps DEF Pulls, Emits, Finishes, RunsBarrier, Inside, TakenAreSubmitted,
         PipelineInv, Records
    <2>3. CASE Emits
      <3>1. ~failed /\ taken = submitted /\ front # "done"
        BY <2>3 DEF Emits, PipelineInv, Verdicts, Records, TakenAreSubmitted
      <3>2. Promise!Hand
        BY <2>1, <2>3, <3>1, NextToEmit DEF Emits, Promise!Hand, StreamOutcome
      <3> QED
        BY <3>2 DEF Promise!DNext
    <2>4. CASE UNCHANGED emitted
      BY <2>1, <2>2, <2>4 DEF StreamOutcome, failed, Promise!dvars
    <2> QED
      BY <1>1, <2>3, <2>4, Steps DEF Pulls, Finishes, RunsBarrier, Inside
  <1>10. CASE UNCHANGED allVars
    BY <1>10 DEF allVars, vars, coordVars, logVars, streamVars, frontVars, historyVars,
       StreamOutcome, failed, Promise!dvars
  <1> QED
    BY <1>2, <1>3, <1>4, <1>5, <1>6, <1>7, <1>8, <1>9, <1>10, StreamSteps DEF StreamTypeOK

\* Seen by its owner the stream is ordered delivery through a bounded window.
THEOREM StreamDelivers == StreamSpec => StreamDeliversInOrder
  <1>1. StreamInit => Promise!DInit
    BY DEF StreamInit, Init, Promise!DInit, StreamOutcome
  <1>2. StreamInv /\ [StreamNext]_allVars => [Promise!DNext]_(Promise!dvars)
    BY StreamStepDelivers
  <1> QED
    BY <1>1, <1>2, StreamInvariant, PTL DEF StreamSpec, StreamDeliversInOrder, Promise!DSafety

=============================================================================
