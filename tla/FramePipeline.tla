---------------------------- MODULE FramePipeline ----------------------------
(***************************************************************************)
(* The bounded frame pipeline of crates/fmn-runtime/src/pipeline.rs: one   *)
(* call of FramePipeline::run.  The coordinator (the caller's thread)      *)
(* pulls events from the scene, submits frames to a prepare worker, which  *)
(* spreads them over render teams; the teams feed one output worker.       *)
(* Every worker reports to the coordinator through one unbounded           *)
(* completion channel, and the coordinator emits frames in submission      *)
(* order.  A cancellation token is shared by all of them and by the host.  *)
(*                                                                         *)
(* A step is a channel operation, a read of the token with the branch it   *)
(* decides, or a callback.  Channels are FIFO sequences; a worker's inbox  *)
(* is the queue it receives from.  Error and Panicked completions have the *)
(* same control and are one kind, "Failed".                                *)
(***************************************************************************)
EXTENDS Integers, Sequences, FiniteSets

CONSTANTS
  NumTeams,     \* ExecutionPlan::render_teams, at least one in a compiled plan
  Limit,        \* ExecutionPlan::frames_in_flight, at least the number of teams
  MaxSequence,  \* bound: frame sequences the scene may use are 1 .. MaxSequence
  MaxBarriers   \* bound: barriers the scene may request

ASSUME PlanAssumption ==
  NumTeams \in Nat \ {0} /\ Limit \in Nat /\ NumTeams <= Limit
ASSUME BoundAssumption == MaxSequence \in Nat /\ MaxBarriers \in Nat

FrameIds == 1 .. MaxSequence
Teams == 1 .. NumTeams
Prepare == 0
Output == NumTeams + 1
Workers == 0 .. NumTeams + 1

Completion == [kind : {"Output", "Failed", "Disconnected", "Cancelled"}, sequence : FrameIds]
CallbackErrors == {"Stage", "CallbackPanicked"}
Errors == CallbackErrors \cup {"NonMonotonicSequence", "WorkerSpawnFailed",
                               "StageDisconnected", "Cancelled", "LeakedSlots"}

VARIABLES
  coord,        \* where the coordinator is
  flushing,     \* TRUE while accept is inside emit_ready
  spawned,      \* workers started so far
  previous,     \* last sequence accepted from the scene, 0 for None
  order, outstanding, outputs, terminal, error,   \* Coordinator
  cancelled,    \* CancellationToken
  slots,        \* SlotTracker::outstanding
  completions,  \* the completion channel
  inputClosed,  \* prepare_tx dropped
  inbox, phase, holding,   \* per worker: its queue, where it is, the frame it holds
  nextTeam, probe,         \* prepare worker's round robin
  submitted, emitted,      \* sequences given to submit, handed to emit
  barriers                 \* Counters::barriers

coordVars == <<order, outstanding, outputs, terminal, error>>
workerVars == <<inbox, phase, holding, nextTeam, probe>>
logVars == <<submitted, emitted, barriers>>
vars == <<coord, flushing, spawned, previous, coordVars, cancelled, slots, completions,
          inputClosed, workerVars, logVars>>

(* One type invariant: the coordinator's records, the token, queues, workers. *)
TypeOK ==
  /\ coord \in {"spawn", "open", "head", "gate", "pull", "send", "ready", "barrier", "drain",
                "joining", "done"}
  /\ flushing \in BOOLEAN
  /\ spawned \in 0 .. NumTeams + 2
  /\ previous \in 0 .. MaxSequence
  /\ order \in Seq(FrameIds)
  /\ outstanding \in SUBSET FrameIds
  /\ outputs \in SUBSET FrameIds
  /\ terminal \in SUBSET FrameIds
  /\ error \in Errors \cup {"None"}
  /\ cancelled \in BOOLEAN
  /\ slots \in 0 .. Limit
  /\ completions \in Seq(Completion)
  /\ inputClosed \in BOOLEAN
  /\ inbox \in [Workers -> Seq(FrameIds)]
  /\ phase \in [Workers -> {"unspawned", "idle", "busy", "forward", "sending", "probing",
                            "failing", "exited"}]
  /\ holding \in [Workers -> 0 .. MaxSequence]
  /\ nextTeam \in 0 .. NumTeams - 1
  /\ probe \in 0 .. NumTeams - 1
  /\ submitted \in Seq(FrameIds)
  /\ emitted \in Seq(FrameIds)
  /\ barriers \in 0 .. MaxBarriers

Init ==
  /\ coord = "spawn" /\ flushing = FALSE
  /\ spawned = 0
  /\ previous = 0
  /\ order = <<>> /\ outstanding = {} /\ outputs = {} /\ terminal = {}
  /\ error = "None"
  /\ cancelled \in BOOLEAN      \* the host may cancel the token before the run
  /\ slots = 0
  /\ completions = <<>>
  /\ inputClosed = FALSE
  /\ inbox = [w \in Workers |-> <<>>]
  /\ phase = [w \in Workers |-> "unspawned"]
  /\ holding = [w \in Workers |-> 0]
  /\ nextTeam = 0 /\ probe = 0
  /\ submitted = <<>> /\ emitted = <<>>
  /\ barriers = 0

-----------------------------------------------------------------------------
(* Coordinator::fail and friends. *)

failed == error # "None"

\* Mutation of Stopped: the token is not read, only the recorded error.
StoppedByErrorOnly == failed

\* self.failed() || cancellation.is_cancelled()
Stopped == failed \/ cancelled

Fail(e) ==
  /\ error' = IF failed THEN error ELSE e
  /\ cancelled' = (cancelled \/ ~failed)

FailWith(e) == Fail(e) /\ UNCHANGED <<order, outstanding, outputs, terminal>>

-----------------------------------------------------------------------------
(* run_with_spawner: the output worker, the teams, then the prepare worker. *)

SpawnOrder(n) == IF n = 0 THEN Output ELSE IF n = NumTeams + 1 THEN Prepare ELSE n

SpawnWorker ==
  /\ coord = "spawn" /\ spawned < NumTeams + 2
  /\ phase' = [phase EXCEPT ![SpawnOrder(spawned)] = "idle"]
  /\ spawned' = spawned + 1
  /\ coord' = IF spawned' = NumTeams + 2 THEN "open" ELSE "spawn"
  /\ UNCHANGED <<flushing, previous, coordVars, cancelled, slots, completions, inputClosed,
                 inbox, holding, nextTeam, probe, logVars>>

\* The run returns early: every channel end it still held is dropped.
SpawnRefused ==
  /\ coord = "spawn" /\ spawned < NumTeams + 2
  /\ FailWith("WorkerSpawnFailed")
  /\ coord' = "joining" /\ inputClosed' = TRUE
  /\ phase' = [w \in Workers |-> IF phase[w] = "unspawned" THEN "exited" ELSE phase[w]]
  /\ UNCHANGED <<flushing, spawned, previous, slots, completions, inbox, holding, nextTeam,
                 probe, logVars>>

-----------------------------------------------------------------------------
(* Workers.  Cancelling a frame and reporting one are sends on completions. *)

Send(kind, s) == completions' = Append(completions, [kind |-> kind, sequence |-> s])

Take(w) ==
  /\ phase[w] = "idle" /\ inbox[w] # <<>>
  /\ inbox' = [inbox EXCEPT ![w] = Tail(@)]
  /\ IF cancelled
     THEN Send("Cancelled", Head(inbox[w])) /\ UNCHANGED <<phase, holding>>
     ELSE /\ phase' = [phase EXCEPT ![w] = "busy"]
          /\ holding' = [holding EXCEPT ![w] = Head(inbox[w])]
          /\ UNCHANGED completions
  /\ UNCHANGED <<nextTeam, probe, cancelled>>

CallbackOk(w) ==
  /\ phase[w] = "busy"
  /\ phase' = [phase EXCEPT ![w] = "forward"]
  /\ UNCHANGED <<inbox, holding, nextTeam, probe, cancelled, completions>>

\* The frame leaves the worker, which receives again.
Release(w) ==
  /\ phase' = [phase EXCEPT ![w] = "idle"]
  /\ holding' = [holding EXCEPT ![w] = 0]

\* The worker cancels first and reports the failure in a later step.
CallbackFails(w) ==
  /\ phase[w] = "busy"
  /\ cancelled' = TRUE
  /\ phase' = [phase EXCEPT ![w] = "failing"]
  /\ UNCHANGED <<inbox, holding, nextTeam, probe, completions>>

ReportFailure(w) ==
  /\ phase[w] = "failing"
  /\ Send("Failed", holding[w])
  /\ Release(w)
  /\ UNCHANGED <<inbox, nextTeam, probe, cancelled>>

ForwardCancelled(w) ==
  /\ phase[w] = "forward" /\ cancelled
  /\ Send("Cancelled", holding[w])
  /\ Release(w)
  /\ UNCHANGED <<inbox, nextTeam, probe, cancelled>>

\* The check before the hand-over; a cancellation may come right after it.
ForwardChecks(w) ==
  /\ phase[w] = "forward" /\ ~cancelled
  /\ phase' = [phase EXCEPT ![w] = IF w = Prepare THEN "probing" ELSE "sending"]
  /\ probe' = IF w = Prepare THEN 0 ELSE probe
  /\ UNCHANGED <<inbox, holding, nextTeam, completions, cancelled>>

ForwardOutput ==
  /\ phase[Output] = "sending"
  /\ Send("Output", holding[Output])
  /\ Release(Output)
  /\ UNCHANGED <<inbox, nextTeam, probe, cancelled>>

\* raster_sender.send blocks while the queue is full and fails without a receiver.
ForwardRaster(t) ==
  /\ phase[t] = "sending"
  /\ IF phase[Output] = "exited"
     THEN Send("Disconnected", holding[t]) /\ cancelled' = TRUE /\ UNCHANGED inbox
     ELSE /\ Len(inbox[Output]) < Limit
          /\ inbox' = [inbox EXCEPT ![Output] = Append(@, holding[t])]
          /\ UNCHANGED <<completions, cancelled>>
  /\ Release(t)
  /\ UNCHANGED <<nextTeam, probe>>

\* dispatch_to_render: one pass over the teams, one try_send at a time.
TeamIndex == (nextTeam + probe) % NumTeams
ProbedTeam == TeamIndex + 1
HasRoom(t) == Len(inbox[t]) = 0 /\ phase[t] # "exited"

ProbeAccepted ==
  /\ phase[Prepare] = "probing" /\ HasRoom(ProbedTeam)
  /\ inbox' = [inbox EXCEPT ![ProbedTeam] = Append(@, holding[Prepare])]
  /\ nextTeam' = (TeamIndex + 1) % NumTeams
  /\ Release(Prepare)
  /\ UNCHANGED <<probe, completions, cancelled>>

ProbeNext ==
  /\ phase[Prepare] = "probing" /\ ~HasRoom(ProbedTeam) /\ probe < NumTeams - 1
  /\ probe' = probe + 1
  /\ UNCHANGED <<inbox, phase, holding, nextTeam, completions, cancelled>>

\* After a fruitless pass the loop restarts at its cancellation check.
ProbeExhausted ==
  /\ phase[Prepare] = "probing" /\ ~HasRoom(ProbedTeam) /\ probe = NumTeams - 1
  /\ IF \A t \in Teams : phase[t] = "exited"
     THEN /\ Send("Disconnected", holding[Prepare]) /\ cancelled' = TRUE
          /\ Release(Prepare)
     ELSE /\ phase' = [phase EXCEPT ![Prepare] = "forward"]
          /\ UNCHANGED <<holding, completions, cancelled>>
  /\ UNCHANGED <<inbox, nextTeam, probe>>

\* Mutation of SendersGone: the output worker leaves with the prepare worker.
SendersGoneEarly(w) == IF w = Prepare THEN inputClosed ELSE phase[Prepare] = "exited"

\* A worker's receiver ends when its queue is empty and its senders are gone.
SendersGone(w) ==
  IF w = Prepare THEN inputClosed
  ELSE IF w = Output THEN \A t \in Teams : phase[t] = "exited"
  ELSE phase[Prepare] = "exited"

Exit(w) ==
  /\ phase[w] = "idle" /\ inbox[w] = <<>> /\ SendersGone(w)
  /\ phase' = [phase EXCEPT ![w] = "exited"]
  /\ UNCHANGED <<inbox, holding, nextTeam, probe, completions, cancelled>>

Dispatch == ProbeAccepted \/ ProbeNext \/ ProbeExhausted

WorkerStep(w) ==
  /\ \/ Take(w)
     \/ CallbackOk(w)
     \/ CallbackFails(w)
     \/ ReportFailure(w)
     \/ ForwardCancelled(w)
     \/ ForwardChecks(w)
     \/ w = Output /\ ForwardOutput
     \/ w \in Teams /\ ForwardRaster(w)
     \/ w = Prepare /\ Dispatch
     \/ Exit(w)
  /\ UNCHANGED <<coord, flushing, spawned, previous, coordVars, slots, inputClosed, logVars>>

-----------------------------------------------------------------------------
(* Coordinator::accept, then emit_ready one head at a time. *)

\* Mutation of Terminate: the permit of a frame that ends early is kept.
TerminateKeepsPermit(s) ==
  /\ terminal' = terminal \cup {s}
  /\ outstanding' = outstanding \ {s}
  /\ UNCHANGED slots

Terminate(s) ==
  /\ terminal' = terminal \cup {s}
  /\ outstanding' = outstanding \ {s}
  /\ slots' = slots - 1

AcceptOutput(s) ==
  /\ IF Stopped
     THEN Terminate(s) /\ UNCHANGED outputs
     ELSE outputs' = outputs \cup {s} /\ UNCHANGED <<terminal, outstanding, slots>>
  /\ UNCHANGED <<order, error, cancelled>>

AcceptFailure(s, e) ==
  /\ Terminate(s)
  /\ Fail(e)
  /\ UNCHANGED <<order, outputs>>

AcceptCancelled(s) ==
  /\ Terminate(s)
  /\ UNCHANGED <<order, outputs, error, cancelled>>

ErrorsOf(kind) == IF kind = "Failed" THEN CallbackErrors ELSE {"StageDisconnected"}

Accept(c) ==
  /\ CASE c.kind = "Output" -> AcceptOutput(c.sequence)
       [] c.kind = "Cancelled" -> AcceptCancelled(c.sequence)
       [] OTHER -> \E e \in ErrorsOf(c.kind) : AcceptFailure(c.sequence, e)
  /\ flushing' = TRUE

\* The channel reports disconnection once no worker can send any more.
NoSenders == \A w \in Workers : phase[w] = "exited"

Abandon ==
  /\ Fail("StageDisconnected")
  /\ order' = <<>> /\ outstanding' = {} /\ outputs' = {} /\ terminal' = {}
  /\ UNCHANGED <<slots, flushing>>

\* receive_one: blocks until a completion arrives or every sender is gone.
ReceiveOne ==
  /\ completions # <<>> \/ NoSenders
  /\ IF completions # <<>>
     THEN Accept(Head(completions)) /\ completions' = Tail(completions)
     ELSE Abandon /\ UNCHANGED completions

PopHead == order' = Tail(order)

\* Mutation of SkipTerminal: the permit is given back a second time.
SkipTerminalReleases ==
  /\ Head(order) \in terminal
  /\ PopHead /\ terminal' = terminal \ {Head(order)}
  /\ slots' = slots - 1
  /\ UNCHANGED <<flushing, outstanding, outputs, error, cancelled, emitted>>

SkipTerminal ==
  /\ Head(order) \in terminal
  /\ PopHead /\ terminal' = terminal \ {Head(order)}
  /\ UNCHANGED <<flushing, outstanding, outputs, error, cancelled, slots, emitted>>

ReleaseHead ==
  /\ PopHead
  /\ outputs' = outputs \ {Head(order)}
  /\ outstanding' = outstanding \ {Head(order)}
  /\ slots' = slots - 1
  /\ UNCHANGED <<flushing, terminal>>

HeadIsParked == Head(order) \notin terminal /\ Head(order) \in outputs

DiscardHead ==
  /\ HeadIsParked /\ Stopped
  /\ ReleaseHead
  /\ UNCHANGED <<error, cancelled, emitted>>

EmitHead ==
  /\ HeadIsParked /\ ~Stopped
  /\ ReleaseHead
  /\ emitted' = Append(emitted, Head(order))
  /\ UNCHANGED <<error, cancelled>>

EmitHeadFails ==
  /\ HeadIsParked /\ ~Stopped
  /\ ReleaseHead
  /\ \E e \in CallbackErrors : Fail(e)
  /\ UNCHANGED emitted

FlushEnds ==
  /\ ~(order # <<>> /\ Head(order) \in terminal \cup outputs)
  /\ flushing' = FALSE
  /\ UNCHANGED <<coordVars, cancelled, slots, emitted>>

EmitReady ==
  /\ flushing
  /\ \/ order # <<>> /\ (SkipTerminal \/ DiscardHead \/ EmitHead \/ EmitHeadFails)
     \/ FlushEnds
  /\ UNCHANGED <<coord, spawned, previous, completions, inputClosed, workerVars, submitted,
                 barriers>>

-----------------------------------------------------------------------------
(* The coordinator's loop over the scene's events. *)

\* `break` drops prepare_tx; the final drain follows.
Break == coord' = "drain" /\ inputClosed' = TRUE
Stay(c) == coord' = c /\ UNCHANGED inputClosed

At(c) == coord = c /\ ~flushing

\* events.into_iter; its panic returns at once, with nothing to drain.
OpenScene ==
  /\ At("open")
  /\ Stay("head")
  /\ UNCHANGED <<flushing, previous, coordVars, cancelled, slots, completions, logVars>>

OpenScenePanics ==
  /\ At("open")
  /\ FailWith("CallbackPanicked")
  /\ coord' = "joining" /\ inputClosed' = TRUE
  /\ UNCHANGED <<flushing, previous, slots, completions, logVars>>

LoopHead ==
  /\ At("head")
  /\ IF Stopped THEN Break ELSE Stay("gate")
  /\ UNCHANGED <<flushing, previous, coordVars, cancelled, slots, completions, logVars>>

\* Mutation of MustWait: one frame more than the limit is pulled.
MustWaitOffByOne == Cardinality(outstanding) > Limit

\* Backpressure: wait for a slot before asking the scene for another frame.
MustWait == Cardinality(outstanding) >= Limit

GateWaits ==
  /\ At("gate") /\ MustWait /\ ~failed
  /\ ReceiveOne
  /\ Stay("gate")
  /\ UNCHANGED <<previous, logVars>>

GatePasses ==
  /\ At("gate") /\ ~(MustWait /\ ~failed)
  /\ IF Stopped THEN Break ELSE Stay("pull")
  /\ UNCHANGED <<flushing, previous, coordVars, cancelled, slots, completions, logVars>>

\* events.next panicked: contained as a scene failure.
ScenePanics ==
  /\ At("pull")
  /\ FailWith("CallbackPanicked")
  /\ Break
  /\ UNCHANGED <<flushing, previous, slots, completions, logVars>>

SceneEnds ==
  /\ At("pull")
  /\ Break
  /\ UNCHANGED <<flushing, previous, coordVars, cancelled, slots, completions, logVars>>

SceneFrame(s) ==
  /\ At("pull")
  /\ IF s <= previous
     THEN /\ FailWith("NonMonotonicSequence") /\ Break
          /\ UNCHANGED <<previous, slots, submitted>>
     ELSE /\ previous' = s
          /\ slots' = slots + 1
          /\ order' = Append(order, s)
          /\ outstanding' = outstanding \cup {s}
          /\ submitted' = Append(submitted, s)
          /\ Stay("send")
          /\ UNCHANGED <<outputs, terminal, error, cancelled>>
  /\ UNCHANGED <<flushing, completions, emitted, barriers>>

SceneBarrier ==
  /\ At("pull") /\ barriers < MaxBarriers
  /\ Stay("barrier")
  /\ UNCHANGED <<flushing, previous, coordVars, cancelled, slots, completions, logVars>>

\* prepare_tx.send, which would block on a full queue, then receive_ready.
SendToPrepare ==
  /\ At("send")
  /\ IF phase[Prepare] = "exited"
     THEN Accept([kind |-> "Disconnected", sequence |-> previous]) /\ UNCHANGED inbox
     ELSE /\ Len(inbox[Prepare]) < Limit
          /\ inbox' = [inbox EXCEPT ![Prepare] = Append(@, previous)]
          /\ UNCHANGED <<coordVars, flushing, cancelled, slots>>
  /\ Stay("ready")
  /\ UNCHANGED <<spawned, previous, completions, phase, holding, nextTeam, probe, logVars>>

ReceiveReady ==
  /\ At("ready")
  /\ IF completions # <<>> \/ (NoSenders /\ outstanding # {})
     THEN ReceiveOne /\ Stay("ready")
     ELSE Stay("head") /\ UNCHANGED <<coordVars, flushing, cancelled, slots, completions>>
  /\ UNCHANGED <<previous, logVars>>

BarrierDrains ==
  /\ At("barrier") /\ outstanding # {}
  /\ ReceiveOne
  /\ Stay("barrier")
  /\ UNCHANGED <<previous, logVars>>

BarrierSkipped ==
  /\ At("barrier") /\ outstanding = {} /\ Stopped
  /\ Break
  /\ UNCHANGED <<flushing, previous, coordVars, cancelled, slots, completions, logVars>>

\* Mutation of BarrierRuns: the callback does not wait for the drain.
BarrierRunsEarly ==
  /\ At("barrier") /\ ~Stopped
  /\ barriers' = barriers + 1
  /\ Stay("head")
  /\ UNCHANGED <<flushing, previous, coordVars, cancelled, slots, completions, submitted,
                 emitted>>

BarrierRuns ==
  /\ At("barrier") /\ outstanding = {} /\ ~Stopped
  /\ barriers' = barriers + 1
  /\ Stay("head")
  /\ UNCHANGED <<flushing, previous, coordVars, cancelled, slots, completions, submitted,
                 emitted>>

BarrierFails ==
  /\ At("barrier") /\ outstanding = {} /\ ~Stopped
  /\ \E e \in CallbackErrors : FailWith(e)
  /\ Break
  /\ UNCHANGED <<flushing, previous, slots, completions, logVars>>

FinalDrain ==
  /\ At("drain") /\ outstanding # {}
  /\ ReceiveOne
  /\ Stay("drain")
  /\ UNCHANGED <<previous, logVars>>

\* Mutation of EndRun: cancellation ends the run without draining it.
EndRunUndrained ==
  /\ At("drain") /\ (outstanding = {} \/ cancelled)
  /\ error' = IF cancelled /\ ~failed THEN "Cancelled" ELSE error
  /\ Stay("joining")
  /\ UNCHANGED <<flushing, previous, order, outstanding, outputs, terminal, cancelled, slots,
                 completions, logVars>>

\* fail_if_empty(Cancelled)
EndRun ==
  /\ At("drain") /\ outstanding = {}
  /\ error' = IF cancelled /\ ~failed THEN "Cancelled" ELSE error
  /\ Stay("joining")
  /\ UNCHANGED <<flushing, previous, order, outstanding, outputs, terminal, cancelled, slots,
                 completions, logVars>>

\* The thread scope joins every worker; then the permits are counted.
JoinWorkers ==
  /\ At("joining") /\ NoSenders
  /\ error' = IF slots # 0 /\ ~failed THEN "LeakedSlots" ELSE error
  /\ Stay("done")
  /\ UNCHANGED <<flushing, previous, order, outstanding, outputs, terminal, cancelled, slots,
                 completions, logVars>>

\* What the scene's iterator may do when it is asked, and a barrier callback.
SceneStep ==
  \/ OpenScenePanics
  \/ ScenePanics
  \/ SceneEnds
  \/ \E s \in FrameIds : SceneFrame(s)
  \/ SceneBarrier

BarrierStep == BarrierRuns \/ BarrierFails

RunStep ==
  \/ OpenScene
  \/ LoopHead
  \/ GateWaits
  \/ GatePasses
  \/ ReceiveReady
  \/ BarrierDrains
  \/ BarrierSkipped
  \/ FinalDrain
  \/ EndRun
  \/ JoinWorkers

CoordinatorLoop ==
  /\ SceneStep \/ BarrierStep \/ RunStep
  /\ UNCHANGED <<spawned, workerVars>>

CoordinatorStep ==
  \/ SpawnWorker
  \/ SpawnRefused
  \/ EmitReady
  \/ SendToPrepare
  \/ CoordinatorLoop

\* The host cancels the token it shares with the pipeline.
HostCancels ==
  /\ ~cancelled /\ cancelled' = TRUE
  /\ UNCHANGED <<coord, flushing, spawned, previous, coordVars, slots, completions,
                 inputClosed, workerVars, logVars>>

Finished == coord = "done" /\ UNCHANGED vars

Next ==
  \/ CoordinatorStep
  \/ \E w \in Workers : WorkerStep(w)
  \/ HostCancels
  \/ Finished

Spec == Init /\ [][Next]_vars

\* Every thread keeps running: callbacks return and receives are served.
Fairness == WF_vars(CoordinatorStep) /\ \A w \in Workers : WF_vars(WorkerStep(w))

FairSpec == Spec /\ Fairness

-----------------------------------------------------------------------------
(* Properties. *)

InFlight(w) == phase[w] \in {"busy", "forward", "sending", "probing", "failing"}

\* The places a frame can be in, each with the number of times it is there.
Occurrences(s) ==
  LET reported == Cardinality({i \in DOMAIN completions : completions[i].sequence = s})
      queued == Cardinality({p \in Workers \X (1 .. Limit) :
                               p[2] \in DOMAIN inbox[p[1]] /\ inbox[p[1]][p[2]] = s})
      held == Cardinality({w \in Workers : InFlight(w) /\ holding[w] = s})
      parked == IF s \in outputs THEN 1 ELSE 0
      sending == IF coord = "send" /\ previous = s THEN 1 ELSE 0
  IN reported + queued + held + parked + sending

(* Frames rasterized out of order by racing teams are emitted in submission *)
(* order, none skipped and none repeated, up to the failure if there is one. *)
EmissionFollowsSubmission ==
  /\ Len(emitted) <= Len(submitted)
  /\ \A i \in 1 .. Len(emitted) : emitted[i] = submitted[i]

(* Every outstanding frame is in exactly one place, with its permit: none   *)
(* is lost or duplicated by a hand-over, a cancellation or a failure.       *)
FramesAreAccountedFor ==
  /\ slots = Cardinality(outstanding)
  /\ \A s \in FrameIds : Occurrences(s) = IF s \in outstanding THEN 1 ELSE 0

(* The errors that report the pipeline's own bookkeeping gone wrong are     *)
(* never raised: no stage disconnects and no permit outlives the workers.   *)
NoInternalError == error \notin {"StageDisconnected", "LeakedSlots"}

(* A barrier callback runs only when everything submitted before it was     *)
(* emitted and no worker holds or is about to receive a frame.              *)
BarriersAreQuiet ==
  [][barriers' # barriers =>
       /\ emitted = submitted /\ slots = 0 /\ completions = <<>>
       /\ \A w \in Workers : ~InFlight(w) /\ inbox[w] = <<>>]_vars

(* A stage failure is what the run reports, or an earlier error: although   *)
(* the worker cancels before it reports, the run never ends as merely       *)
(* Cancelled, and never as Ok.                                              *)
FailureIsReported ==
  \A w \in Workers :
    phase[w] = "failing" ~> coord = "done" /\ error \notin {"None", "Cancelled"}

(* The pipeline implements ordered delivery through a bounded window: the   *)
(* run takes and emits in order, never more than the limit behind, ends Ok  *)
(* only with everything emitted, and always ends.                           *)
Outcome == IF coord # "done" THEN "running" ELSE IF failed THEN "failed" ELSE "complete"

Delivery == INSTANCE OrderedDelivery WITH
  Window <- Limit, Items <- FrameIds,
  given <- submitted, handed <- emitted, outcome <- Outcome

ImplementsOrderedDelivery == Delivery!DSpec
=============================================================================
