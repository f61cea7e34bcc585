---------------------------- MODULE OrderedEmitter ----------------------------
(***************************************************************************)
(* The ordered emitter of crates/fmn-output/src/emitter.rs: a bounded ring *)
(* of preallocated frame slots between the dispatch threads, which reserve *)
(* slots in sequence order and publish them in any order, and one drain    *)
(* thread, which hands the frames to every sink in sequence order and then *)
(* finalizes the sinks (prepare all, decide, commit or abort all).         *)
(*                                                                         *)
(* A step is one critical section of `Shared::state`, or one call into a   *)
(* sink, which the drain thread makes with that mutex released.  The two   *)
(* condition variables are modelled by the threads parked on them: the     *)
(* drain on `ready`, dispatchers on `slot_available`.  A notification is   *)
(* part of the critical section it follows; the wake-up a thread can get   *)
(* from one sent after it parked is a SpuriousWakeup.                      *)
(***************************************************************************)
EXTENDS Integers, Sequences, FiniteSets

CONSTANTS
  Capacity,       \* EmitterConfig::capacity, slots of the ring
  FirstSequence,  \* EmitterConfig::first_sequence
  MaxSequence,    \* stands for u64::MAX, the sequence that has no successor
  Dispatchers,    \* threads that call reserve through a handle
  NumSinks,       \* sinks 1 .. NumSinks, in binding order
  PreviewSinks    \* the sinks bound with SinkMode::PreviewDrop

ASSUME CapacityAssumption == Capacity \in Nat \ {0}
ASSUME SequenceAssumption ==
  FirstSequence \in Nat /\ MaxSequence \in Nat /\ FirstSequence <= MaxSequence
ASSUME SinkAssumption == NumSinks \in Nat \ {0} /\ PreviewSinks \subseteq 1 .. NumSinks

Slots == 0 .. Capacity - 1
FrameIds == FirstSequence .. MaxSequence
Sinks == 1 .. NumSinks

SlotStates == {"Free", "Writing", "Ready", "Emitting", "Vacant"}
DeliveryErrors == {"ReliableSinkWouldBlock", "SinkFailed"}
Failures == DeliveryErrors \cup {"Cancelled", "ReservationAbandoned", "InternalInvariant"}
Outcomes == {"Won", "TooLate", "AlreadyTerminal"}

VARIABLES
  slot,             \* tag of each ring slot
  frame,            \* sequence carried by a slot's tag (stale when Free or Vacant)
  reserveSlot, emitSlot,
  nextReservation, nextEmission,
  outstanding,
  closed,
  failure,          \* "None" or the first error recorded
  finalization,     \* the separate finalization mutex's state
  reservations,     \* live FrameReservation guards: [slot, sequence]
  dispatch,         \* each dispatcher: "idle", "blocked" on slot_available, "woken"
  request,          \* the sequence a blocked or woken dispatcher asked for
  drain,            \* where the drain thread is
  cursor,           \* the sink the drain thread calls next
  delivery,         \* deliver_frame's result, "None" for Ok
  sink,             \* life of each sink
  accepted,         \* frames each sink consumed, in order
  controller,       \* the thread that owns the OrderedEmitter
  outcomes          \* every CancelOutcome returned so far

ringVars == <<slot, frame, reserveSlot, emitSlot, nextReservation, nextEmission,
              outstanding>>
drainVars == <<drain, cursor, delivery>>
sinkVars == <<sink, accepted>>
dispatchVars == <<dispatch, request>>
vars == <<ringVars, closed, failure, finalization, reservations, dispatchVars,
          drainVars, sinkVars, controller, outcomes>>

Reservation == [slot : Slots, sequence : FrameIds]

(* One type invariant: emitter.rs's State, the guards and the thread positions. *)
TypeOK ==
  /\ slot \in [Slots -> SlotStates]
  /\ frame \in [Slots -> FrameIds]
  /\ reserveSlot \in Slots /\ emitSlot \in Slots
  /\ nextReservation \in FrameIds /\ nextEmission \in FrameIds
  /\ outstanding \in 0 .. Capacity
  /\ closed \in BOOLEAN
  /\ failure \in Failures \cup {"None"}
  /\ finalization \in {"Open", "Cancelled", "Committing", "Complete"}
  /\ reservations \in SUBSET Reservation
  /\ dispatch \in [Dispatchers -> {"idle", "blocked", "woken"}]
  /\ request \in [Dispatchers -> FrameIds]
  /\ drain \in {"check", "parked", "deliver", "settle", "finalize", "prepare",
                "decide", "commit", "abort", "done"}
  /\ cursor \in Sinks
  /\ delivery \in DeliveryErrors \cup {"None"}
  /\ sink \in [Sinks -> {"open", "prepared", "refused", "committed", "aborted"}]
  /\ accepted \in [Sinks -> Seq(FrameIds)]
  /\ controller \in {"running", "joining", "finished", "dropped"}
  /\ outcomes \in SUBSET Outcomes

Init ==
  /\ slot = [i \in Slots |-> "Free"]
  /\ frame = [i \in Slots |-> FirstSequence]
  /\ reserveSlot = 0 /\ emitSlot = 0
  /\ nextReservation = FirstSequence /\ nextEmission = FirstSequence
  /\ outstanding = 0
  /\ closed = FALSE
  /\ failure = "None"
  /\ finalization = "Open"
  /\ reservations = {}
  /\ dispatch = [p \in Dispatchers |-> "idle"]
  /\ request = [p \in Dispatchers |-> FirstSequence]
  /\ drain = "check" /\ cursor = 1 /\ delivery = "None"
  /\ sink = [k \in Sinks |-> "open"]
  /\ accepted = [k \in Sinks |-> <<>>]
  /\ controller = "running"
  /\ outcomes = {}

-----------------------------------------------------------------------------
(* Helpers named after the source. *)

Advance(i) == IF i + 1 = Capacity THEN 0 ELSE i + 1

\* State::fail keeps the first error.
Fail(error) == failure' = IF failure = "None" THEN error ELSE failure

\* Mutation of WakeDispatchers: notify_one in place of notify_all.
WakeOneDispatcher ==
  \/ \E p \in Dispatchers :
       dispatch[p] = "blocked" /\ dispatch' = [dispatch EXCEPT ![p] = "woken"]
  \/ (\A p \in Dispatchers : dispatch[p] # "blocked") /\ UNCHANGED dispatch

\* slot_available.notify_all
WakeDispatchers ==
  dispatch' = [p \in Dispatchers |->
                 IF dispatch[p] = "blocked" THEN "woken" ELSE dispatch[p]]

\* ready.notify_one / notify_all: only the drain thread ever waits on it.
WakeDrain == drain' = IF drain = "parked" THEN "check" ELSE drain

NotifyAll == WakeDispatchers /\ WakeDrain

\* saturating_sub(1)
ReleaseSlot == outstanding' = IF outstanding = 0 THEN 0 ELSE outstanding - 1

Owns(r) == slot[r.slot] = "Writing" /\ frame[r.slot] = r.sequence

-----------------------------------------------------------------------------
(* EmitterHandle::reserve: one iteration of its loop under the state mutex. *)

\* Mutation of HasRoom: off by one on a full ring.
HasRoomOffByOne == outstanding <= Capacity

HasRoom == outstanding < Capacity

\* Mutation of Refused: the last sequence number is granted.
RefusedWithoutExhaustion(s) == failure # "None" \/ closed \/ s # nextReservation

Refused(s) ==
  \/ failure # "None"
  \/ closed
  \/ s # nextReservation
  \/ s = MaxSequence

ReserveRefused(p, s) ==
  /\ Refused(s)
  /\ dispatch' = [dispatch EXCEPT ![p] = "idle"]
  /\ UNCHANGED <<ringVars, closed, failure, finalization, reservations, request,
                 drainVars, sinkVars, controller, outcomes>>

ReserveBlocks(p, s) ==
  /\ ~Refused(s) /\ ~HasRoom
  /\ dispatch' = [dispatch EXCEPT ![p] = "blocked"]
  /\ request' = [request EXCEPT ![p] = s]
  /\ UNCHANGED <<ringVars, closed, failure, finalization, reservations,
                 drainVars, sinkVars, controller, outcomes>>

GrantSlot(p, s) ==
  /\ slot' = [slot EXCEPT ![reserveSlot] = "Writing"]
  /\ frame' = [frame EXCEPT ![reserveSlot] = s]
  /\ reserveSlot' = Advance(reserveSlot)
  /\ nextReservation' = nextReservation + 1
  /\ outstanding' = outstanding + 1
  /\ reservations' = reservations \cup {[slot |-> reserveSlot, sequence |-> s]}
  /\ dispatch' = [dispatch EXCEPT ![p] = "idle"]
  /\ UNCHANGED <<emitSlot, nextEmission, closed, failure, finalization, request,
                 drainVars, sinkVars, controller, outcomes>>

ReserveBreach(p) ==
  /\ Fail("InternalInvariant")
  /\ dispatch' = [q \in Dispatchers |->
                    IF q = p THEN "idle"
                    ELSE IF dispatch[q] = "blocked" THEN "woken" ELSE dispatch[q]]
  /\ WakeDrain
  /\ UNCHANGED <<ringVars, closed, finalization, reservations, request, cursor,
                 delivery, sinkVars, controller, outcomes>>

ReserveProceeds(p, s) ==
  /\ ~Refused(s) /\ HasRoom
  /\ IF slot[reserveSlot] = "Free" THEN GrantSlot(p, s) ELSE ReserveBreach(p)

ReserveIteration(p, s) ==
  \/ ReserveRefused(p, s)
  \/ ReserveBlocks(p, s)
  \/ ReserveProceeds(p, s)

Reserve(p, s) == dispatch[p] = "idle" /\ ReserveIteration(p, s)

ResumeReserve(p) == dispatch[p] = "woken" /\ ReserveIteration(p, request[p])

-----------------------------------------------------------------------------
(* FrameReservation::publish and the guard's Drop. *)

\* The publication found a failure: the slot is reusable, the frame is not sent.
PublishTooLate(r) ==
  /\ slot' = [slot EXCEPT ![r.slot] = "Free"]
  /\ ReleaseSlot
  /\ NotifyAll
  /\ UNCHANGED <<failure, frame, reserveSlot, emitSlot, nextReservation, nextEmission>>

PublishReady(r) ==
  /\ slot' = [slot EXCEPT ![r.slot] = "Ready"]
  /\ WakeDrain
  /\ UNCHANGED <<failure, dispatch, outstanding, frame, reserveSlot, emitSlot,
                 nextReservation, nextEmission>>

GuardBreach ==
  /\ Fail("InternalInvariant")
  /\ NotifyAll
  /\ UNCHANGED ringVars

Publish(r) ==
  /\ reservations' = reservations \ {r}
  /\ IF ~Owns(r) THEN GuardBreach
     ELSE IF failure # "None" THEN PublishTooLate(r) ELSE PublishReady(r)
  /\ UNCHANGED <<closed, finalization, request, cursor, delivery, sinkVars,
                 controller, outcomes>>

\* The slot stays Vacant: its buffer went away with the reservation.
AbandonSlot(r) ==
  /\ slot' = [slot EXCEPT ![r.slot] = "Vacant"]
  /\ ReleaseSlot
  /\ Fail("ReservationAbandoned")
  /\ NotifyAll
  /\ UNCHANGED <<frame, reserveSlot, emitSlot, nextReservation, nextEmission>>

DropReservation(r) ==
  /\ reservations' = reservations \ {r}
  /\ IF Owns(r) THEN AbandonSlot(r) ELSE GuardBreach
  /\ UNCHANGED <<closed, finalization, request, cursor, delivery, sinkVars,
                 controller, outcomes>>

-----------------------------------------------------------------------------
(* The drain thread: next_drain_step, deliver_frame, and the rest of drain. *)

DrainFailed ==
  /\ failure # "None"
  /\ drain' = "finalize"
  /\ UNCHANGED <<slot, failure, dispatch, cursor>>

DrainTakes ==
  /\ failure = "None" /\ slot[emitSlot] = "Ready"
  /\ IF frame[emitSlot] = nextEmission
     THEN /\ slot' = [slot EXCEPT ![emitSlot] = "Emitting"]
          /\ drain' = "deliver" /\ cursor' = 1
          /\ UNCHANGED <<failure, dispatch>>
     ELSE /\ Fail("InternalInvariant") /\ WakeDispatchers
          /\ drain' = "finalize"
          /\ UNCHANGED <<slot, cursor>>

\* Mutation of DrainComplete: closing is taken for completion.
DrainCompleteEarly ==
  /\ failure = "None" /\ slot[emitSlot] # "Ready" /\ closed
  /\ drain' = "finalize"
  /\ UNCHANGED <<slot, failure, dispatch, cursor>>

DrainComplete ==
  /\ failure = "None" /\ slot[emitSlot] # "Ready"
  /\ closed /\ outstanding = 0
  /\ drain' = "finalize"
  /\ UNCHANGED <<slot, failure, dispatch, cursor>>

DrainParks ==
  /\ failure = "None" /\ slot[emitSlot] # "Ready"
  /\ ~(closed /\ outstanding = 0)
  /\ drain' = "parked"
  /\ UNCHANGED <<slot, failure, dispatch, cursor>>

NextDrainStep ==
  /\ drain = "check"
  /\ \/ DrainFailed
     \/ DrainTakes
     \/ DrainComplete
     \/ DrainParks
  /\ UNCHANGED <<frame, reserveSlot, emitSlot, nextReservation, nextEmission,
                 outstanding, closed, finalization, reservations, request,
                 delivery, sinkVars, controller, outcomes>>

\* deliver_frame moves on to the next sink, or returns Ok after the last one.
NextDelivery ==
  IF cursor = NumSinks
  THEN drain' = "settle" /\ cursor' = cursor
  ELSE drain' = drain /\ cursor' = cursor + 1

SinkConsumes ==
  /\ accepted' = [accepted EXCEPT ![cursor] = Append(@, frame[emitSlot])]
  /\ NextDelivery
  /\ UNCHANGED delivery

SinkDropsPreview ==
  /\ cursor \in PreviewSinks
  /\ NextDelivery
  /\ UNCHANGED <<accepted, delivery>>

\* WouldBlock from a reliable sink, an error, or a contained panic.
SinkBreaksDelivery ==
  /\ \/ cursor \notin PreviewSinks /\ delivery' = "ReliableSinkWouldBlock"
     \/ delivery' = "SinkFailed"
  /\ drain' = "settle"
  /\ UNCHANGED <<accepted, cursor>>

DeliverFrame ==
  /\ drain = "deliver"
  /\ \/ SinkConsumes
     \/ SinkDropsPreview
     \/ SinkBreaksDelivery
  /\ UNCHANGED <<ringVars, closed, failure, finalization, reservations,
                 dispatchVars, sink, controller, outcomes>>

OwnsEmitting == slot[emitSlot] = "Emitting" /\ frame[emitSlot] = nextEmission

\* Mutation of AdvanceEmission: a frame whose delivery failed counts as emitted.
AdvanceEmissionAnyway ==
  IF OwnsEmitting
  THEN emitSlot' = Advance(emitSlot) /\ nextEmission' = nextEmission + 1
  ELSE UNCHANGED <<emitSlot, nextEmission>>

\* The ring cursors move only past a frame every sink's policy accepted.
AdvanceEmission ==
  IF delivery = "None" /\ OwnsEmitting
  THEN emitSlot' = Advance(emitSlot) /\ nextEmission' = nextEmission + 1
  ELSE UNCHANGED <<emitSlot, nextEmission>>

\* Mutation of FreeEmitted: the slot after the cursor is freed.
FreeAfterAdvance ==
  IF OwnsEmitting
  THEN slot' = [slot EXCEPT ![Advance(emitSlot)] = "Free"] /\ ReleaseSlot
  ELSE UNCHANGED <<slot, outstanding>>

FreeEmitted ==
  IF OwnsEmitting
  THEN slot' = [slot EXCEPT ![emitSlot] = "Free"] /\ ReleaseSlot
  ELSE UNCHANGED <<slot, outstanding>>

SettleFailure ==
  IF ~OwnsEmitting THEN Fail("InternalInvariant")
  ELSE IF delivery # "None" THEN Fail(delivery)
  ELSE UNCHANGED failure

SettleFrame ==
  /\ drain = "settle"
  /\ FreeEmitted
  /\ SettleFailure
  /\ AdvanceEmission
  /\ WakeDispatchers
  /\ drain' = IF failure' # "None" THEN "finalize" ELSE "check"
  /\ delivery' = "None"
  /\ UNCHANGED <<frame, reserveSlot, nextReservation, closed, finalization,
                 reservations, request, cursor, sinkVars, controller, outcomes>>

-----------------------------------------------------------------------------
(* finalize_sinks and abort_sinks. *)

BeginFinalize ==
  /\ drain = "finalize"
  /\ drain' = IF failure # "None" THEN "abort" ELSE "prepare"
  /\ cursor' = 1
  /\ UNCHANGED <<ringVars, closed, failure, finalization, reservations,
                 dispatchVars, delivery, sinkVars, controller, outcomes>>

PrepareOk ==
  /\ sink' = [sink EXCEPT ![cursor] = "prepared"]
  /\ IF cursor = NumSinks
     THEN drain' = "decide" /\ cursor' = 1
     ELSE drain' = drain /\ cursor' = cursor + 1
  /\ UNCHANGED <<failure, dispatch>>

PrepareFails ==
  /\ sink' = [sink EXCEPT ![cursor] = "refused"]
  /\ Fail("SinkFailed")
  /\ WakeDispatchers
  /\ drain' = "abort" /\ cursor' = 1

PrepareFinish ==
  /\ drain = "prepare"
  /\ PrepareOk \/ PrepareFails
  /\ UNCHANGED <<ringVars, closed, finalization, reservations, request, delivery,
                 accepted, controller, outcomes>>

\* Mutation of MayCommit: the check made before prepare_finish is trusted.
MayCommitUnchecked == TRUE

MayCommit == finalization = "Open" /\ failure = "None"

\* From here to the last commit the drain thread holds the finalization mutex.
DecideFinalization ==
  /\ drain = "decide"
  /\ IF MayCommit
     THEN finalization' = "Committing" /\ drain' = "commit"
     ELSE finalization' = "Cancelled" /\ drain' = "abort"
  /\ UNCHANGED <<ringVars, closed, failure, reservations, dispatchVars, cursor,
                 delivery, sinkVars, controller, outcomes>>

CommitOk ==
  /\ sink' = [sink EXCEPT ![cursor] = "committed"]
  /\ IF cursor = NumSinks
     THEN finalization' = "Complete" /\ drain' = "done" /\ cursor' = cursor
     ELSE finalization' = finalization /\ drain' = drain /\ cursor' = cursor + 1
  /\ UNCHANGED <<failure, dispatch>>

\* The failing sink and those after it are aborted; earlier ones stay committed.
CommitFails ==
  /\ sink' = [sink EXCEPT ![cursor] = "refused"]
  /\ finalization' = "Complete"
  /\ Fail("SinkFailed")
  /\ WakeDispatchers
  /\ drain' = "abort"
  /\ UNCHANGED cursor

CommitFinish ==
  /\ drain = "commit"
  /\ CommitOk \/ CommitFails
  /\ UNCHANGED <<ringVars, closed, reservations, request, delivery, accepted,
                 controller, outcomes>>

AbortSink ==
  /\ drain = "abort"
  /\ sink' = [sink EXCEPT ![cursor] = "aborted"]
  /\ IF cursor = NumSinks
     THEN drain' = "done" /\ cursor' = cursor
     ELSE drain' = drain /\ cursor' = cursor + 1
  /\ UNCHANGED <<ringVars, closed, failure, finalization, reservations,
                 dispatchVars, delivery, accepted, controller, outcomes>>

-----------------------------------------------------------------------------
(* Shared::cancel, and the controller's finish and Drop. *)

\* The finalization mutex is held by the drain thread while it commits.
FinalizationFree == drain # "commit"

CancelOpen ==
  /\ finalization = "Open"
  /\ finalization' = "Cancelled"
  /\ IF failure # "None"
     THEN /\ outcomes' = outcomes \cup {"AlreadyTerminal"}
          /\ UNCHANGED <<failure, dispatch, drain>>
     ELSE /\ outcomes' = outcomes \cup {"Won"}
          /\ Fail("Cancelled")
          /\ NotifyAll

CancelSettled ==
  /\ finalization # "Open"
  /\ outcomes' = outcomes \cup
       {IF finalization = "Cancelled" THEN "AlreadyTerminal" ELSE "TooLate"}
  /\ UNCHANGED <<finalization, failure, dispatch, drain>>

SharedCancel ==
  /\ FinalizationFree
  /\ CancelOpen \/ CancelSettled
  /\ UNCHANGED <<ringVars, closed, reservations, request, cursor, delivery, sinkVars>>

\* EmitterHandle::cancel, from any thread that kept a handle.
Cancel == SharedCancel /\ UNCHANGED controller

\* Dropping the controller cancels and detaches the drain thread.
DropEmitter ==
  /\ controller = "running" /\ controller' = "dropped"
  /\ SharedCancel

\* Mutation of CloseRing: closing does not wake the waiters.
CloseRingSilently ==
  /\ controller = "running" /\ controller' = "joining"
  /\ closed' = TRUE
  /\ UNCHANGED <<ringVars, failure, finalization, reservations, dispatchVars,
                 drainVars, sinkVars, outcomes>>

CloseRing ==
  /\ controller = "running" /\ controller' = "joining"
  /\ closed' = TRUE
  /\ NotifyAll
  /\ UNCHANGED <<ringVars, failure, finalization, reservations, request, cursor,
                 delivery, sinkVars, outcomes>>

JoinDrain ==
  /\ controller = "joining" /\ drain = "done"
  /\ controller' = "finished"
  /\ UNCHANGED <<ringVars, closed, failure, finalization, reservations,
                 dispatchVars, drainVars, sinkVars, outcomes>>

-----------------------------------------------------------------------------
SpuriousWakeup ==
  /\ \/ /\ drain = "parked" /\ drain' = "check"
        /\ UNCHANGED dispatch
     \/ \E p \in Dispatchers :
          /\ dispatch[p] = "blocked"
          /\ dispatch' = [dispatch EXCEPT ![p] = "woken"]
          /\ UNCHANGED drain
  /\ UNCHANGED <<ringVars, closed, failure, finalization, reservations, request,
                 cursor, delivery, sinkVars, controller, outcomes>>

Drain ==
  \/ NextDrainStep
  \/ DeliverFrame
  \/ SettleFrame
  \/ BeginFinalize
  \/ PrepareFinish
  \/ DecideFinalization
  \/ CommitFinish
  \/ AbortSink

Resolve(r) == r \in reservations /\ (Publish(r) \/ DropReservation(r))

Next ==
  \/ \E p \in Dispatchers, s \in FrameIds : Reserve(p, s)
  \/ \E p \in Dispatchers : ResumeReserve(p)
  \/ \E r \in reservations : Publish(r)
  \/ \E r \in reservations : DropReservation(r)
  \/ Drain
  \/ Cancel
  \/ DropEmitter
  \/ CloseRing
  \/ JoinDrain
  \/ SpuriousWakeup

Spec == Init /\ [][Next]_vars

\* A sink call returns, a woken thread gets the mutex, join returns, and a
\* reservation is published or dropped (Rust drops it with its owner).
Fairness ==
  /\ WF_vars(Drain)
  /\ \A p \in Dispatchers : WF_vars(ResumeReserve(p))
  /\ \A r \in Reservation : WF_vars(Resolve(r))
  /\ WF_vars(JoinDrain)

FairSpec == Spec /\ Fairness

-----------------------------------------------------------------------------
(* Properties. *)

emitted == nextEmission - FirstSequence
ReliableSinks == Sinks \ PreviewSinks
Committed == {k \in Sinks : sink[k] = "committed"}
Aborted == {k \in Sinks : sink[k] = "aborted"}

(* No interleaving of dispatch, publication, drops, cancellation and drain  *)
(* reaches one of the four `InternalInvariant` errors of emitter.rs: the    *)
(* reserve cursor always addresses a free slot, a publication or a dropped  *)
(* guard owns its writing slot, and the drain's slot matches its cursor.    *)
RingIsSound == failure # "InternalInvariant"

(* Every live guard owns a slot of its own, and the slot the sinks read is  *)
(* never one a dispatcher can still write: `frame_mut` never aliases a      *)
(* frame in delivery.                                                       *)
WritersAreExclusive ==
  /\ \A r \in reservations : Owns(r)
  /\ drain \in {"deliver", "settle"} =>
       OwnsEmitting /\ \A r \in reservations : r.slot # emitSlot

(* Whatever order frames are published in, a reliable sink has consumed     *)
(* exactly the contiguous frames emitted so far, or those and the one in    *)
(* delivery, and no sink is ahead of a reliable sink bound before it; a     *)
(* preview sink may miss frames but never sees one twice or out of order.   *)
SinksSeeThePrefix ==
  \A k \in Sinks :
    /\ k \in ReliableSinks =>
         /\ \A n \in 1 .. Len(accepted[k]) : accepted[k][n] = FirstSequence + n - 1
         /\ Len(accepted[k]) \in {emitted, emitted + 1}
         /\ \A j \in Sinks : j > k => Len(accepted[j]) <= Len(accepted[k])
    /\ \A n \in 1 .. Len(accepted[k]) :
         /\ accepted[k][n] <= nextEmission
         /\ n > 1 => accepted[k][n - 1] < accepted[k][n]

(* A thread parked on a condition variable has nothing to do: no change     *)
(* that would let it proceed is made without waking it.                     *)
NoLostWakeup ==
  /\ drain = "parked" =>
       failure = "None" /\ slot[emitSlot] # "Ready" /\ ~(closed /\ outstanding = 0)
  /\ \A p \in Dispatchers :
       dispatch[p] = "blocked" => ~Refused(request[p]) /\ ~HasRoom

(* The answer `cancel` gives is the truth: Won means the stream ends in     *)
(* Cancelled and no sink is ever committed, TooLate means the decision to   *)
(* commit stands and the stream never ends in Cancelled.                    *)
CancelTellsTheTruth ==
  /\ "Won" \in outcomes => failure = "Cancelled" /\ Committed = {}
  /\ "TooLate" \in outcomes => failure # "Cancelled" /\ drain \in {"abort", "done"}
  /\ ~({"Won", "TooLate"} \subseteq outcomes)

(* A dispatcher blocked in `reserve` always returns, with a slot or an      *)
(* error, as long as reservations are published or dropped; and `finish`    *)
(* returns: closing the ring drains it and finalizes every sink.            *)
EmitterCallsReturn ==
  /\ \A p \in Dispatchers : dispatch[p] = "blocked" ~> dispatch[p] = "idle"
  /\ controller = "joining" ~> controller = "finished"

(* The emitter implements the promise of AtomicPublication. *)
Verdict ==
  IF finalization \in {"Committing", "Complete"}
  THEN IF failure = "None" THEN "commit" ELSE "broken"
  ELSE IF failure = "None" THEN "open" ELSE "abort"

Promise == INSTANCE AtomicPublication WITH
  reserved <- nextReservation - FirstSequence,
  emitted <- emitted,
  verdict <- Verdict,
  published <- Committed,
  discarded <- Aborted

ImplementsAtomicPublication == Promise!ASpec

=============================================================================
