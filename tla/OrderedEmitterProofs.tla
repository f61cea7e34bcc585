------------------------- MODULE OrderedEmitterProofs -------------------------
(***************************************************************************)
(* Proofs about the ordered emitter, for every capacity, sequence range,   *)
(* set of dispatchers and set of sinks: the ring and its cursors, the      *)
(* wake-ups, what cancel answers, the frames the sinks consume, and the    *)
(* promise of AtomicPublication, which the emitter keeps step by step.     *)
(***************************************************************************)
EXTENDS OrderedEmitter, TLAPS

(* How far a slot lies ahead of the emit cursor, going round the ring. *)
Offset(i) == IF i >= emitSlot THEN i - emitSlot ELSE i - emitSlot + Capacity

(* While nothing failed, the occupied slots are exactly the `outstanding`   *)
(* ones from the emit cursor on, and they carry consecutive sequences.      *)
RingShape ==
  /\ outstanding = nextReservation - nextEmission
  /\ \/ reserveSlot = emitSlot + outstanding
     \/ reserveSlot = emitSlot + outstanding - Capacity
  /\ \A i \in Slots :
       IF Offset(i) < outstanding
       THEN slot[i] \in {"Writing", "Ready", "Emitting"} /\ frame[i] = nextEmission + Offset(i)
       ELSE slot[i] = "Free"

(* Independent of failures: what the guards and the drain thread own. *)
Ownership ==
  /\ \A r \in reservations : Owns(r)
  /\ drain \in {"deliver", "settle"} => OwnsEmitting /\ nextEmission < nextReservation
  /\ nextEmission <= nextReservation

IInv ==
  /\ TypeOK
  /\ RingIsSound
  /\ failure = "None" => RingShape
  /\ Ownership

-----------------------------------------------------------------------------
(* The initial ring is empty, so its shape holds. *)
LEMMA InitIInv == Init => IInv
  <1> SUFFICES ASSUME Init PROVE IInv
    OBVIOUS
  <1> USE CapacityAssumption, SequenceAssumption, SinkAssumption DEF CapacityAssumption, SequenceAssumption, SinkAssumption
  <1>a. 0 \in Slots /\ FirstSequence \in FrameIds /\ 1 \in Sinks /\ 0 \in 0 .. Capacity
    BY DEF Slots, FrameIds, Sinks
  <1>b. accepted \in [Sinks -> Seq(FrameIds)]
    BY DEF Init
  <1>1. TypeOK
    BY <1>a, <1>b DEF Init, TypeOK, SlotStates
  <1>2. RingShape
    BY DEF Init, RingShape, Offset, Slots
  <1>3. QED
    BY <1>1, <1>2 DEF Init, IInv, RingIsSound, Ownership, FrameIds

(* Stuttering keeps the invariant. *)
LEMMA StutterIInv == IInv /\ UNCHANGED vars => IInv'
  BY DEF IInv, vars, ringVars, drainVars, sinkVars, dispatchVars, TypeOK, RingIsSound,
         RingShape, Ownership, Offset, Owns, OwnsEmitting

(* One iteration of the loop of `reserve`. *)
LEMMA ReserveIInv ==
  ASSUME IInv, NEW p \in Dispatchers, NEW s \in FrameIds, ReserveIteration(p, s)
  PROVE  IInv'
  <1> USE CapacityAssumption, SequenceAssumption DEF CapacityAssumption, SequenceAssumption
  <1>1. CASE ReserveRefused(p, s)
    BY <1>1 DEF ReserveRefused, IInv, ringVars, drainVars, sinkVars, TypeOK, RingIsSound,
                RingShape, Ownership, Offset, Owns, OwnsEmitting
  <1>2. CASE ReserveBlocks(p, s)
    BY <1>2 DEF ReserveBlocks, IInv, ringVars, drainVars, sinkVars, TypeOK, RingIsSound,
                RingShape, Ownership, Offset, Owns, OwnsEmitting
  <1>3. CASE ReserveProceeds(p, s)
    <2>1. /\ failure = "None" /\ s = nextReservation /\ s < MaxSequence
          /\ outstanding < Capacity
      BY <1>3 DEF ReserveProceeds, Refused, HasRoom, FrameIds
    <2>2. RingShape
      BY <2>1 DEF IInv
    <2>3. reserveSlot \in Slots /\ Offset(reserveSlot) = outstanding
      <3>1. /\ reserveSlot \in Int /\ emitSlot \in Int /\ outstanding \in Int
            /\ 0 <= reserveSlot /\ reserveSlot < Capacity
            /\ 0 <= emitSlot /\ emitSlot < Capacity
            /\ 0 <= outstanding /\ outstanding < Capacity
        BY <2>1 DEF IInv, TypeOK, Slots
      <3>2. CASE reserveSlot >= emitSlot
        BY <3>1, <3>2, <2>2 DEF RingShape, Offset, Slots
      <3>3. CASE ~(reserveSlot >= emitSlot)
        BY <3>1, <3>3, <2>2 DEF RingShape, Offset, Slots
      <3>4. QED
        BY <3>2, <3>3
    <2>4. slot[reserveSlot] = "Free"
      BY <2>2, <2>3 DEF RingShape, IInv, TypeOK
    <2>5. GrantSlot(p, s)
      BY <1>3, <2>4 DEF ReserveProceeds
    <2>6. TypeOK'
      <3>1. /\ Advance(reserveSlot) \in Slots /\ nextReservation + 1 \in FrameIds
            /\ outstanding + 1 \in 0 .. Capacity
        BY <2>1, <2>3 DEF Advance, IInv, TypeOK, Slots, FrameIds
      <3>2. [slot |-> reserveSlot, sequence |-> s] \in Reservation
        BY <2>3 DEF Reservation
      <3>3. QED
        BY <3>1, <3>2, <2>5 DEF GrantSlot, IInv, TypeOK, SlotStates, drainVars, sinkVars
    <2>7. RingShape'
      <3>1. outstanding' = nextReservation' - nextEmission'
        BY <2>1, <2>2, <2>5 DEF GrantSlot, RingShape, IInv, TypeOK, FrameIds
      <3>2. \/ reserveSlot' = emitSlot' + outstanding'
            \/ reserveSlot' = emitSlot' + outstanding' - Capacity
        <4>1. reserveSlot' = Advance(reserveSlot) /\ outstanding' = outstanding + 1
              /\ emitSlot' = emitSlot
          BY <2>5 DEF GrantSlot
        <4>2. CASE reserveSlot + 1 = Capacity
          BY <4>1, <4>2, <2>1, <2>2 DEF RingShape, IInv, TypeOK, Slots, Advance
        <4>3. CASE reserveSlot + 1 # Capacity
          BY <4>1, <4>3, <2>1, <2>2 DEF RingShape, IInv, TypeOK, Slots, Advance
        <4>4. QED
          BY <4>2, <4>3
      <3>3. ASSUME NEW i \in Slots
            PROVE  IF Offset(i)' < outstanding'
                   THEN /\ slot'[i] \in {"Writing", "Ready", "Emitting"}
                        /\ frame'[i] = nextEmission' + Offset(i)'
                   ELSE slot'[i] = "Free"
        <4>1. Offset(i)' = Offset(i) /\ outstanding' = outstanding + 1
          BY <2>5 DEF GrantSlot, Offset
        <4>2. CASE i = reserveSlot
          <5>1. slot'[i] = "Writing" /\ frame'[i] = s /\ nextEmission' = nextEmission
            BY <4>2, <2>3, <2>5 DEF GrantSlot, IInv, TypeOK
          <5>2. s = nextEmission + outstanding
            BY <2>1, <2>2 DEF RingShape, IInv, TypeOK, FrameIds
          <5>3. Offset(i)' = outstanding /\ outstanding \in Int /\ outstanding' = outstanding + 1
            BY <4>1, <4>2, <2>3 DEF IInv, TypeOK
          <5>4. Offset(i)' < outstanding'
            BY <5>3 DEF Offset
          <5>5. frame'[i] = nextEmission' + Offset(i)'
            BY <5>1, <5>2, <5>3
          <5>6. QED
            BY <5>1, <5>4, <5>5
        <4>3. CASE i # reserveSlot
          <5>1. Offset(i) # outstanding
            BY <4>3, <2>1, <2>2, <2>3 DEF RingShape, Offset, IInv, TypeOK, Slots
          <5>2. slot'[i] = slot[i] /\ frame'[i] = frame[i] /\ nextEmission' = nextEmission
            BY <4>3, <2>5 DEF GrantSlot, IInv, TypeOK
          <5>3. Offset(i) \in Int /\ outstanding \in Int
            BY DEF Offset, IInv, TypeOK, Slots
          <5>4. QED
            BY <5>1, <5>2, <5>3, <4>1, <2>2 DEF RingShape
        <4>4. QED
          BY <4>2, <4>3
      <3>4. QED
        BY <3>1, <3>2, <3>3 DEF RingShape
    <2>8. Ownership'
      <3>1. ASSUME NEW r \in reservations' PROVE Owns(r)'
        <4>1. CASE r = [slot |-> reserveSlot, sequence |-> s]
          BY <4>1, <2>3, <2>5 DEF GrantSlot, Owns, IInv, TypeOK
        <4>2. CASE r \in reservations
          <5>1. Owns(r) /\ r.slot # reserveSlot
            BY <4>2, <2>4 DEF IInv, Ownership, Owns
          <5>2. QED
            BY <5>1, <2>5, <4>2 DEF GrantSlot, Owns, IInv, TypeOK, Reservation
        <4>3. QED
          BY <4>1, <4>2, <2>5 DEF GrantSlot
      <3>2. drain' \in {"deliver", "settle"} => OwnsEmitting' /\ nextEmission' < nextReservation'
        BY <2>1, <2>4, <2>5 DEF GrantSlot, OwnsEmitting, IInv, Ownership, TypeOK, drainVars, FrameIds
      <3>3. nextEmission' <= nextReservation'
        BY <2>1, <2>5 DEF GrantSlot, IInv, Ownership, TypeOK, FrameIds
      <3>4. QED
        BY <3>1, <3>2, <3>3 DEF Ownership
    <2>9. QED
      BY <2>5, <2>6, <2>7, <2>8 DEF IInv, GrantSlot, RingIsSound
  <1>4. QED
    BY <1>1, <1>2, <1>3 DEF ReserveIteration

(* A step that leaves the ring and the guards alone, records no broken      *)
(* invariant and starts no delivery keeps the invariant if it keeps types.  *)
LEMMA RingUntouched ==
  ASSUME IInv, TypeOK', UNCHANGED ringVars, UNCHANGED reservations,
         failure' # "InternalInvariant", failure' = "None" => failure = "None",
         drain' \in {"deliver", "settle"} => drain \in {"deliver", "settle"}
  PROVE  IInv'
  BY DEF IInv, ringVars, RingIsSound, RingShape, Ownership, Offset, Owns, OwnsEmitting

(* What every guard owns: a slot of the ring in the Writing state. *)
LEMMA GuardFacts ==
  ASSUME IInv, NEW r \in reservations
  PROVE  /\ r \in Reservation /\ r.slot \in Slots /\ r.sequence \in FrameIds
         /\ Owns(r) /\ slot[r.slot] = "Writing"
         /\ \A q \in reservations : q # r => q.slot # r.slot
  <1>1. r \in Reservation /\ Owns(r)
    BY DEF IInv, TypeOK, Ownership
  <1>2. ASSUME NEW q \in reservations, q.slot = r.slot PROVE q = r
    <2>1. q \in Reservation /\ Owns(q)
      BY DEF IInv, TypeOK, Ownership
    <2>2. q.sequence = r.sequence
      BY <1>1, <1>2, <2>1 DEF Owns
    <2>3. QED
      BY <1>1, <1>2, <2>1, <2>2 DEF Reservation
  <1>3. QED
    BY <1>1, <1>2 DEF Reservation, Owns

(* Publishing makes a frame ready, frees its slot after a failure, or fails the ring. *)
LEMMA PublishIInv ==
  ASSUME IInv, NEW r \in reservations, Publish(r)
  PROVE  IInv'
  <1> USE CapacityAssumption, SequenceAssumption DEF CapacityAssumption, SequenceAssumption
  <1>1. /\ Owns(r) /\ r.slot \in Slots /\ slot[r.slot] = "Writing"
        /\ \A q \in reservations : q # r => q.slot # r.slot
        /\ \A q \in reservations : q.slot \in Slots
    BY GuardFacts
  <1>2. CASE failure # "None"
    <2>1. PublishTooLate(r) /\ reservations' = reservations \ {r}
      BY <1>1, <1>2 DEF Publish
    <2>2. outstanding' \in 0 .. Capacity
      BY <2>1 DEF PublishTooLate, ReleaseSlot, IInv, TypeOK
    <2>3. TypeOK'
      BY <1>1, <2>1, <2>2 DEF Publish, PublishTooLate, NotifyAll, WakeDispatchers, WakeDrain,
        IInv, TypeOK, SlotStates, sinkVars
    <2>4. Ownership'
      BY <1>1, <2>1 DEF PublishTooLate, NotifyAll, WakeDrain, IInv, TypeOK, Ownership, Owns,
        OwnsEmitting
    <2>5. QED
      BY <1>2, <2>1, <2>3, <2>4 DEF PublishTooLate, IInv, RingIsSound
  <1>3. CASE failure = "None"
    <2>1. PublishReady(r) /\ reservations' = reservations \ {r}
      BY <1>1, <1>3 DEF Publish
    <2>2. TypeOK'
      BY <1>1, <2>1 DEF Publish, PublishReady, WakeDrain, IInv, TypeOK, SlotStates, sinkVars
    <2>3. Ownership'
      BY <1>1, <2>1 DEF PublishReady, WakeDrain, IInv, TypeOK, Ownership, Owns, OwnsEmitting
    <2>4. RingShape
      BY <1>3 DEF IInv
    <2>5. RingShape'
      <3>1. ASSUME NEW i \in Slots
            PROVE  IF Offset(i) < outstanding
                   THEN slot'[i] \in {"Writing", "Ready", "Emitting"}
                        /\ frame[i] = nextEmission + Offset(i)
                   ELSE slot'[i] = "Free"
        BY <1>1, <2>1, <2>4 DEF RingShape, PublishReady, IInv, TypeOK
      <3>2. UNCHANGED <<frame, reserveSlot, emitSlot, nextReservation, nextEmission, outstanding>>
        BY <2>1 DEF PublishReady
      <3>3. QED
        BY <2>4, <3>1, <3>2 DEF RingShape, Offset
    <2>6. QED
      BY <1>3, <2>1, <2>2, <2>3, <2>5 DEF PublishReady, IInv, RingIsSound
  <1>4. QED
    BY <1>2, <1>3

(* An abandoned reservation fails the ring and frees its slot. *)
LEMMA DropIInv ==
  ASSUME IInv, NEW r \in reservations, DropReservation(r)
  PROVE  IInv'
  <1> USE CapacityAssumption, SequenceAssumption DEF CapacityAssumption, SequenceAssumption
  <1>1. /\ Owns(r) /\ r.slot \in Slots /\ slot[r.slot] = "Writing"
        /\ \A q \in reservations : q # r => q.slot # r.slot
        /\ \A q \in reservations : q.slot \in Slots
    BY GuardFacts
  <1>2. AbandonSlot(r) /\ reservations' = reservations \ {r}
    BY <1>1 DEF DropReservation
  <1>3. outstanding' \in 0 .. Capacity
    BY <1>2 DEF AbandonSlot, ReleaseSlot, IInv, TypeOK
  <1>4. /\ failure' \in Failures /\ failure' # "InternalInvariant" /\ failure' # "None"
    BY <1>2 DEF AbandonSlot, Fail, IInv, TypeOK, RingIsSound, Failures
  <1>5. TypeOK'
    BY <1>1, <1>2, <1>3, <1>4 DEF DropReservation, AbandonSlot, NotifyAll, WakeDispatchers,
      WakeDrain, IInv, TypeOK, SlotStates, sinkVars
  <1>6. Ownership'
    BY <1>1, <1>2 DEF AbandonSlot, NotifyAll, WakeDrain, IInv, TypeOK, Ownership, Owns,
      OwnsEmitting
  <1>7. QED
    BY <1>4, <1>5, <1>6 DEF IInv, RingIsSound

(* The drain thread takes the head frame, leaves for the finalization, or parks. *)
LEMMA NextDrainStepIInv ==
  ASSUME IInv, NextDrainStep
  PROVE  IInv'
  <1> USE CapacityAssumption, SequenceAssumption, SinkAssumption
      DEF CapacityAssumption, SequenceAssumption, SinkAssumption
  <1>1. CASE DrainFailed \/ DrainComplete \/ DrainParks
    <2>1. TypeOK'
      BY <1>1 DEF DrainFailed, DrainComplete, DrainParks, NextDrainStep, IInv, TypeOK, sinkVars
    <2>2. QED
      BY <1>1, <2>1, RingUntouched DEF DrainFailed, DrainComplete, DrainParks, NextDrainStep,
        IInv, RingIsSound, ringVars
  <1>2. CASE DrainTakes
    <2>1. RingShape /\ emitSlot \in Slots /\ slot[emitSlot] = "Ready" /\ drain = "check"
      BY <1>2 DEF DrainTakes, NextDrainStep, IInv, TypeOK
    <2>2. Offset(emitSlot) = 0
      BY <2>1 DEF Offset, Slots
    <2>3. 0 < outstanding /\ frame[emitSlot] = nextEmission /\ nextEmission < nextReservation
      <3>1. Offset(emitSlot) < outstanding
        BY <2>1 DEF RingShape
      <3>2. 0 < outstanding /\ nextEmission \in Int /\ nextReservation \in Int
        BY <3>1, <2>2 DEF IInv, TypeOK, FrameIds
      <3>3. frame[emitSlot] = nextEmission + 0
        BY <2>1, <2>2, <3>1 DEF RingShape
      <3>4. QED
        BY <3>2, <3>3, <2>1 DEF RingShape
    <2>4. /\ slot' = [slot EXCEPT ![emitSlot] = "Emitting"]
          /\ drain' = "deliver" /\ cursor' = 1
          /\ UNCHANGED <<failure, dispatch>>
          /\ UNCHANGED <<frame, reserveSlot, emitSlot, nextReservation, nextEmission,
                 outstanding, reservations>>
      BY <1>2, <2>3 DEF DrainTakes, NextDrainStep
    <2>5. TypeOK'
      BY <2>1, <2>4 DEF NextDrainStep, IInv, TypeOK, SlotStates, Sinks, sinkVars
    <2>6. RingShape'
      <3>1. ASSUME NEW i \in Slots
            PROVE  IF Offset(i) < outstanding
                   THEN slot'[i] \in {"Writing", "Ready", "Emitting"}
                        /\ frame[i] = nextEmission + Offset(i)
                   ELSE slot'[i] = "Free"
        BY <2>1, <2>4 DEF RingShape, IInv, TypeOK
      <3>2. QED
        BY <2>1, <2>4, <3>1 DEF RingShape, Offset
    <2>7. Ownership'
      BY <2>1, <2>3, <2>4 DEF IInv, TypeOK, Ownership, Owns, OwnsEmitting, Reservation
    <2>8. QED
      BY <2>4, <2>5, <2>6, <2>7 DEF IInv, RingIsSound
  <1>3. QED
    BY <1>1, <1>2 DEF NextDrainStep

(* A sink call moves neither the ring nor its owners. *)
LEMMA DeliverIInv ==
  ASSUME IInv, DeliverFrame
  PROVE  IInv'
  <1> USE SinkAssumption DEF SinkAssumption
  <1>1. drain = "deliver" /\ cursor \in Sinks /\ frame[emitSlot] \in FrameIds
    BY DEF DeliverFrame, IInv, TypeOK
  <1>2. /\ drain' \in {"deliver", "settle"} /\ cursor' \in Sinks
        /\ delivery' \in DeliveryErrors \cup {"None"}
    BY <1>1 DEF DeliverFrame, SinkConsumes, SinkDropsPreview, SinkBreaksDelivery, NextDelivery,
      IInv, TypeOK, Sinks, DeliveryErrors
  <1>3. accepted' \in [Sinks -> Seq(FrameIds)]
    <2>1. Append(accepted[cursor], frame[emitSlot]) \in Seq(FrameIds)
      BY <1>1 DEF IInv, TypeOK
    <2>2. QED
      BY <1>1, <2>1 DEF DeliverFrame, SinkConsumes, SinkDropsPreview, SinkBreaksDelivery,
        IInv, TypeOK
  <1>4. TypeOK'
    BY <1>2, <1>3 DEF DeliverFrame, IInv, TypeOK, ringVars, dispatchVars
  <1>5. QED
    BY <1>1, <1>4, RingUntouched DEF DeliverFrame, IInv, RingIsSound

(* Settling frees the emitted slot and advances both cursors, or fails the ring. *)
LEMMA SettleIInv ==
  ASSUME IInv, SettleFrame
  PROVE  IInv'
  <1> USE CapacityAssumption, SequenceAssumption DEF CapacityAssumption, SequenceAssumption
  <1>1. /\ drain = "settle" /\ OwnsEmitting /\ emitSlot \in Slots
        /\ nextEmission < nextReservation /\ frame[emitSlot] = nextEmission
        /\ slot[emitSlot] = "Emitting"
    BY DEF SettleFrame, IInv, TypeOK, Ownership, OwnsEmitting
  <1>2. /\ slot' = [slot EXCEPT ![emitSlot] = "Free"]
        /\ UNCHANGED <<frame, reserveSlot, nextReservation, reservations>>
    BY <1>1 DEF SettleFrame, FreeEmitted
  <1>3. outstanding' \in 0 .. Capacity
    BY <1>1 DEF SettleFrame, FreeEmitted, ReleaseSlot, IInv, TypeOK
  <1>4. /\ failure' \in Failures \cup {"None"} /\ failure' # "InternalInvariant"
        /\ failure' = "None" => failure = "None" /\ delivery = "None"
    BY <1>1 DEF SettleFrame, SettleFailure, Fail, IInv, TypeOK, RingIsSound, Failures,
      DeliveryErrors
  <1>5. emitSlot' \in Slots /\ nextEmission' \in FrameIds /\ nextEmission' <= nextReservation
    BY <1>1 DEF SettleFrame, AdvanceEmission, Advance, IInv, TypeOK, Slots, FrameIds
  <1>6. drain' \in {"finalize", "check"} /\ delivery' = "None"
    BY DEF SettleFrame
  <1>7. TypeOK'
    BY <1>2, <1>3, <1>4, <1>5, <1>6 DEF SettleFrame, WakeDispatchers, IInv, TypeOK, SlotStates,
      sinkVars
  <1>8. Ownership'
    BY <1>1, <1>2, <1>5, <1>6, GuardFacts DEF IInv, TypeOK, Ownership, Owns
  <1>9. ASSUME failure' = "None" PROVE RingShape'
    <2>1. RingShape /\ delivery = "None"
      BY <1>4, <1>9 DEF IInv
    <2>2. emitSlot' = Advance(emitSlot) /\ nextEmission' = nextEmission + 1
      BY <1>1, <2>1 DEF SettleFrame, AdvanceEmission
    <2>3. Offset(emitSlot) = 0
      BY <1>1 DEF Offset, Slots
    <2>4. 0 < outstanding /\ outstanding' = outstanding - 1
      BY <1>1, <2>1 DEF RingShape, SettleFrame, FreeEmitted, ReleaseSlot, IInv, TypeOK, FrameIds
    <2>5. outstanding' = nextReservation' - nextEmission'
      BY <1>2, <2>1, <2>2, <2>4 DEF RingShape, IInv, TypeOK, FrameIds
    <2>6. \/ reserveSlot' = emitSlot' + outstanding'
          \/ reserveSlot' = emitSlot' + outstanding' - Capacity
      <3>1. /\ emitSlot \in Int /\ outstanding \in Int /\ reserveSlot \in Int
            /\ 0 <= reserveSlot /\ reserveSlot < Capacity /\ outstanding <= Capacity
        BY DEF IInv, TypeOK, Slots
      <3>2. CASE emitSlot + 1 = Capacity
        BY <3>1, <3>2, <1>2, <2>1, <2>2, <2>4 DEF RingShape, Advance
      <3>3. CASE emitSlot + 1 # Capacity
        BY <3>1, <3>3, <1>2, <2>1, <2>2, <2>4 DEF RingShape, Advance
      <3>4. QED
        BY <3>2, <3>3
    <2>7. ASSUME NEW i \in Slots
          PROVE  IF Offset(i)' < outstanding'
                 THEN /\ slot'[i] \in {"Writing", "Ready", "Emitting"}
                      /\ frame'[i] = nextEmission' + Offset(i)'
                 ELSE slot'[i] = "Free"
      <3>1. /\ i \in Int /\ 0 <= i /\ i < Capacity
            /\ emitSlot \in Int /\ 0 <= emitSlot /\ emitSlot < Capacity
            /\ outstanding \in Int /\ outstanding <= Capacity
            /\ nextEmission \in Int
        BY <1>1 DEF IInv, TypeOK, Slots, FrameIds
      <3>2. CASE i = emitSlot
        <4>1. Offset(i)' = Capacity - 1
          BY <3>1, <3>2, <2>2 DEF Offset, Advance
        <4>2. slot'[i] = "Free"
          BY <3>2, <1>1, <1>2 DEF IInv, TypeOK
        <4>3. ~(Offset(i)' < outstanding')
          BY <4>1, <3>1, <2>4 DEF Offset
        <4>4. QED
          BY <4>2, <4>3
      <3>3. CASE i # emitSlot
        <4>1. Offset(i)' = Offset(i) - 1
          BY <3>1, <3>3, <2>2 DEF Offset, Advance
        <4>2. slot'[i] = slot[i] /\ frame'[i] = frame[i]
          BY <3>3, <1>2 DEF IInv, TypeOK
        <4>3. Offset(i) \in Int
          BY <3>1 DEF Offset
        <4>4. CASE Offset(i) < outstanding
          <5>1. /\ slot[i] \in {"Writing", "Ready", "Emitting"}
                /\ frame[i] = nextEmission + Offset(i)
            BY <4>4, <2>1 DEF RingShape
          <5>2. nextEmission' + Offset(i)' = nextEmission + Offset(i)
            BY <4>1, <4>3, <3>1, <2>2 DEF Offset
          <5>3. frame'[i] = nextEmission' + Offset(i)'
            BY <5>1, <5>2, <4>2
          <5>4. Offset(i)' < outstanding'
            BY <4>1, <4>3, <4>4, <3>1, <2>4 DEF Offset
          <5>5. QED
            BY <5>1, <5>3, <5>4, <4>2
        <4>5. CASE ~(Offset(i) < outstanding)
          <5>1. slot[i] = "Free"
            BY <4>5, <2>1 DEF RingShape
          <5>2. ~(Offset(i)' < outstanding')
            BY <4>1, <4>3, <4>5, <3>1, <2>4 DEF Offset
          <5>3. QED
            BY <5>1, <5>2, <4>2
        <4>6. QED
          BY <4>4, <4>5
      <3>4. QED
        BY <3>2, <3>3
    <2>8. QED
      BY <2>5, <2>6, <2>7 DEF RingShape
  <1>10. QED
    BY <1>4, <1>7, <1>8, <1>9 DEF IInv, RingIsSound

(* The steps of the finalization leave the ring and the guards alone. *)
LEMMA FinalizeIInv ==
  ASSUME IInv, BeginFinalize \/ PrepareFinish \/ DecideFinalization \/ CommitFinish \/ AbortSink
  PROVE  IInv'
  <1> USE SinkAssumption DEF SinkAssumption
  <1>1. CASE BeginFinalize
    BY <1>1, RingUntouched DEF BeginFinalize, IInv, TypeOK, RingIsSound, Sinks, dispatchVars,
      sinkVars, ringVars
  <1>2. CASE PrepareFinish
    <2>1. /\ UNCHANGED ringVars /\ UNCHANGED reservations
          /\ failure' \in Failures \cup {"None"} /\ failure' # "InternalInvariant"
          /\ failure' = "None" => failure = "None"
          /\ drain' \in {"prepare", "decide", "abort"} /\ cursor' \in Sinks
      BY <1>2 DEF PrepareFinish, PrepareOk, PrepareFails, Fail, IInv, TypeOK, RingIsSound,
        Failures, DeliveryErrors, Sinks
    <2>2. TypeOK'
      BY <1>2, <2>1 DEF PrepareFinish, PrepareOk, PrepareFails, WakeDispatchers, IInv, TypeOK,
        ringVars
    <2>3. QED
      BY <2>1, <2>2, RingUntouched
  <1>3. CASE DecideFinalization
    BY <1>3, RingUntouched DEF DecideFinalization, IInv, TypeOK, RingIsSound, dispatchVars,
      sinkVars, ringVars
  <1>4. CASE CommitFinish
    <2>1. /\ UNCHANGED ringVars /\ UNCHANGED reservations
          /\ failure' \in Failures \cup {"None"} /\ failure' # "InternalInvariant"
          /\ failure' = "None" => failure = "None"
          /\ drain' \in {"commit", "abort", "done"} /\ cursor' \in Sinks
      BY <1>4 DEF CommitFinish, CommitOk, CommitFails, Fail, IInv, TypeOK, RingIsSound,
        Failures, DeliveryErrors, Sinks
    <2>2. TypeOK'
      BY <1>4, <2>1 DEF CommitFinish, CommitOk, CommitFails, WakeDispatchers, IInv, TypeOK,
        ringVars
    <2>3. QED
      BY <2>1, <2>2, RingUntouched
  <1>5. CASE AbortSink
    <2>1. drain' \in {"abort", "done"} /\ cursor' \in Sinks
      BY <1>5 DEF AbortSink, IInv, TypeOK, Sinks
    <2>2. TypeOK'
      BY <1>5, <2>1 DEF AbortSink, IInv, TypeOK, dispatchVars, ringVars
    <2>3. QED
      BY <1>5, <2>1, <2>2, RingUntouched DEF AbortSink, IInv, RingIsSound
  <1>6. QED
    BY <1>1, <1>2, <1>3, <1>4, <1>5

(* Cancelling only records the failure and wakes the waiters. *)
LEMMA CancelIInv ==
  ASSUME IInv, SharedCancel, controller' \in {"running", "joining", "finished", "dropped"}
  PROVE  IInv'
  <1>1. /\ UNCHANGED ringVars /\ UNCHANGED reservations
        /\ failure' \in Failures \cup {"None"} /\ failure' # "InternalInvariant"
        /\ failure' = "None" => failure = "None"
        /\ drain' \in {drain, "check"}
    BY DEF SharedCancel, CancelOpen, CancelSettled, Fail, NotifyAll, WakeDrain, IInv, TypeOK,
      RingIsSound, Failures
  <1>2. /\ finalization' \in {"Open", "Cancelled", "Committing", "Complete"}
        /\ outcomes' \in SUBSET Outcomes
        /\ dispatch' \in [Dispatchers -> {"idle", "blocked", "woken"}]
    BY DEF SharedCancel, CancelOpen, CancelSettled, NotifyAll, WakeDispatchers, IInv, TypeOK,
      Outcomes
  <1>3. TypeOK'
    BY <1>1, <1>2 DEF SharedCancel, IInv, TypeOK, ringVars, sinkVars
  <1>4. QED
    BY <1>1, <1>3, RingUntouched

(* Closing, joining and dropping the emitter leave the ring's shape alone. *)
LEMMA ControllerIInv ==
  ASSUME IInv, CloseRing \/ JoinDrain \/ SpuriousWakeup
  PROVE  IInv'
  <1>1. /\ UNCHANGED ringVars /\ UNCHANGED reservations /\ UNCHANGED failure
        /\ drain' \in {drain, "check"}
    BY DEF CloseRing, JoinDrain, SpuriousWakeup, NotifyAll, WakeDrain, drainVars
  <1>2. dispatch' \in [Dispatchers -> {"idle", "blocked", "woken"}]
    BY DEF CloseRing, JoinDrain, SpuriousWakeup, NotifyAll, WakeDispatchers, dispatchVars,
      IInv, TypeOK
  <1>3. TypeOK'
    BY <1>1, <1>2 DEF CloseRing, JoinDrain, SpuriousWakeup, IInv, TypeOK, ringVars, sinkVars,
      drainVars, dispatchVars
  <1>4. QED
    BY <1>1, <1>3, RingUntouched DEF IInv, RingIsSound

(* Every step keeps the inductive invariant, one case per action. *)
LEMMA NextIInv == IInv /\ [Next]_vars => IInv'
  <1> SUFFICES ASSUME IInv, [Next]_vars PROVE IInv'
    OBVIOUS
  <1>1. ASSUME NEW p \in Dispatchers, NEW s \in FrameIds, Reserve(p, s) PROVE IInv'
    BY <1>1, ReserveIInv DEF Reserve
  <1>2. ASSUME NEW p \in Dispatchers, ResumeReserve(p) PROVE IInv'
    BY <1>2, ReserveIInv DEF ResumeReserve, IInv, TypeOK
  <1>3. ASSUME NEW r \in reservations, Publish(r) PROVE IInv'
    BY <1>3, PublishIInv
  <1>4. ASSUME NEW r \in reservations, DropReservation(r) PROVE IInv'
    BY <1>4, DropIInv
  <1>5. CASE Drain
    BY <1>5, NextDrainStepIInv, DeliverIInv, SettleIInv, FinalizeIInv DEF Drain
  <1>6. CASE Cancel
    BY <1>6, CancelIInv DEF Cancel, IInv, TypeOK
  <1>7. CASE DropEmitter
    BY <1>7, CancelIInv DEF DropEmitter
  <1>8. CASE CloseRing \/ JoinDrain \/ SpuriousWakeup
    BY <1>8, ControllerIInv
  <1>9. CASE UNCHANGED vars
    BY <1>9, StutterIInv
  <1>10. QED
    BY <1>1, <1>2, <1>3, <1>4, <1>5, <1>6, <1>7, <1>8, <1>9 DEF Next

(* The inductive invariant holds in every behaviour. *)
THEOREM InductiveInvariant == Spec => []IInv
  BY InitIInv, NextIInv, PTL DEF Spec

(* Every counter of emitter.rs stays in range: in particular `outstanding`  *)
(* never exceeds the capacity and no sequence passes u64::MAX.              *)
THEOREM TypeCorrect == Spec => []TypeOK
  BY InductiveInvariant, PTL DEF IInv

(* None of the four InternalInvariant errors of emitter.rs can be raised,   *)
(* for any ring capacity, number of dispatchers and sinks.                  *)
THEOREM RingSoundness == Spec => []RingIsSound
  BY InductiveInvariant, PTL DEF IInv

(* No dispatcher can write a buffer that another guard or a sink holds. *)
THEOREM WriterExclusion == Spec => []WritersAreExclusive
  <1>1. IInv => WritersAreExclusive
    BY GuardFacts DEF IInv, Ownership, WritersAreExclusive, OwnsEmitting
  <1>2. QED
    BY <1>1, InductiveInvariant, PTL

-----------------------------------------------------------------------------
(* Wake-ups. *)

(* A dispatcher that is still blocked after slot_available was notified *)
(* does not exist, and neither does a parked drain after ready was.     *)
LEMMA NotifiedWaiters ==
  ASSUME TypeOK
  PROVE  /\ WakeDispatchers => \A p \in Dispatchers : dispatch'[p] # "blocked"
         /\ WakeDrain => drain' # "parked"
  BY DEF TypeOK, WakeDispatchers, WakeDrain

(* A dispatcher parks on slot_available only while the ring is full and alive. *)
LEMMA ReserveWakeup ==
  ASSUME IInv, IInv', NoLostWakeup, NEW p \in Dispatchers, NEW s \in FrameIds,
         ReserveIteration(p, s)
  PROVE  NoLostWakeup'
  <1>1. CASE ReserveRefused(p, s)
    BY <1>1 DEF ReserveRefused, NoLostWakeup, Refused, HasRoom, IInv, TypeOK, ringVars, drainVars
  <1>2. CASE ReserveBlocks(p, s)
    BY <1>2 DEF ReserveBlocks, NoLostWakeup, Refused, HasRoom, IInv, TypeOK, ringVars, drainVars
  <1>3. CASE ReserveProceeds(p, s)
    <2>1. GrantSlot(p, s)
      BY <1>3 DEF ReserveProceeds, ReserveBreach, Fail, Refused, IInv, RingIsSound
    <2>2. ~Refused(s) /\ HasRoom /\ \A q \in Dispatchers : dispatch[q] # "blocked"
      BY <1>3 DEF ReserveProceeds, NoLostWakeup
    <2>3. \A q \in Dispatchers : dispatch'[q] # "blocked"
      BY <2>1, <2>2 DEF GrantSlot, IInv, TypeOK
    <2>4. drain' = "parked" =>
            failure' = "None" /\ slot'[emitSlot'] # "Ready" /\ ~(closed' /\ outstanding' = 0)
      BY <2>1, <2>2 DEF GrantSlot, NoLostWakeup, Refused, IInv, TypeOK, drainVars
    <2>5. QED
      BY <2>3, <2>4 DEF NoLostWakeup
  <1>4. QED
    BY <1>1, <1>2, <1>3 DEF ReserveIteration

(* Publishing or dropping a reservation notifies whom it gave something to do. *)
LEMMA ResolveWakeup ==
  ASSUME IInv, IInv', NoLostWakeup, NEW r \in reservations, Publish(r) \/ DropReservation(r)
  PROVE  NoLostWakeup'
  <1>1. Owns(r)
    BY GuardFacts
  <1>2. CASE NotifyAll
    BY <1>2, NotifiedWaiters DEF NotifyAll, NoLostWakeup, IInv
  <1>3. CASE ~NotifyAll
    <2>1. Publish(r) /\ PublishReady(r)
      BY <1>1, <1>3 DEF Publish, DropReservation, AbandonSlot, PublishTooLate
    <2>2. drain' # "parked"
      BY <2>1, NotifiedWaiters DEF PublishReady, IInv
    <2>3. QED
      BY <2>1, <2>2 DEF Publish, PublishReady, NoLostWakeup, Refused, HasRoom
  <1>4. QED
    BY <1>2, <1>3

(* The drain thread parks only without a ready head, and notifies what it frees. *)
LEMMA DrainWakeup ==
  ASSUME IInv, IInv', NoLostWakeup, Drain
  PROVE  NoLostWakeup'
  <1>1. CASE NextDrainStep
    <2>1. CASE DrainFailed \/ DrainComplete \/ DrainParks
      BY <1>1, <2>1 DEF NextDrainStep, DrainFailed, DrainComplete, DrainParks, NoLostWakeup,
        Refused, HasRoom
    <2>2. CASE DrainTakes
      <3>1. drain' = "deliver" /\ UNCHANGED <<failure, dispatch>>
        BY <2>2 DEF DrainTakes, Fail, IInv, RingIsSound
      <3>2. QED
        BY <1>1, <3>1 DEF NextDrainStep, NoLostWakeup, Refused, HasRoom
    <2>3. QED
      BY <1>1, <2>1, <2>2 DEF NextDrainStep
  <1>2. CASE DeliverFrame
    <2>1. drain' # "parked"
      BY <1>2 DEF DeliverFrame, SinkConsumes, SinkDropsPreview, SinkBreaksDelivery, NextDelivery
    <2>2. QED
      BY <1>2, <2>1 DEF DeliverFrame, NoLostWakeup, Refused, HasRoom, dispatchVars, ringVars
  <1>3. CASE SettleFrame
    BY <1>3, NotifiedWaiters DEF SettleFrame, NoLostWakeup, IInv
  <1>4. CASE BeginFinalize \/ DecideFinalization \/ AbortSink
    BY <1>4 DEF BeginFinalize, DecideFinalization, AbortSink, NoLostWakeup, Refused, HasRoom,
      dispatchVars, ringVars
  <1>5. CASE PrepareFinish
    <2>1. drain' # "parked"
      BY <1>5 DEF PrepareFinish, PrepareOk, PrepareFails
    <2>2. CASE PrepareOk
      BY <1>5, <2>1, <2>2 DEF PrepareFinish, PrepareOk, NoLostWakeup, Refused, HasRoom, ringVars
    <2>3. CASE PrepareFails
      BY <2>1, <2>3, NotifiedWaiters DEF PrepareFails, NoLostWakeup, IInv
    <2>4. QED
      BY <1>5, <2>2, <2>3 DEF PrepareFinish
  <1>6. CASE CommitFinish
    <2>1. drain' # "parked"
      BY <1>6 DEF CommitFinish, CommitOk, CommitFails
    <2>2. CASE CommitOk
      BY <1>6, <2>1, <2>2 DEF CommitFinish, CommitOk, NoLostWakeup, Refused, HasRoom, ringVars
    <2>3. CASE CommitFails
      BY <2>1, <2>3, NotifiedWaiters DEF CommitFails, NoLostWakeup, IInv
    <2>4. QED
      BY <1>6, <2>2, <2>3 DEF CommitFinish
  <1>7. QED
    BY <1>1, <1>2, <1>3, <1>4, <1>5, <1>6 DEF Drain

(* Cancelling, closing and dropping wake every parked thread. *)
LEMMA CallerWakeup ==
  ASSUME IInv, IInv', NoLostWakeup, SharedCancel \/ CloseRing \/ JoinDrain \/ SpuriousWakeup
  PROVE  NoLostWakeup'
  <1>1. CASE SharedCancel
    <2>1. CASE NotifyAll
      BY <2>1, NotifiedWaiters DEF NotifyAll, NoLostWakeup, IInv
    <2>2. CASE ~NotifyAll
      BY <1>1, <2>2 DEF SharedCancel, CancelOpen, CancelSettled, NoLostWakeup, Refused, HasRoom,
        ringVars
    <2>3. QED
      BY <2>1, <2>2
  <1>2. CASE CloseRing
    BY <1>2, NotifiedWaiters DEF CloseRing, NotifyAll, NoLostWakeup, IInv
  <1>3. CASE JoinDrain
    BY <1>3 DEF JoinDrain, NoLostWakeup, Refused, HasRoom, dispatchVars, drainVars, ringVars
  <1>4. CASE SpuriousWakeup
    BY <1>4 DEF SpuriousWakeup, NoLostWakeup, Refused, HasRoom, ringVars, IInv, TypeOK
  <1>5. QED
    BY <1>1, <1>2, <1>3, <1>4

(* No condition-variable notification of emitter.rs is missing: a parked    *)
(* drain has no frame to take and a parked dispatcher has no slot to take   *)
(* and no error to return.                                                  *)
THEOREM WakeupSafety == Spec => []NoLostWakeup
  <1>1. Init => NoLostWakeup
    BY DEF Init, NoLostWakeup
  <1>2. IInv /\ IInv' /\ NoLostWakeup /\ [Next]_vars => NoLostWakeup'
    <2> SUFFICES ASSUME IInv, IInv', NoLostWakeup, [Next]_vars PROVE NoLostWakeup'
      OBVIOUS
    <2>1. ASSUME NEW p \in Dispatchers, NEW s \in FrameIds, Reserve(p, s) PROVE NoLostWakeup'
      BY <2>1, ReserveWakeup DEF Reserve
    <2>2. ASSUME NEW p \in Dispatchers, ResumeReserve(p) PROVE NoLostWakeup'
      BY <2>2, ReserveWakeup DEF ResumeReserve, IInv, TypeOK
    <2>3. ASSUME NEW r \in reservations, Publish(r) \/ DropReservation(r) PROVE NoLostWakeup'
      BY <2>3, ResolveWakeup
    <2>4. CASE Drain
      BY <2>4, DrainWakeup
    <2>5. CASE Cancel \/ DropEmitter \/ CloseRing \/ JoinDrain \/ SpuriousWakeup
      BY <2>5, CallerWakeup DEF Cancel, DropEmitter
    <2>6. CASE UNCHANGED vars
      BY <2>6 DEF vars, ringVars, drainVars, dispatchVars, NoLostWakeup, Refused, HasRoom
    <2>7. QED
      BY <2>1, <2>2, <2>3, <2>4, <2>5, <2>6 DEF Next
  <1>3. QED
    BY <1>1, <1>2, InductiveInvariant, PTL DEF Spec

-----------------------------------------------------------------------------
(* The commit decision against cancellation. *)

(* The finalization mutex's state decides; `failure` and the sinks follow. *)
DecisionInv ==
  /\ "Won" \in outcomes => failure = "Cancelled"
  /\ failure = "Cancelled" => finalization = "Cancelled"
  /\ "TooLate" \in outcomes => finalization = "Complete"
  /\ Committed # {} => finalization \in {"Committing", "Complete"}
  /\ finalization = "Committing" <=> drain = "commit"
  /\ finalization = "Complete" => drain \in {"abort", "done"}

(* Steps that neither decide, cancel nor touch a sink. *)
LEMMA DecisionUntouched ==
  ASSUME DecisionInv, UNCHANGED <<finalization, outcomes, sink>>,
         failure' # failure => (failure = "None" /\ failure' # "Cancelled"),
         drain' # drain => (drain' # "commit" /\ drain \notin {"commit", "abort", "done"})
  PROVE  DecisionInv'
  BY DEF DecisionInv, Committed

(* Reserving touches neither the finalization nor its outcomes. *)
LEMMA ReserveDecision ==
  ASSUME DecisionInv, NEW p \in Dispatchers, NEW s \in FrameIds, ReserveIteration(p, s)
  PROVE  DecisionInv'
  <1>1. UNCHANGED <<finalization, outcomes, sink>>
    BY DEF ReserveIteration, ReserveRefused, ReserveBlocks, ReserveProceeds, GrantSlot,
      ReserveBreach, sinkVars
  <1>2. failure' # failure => (failure = "None" /\ failure' # "Cancelled")
    BY DEF ReserveIteration, ReserveRefused, ReserveBlocks, ReserveProceeds, GrantSlot,
      ReserveBreach, Fail
  <1>3. drain' # drain => (drain' # "commit" /\ drain \notin {"commit", "abort", "done"})
    BY DEF ReserveIteration, ReserveRefused, ReserveBlocks, ReserveProceeds, GrantSlot,
      ReserveBreach, WakeDrain, drainVars
  <1>4. QED
    BY <1>1, <1>2, <1>3, DecisionUntouched

(* Publishing or dropping can fail the ring but not decide its finalization. *)
LEMMA ResolveDecision ==
  ASSUME DecisionInv, NEW r \in reservations, Publish(r) \/ DropReservation(r)
  PROVE  DecisionInv'
  <1>1. UNCHANGED <<finalization, outcomes, sink>>
    BY DEF Publish, DropReservation, sinkVars
  <1>2. failure' # failure => (failure = "None" /\ failure' # "Cancelled")
    BY DEF Publish, DropReservation, GuardBreach, PublishTooLate, PublishReady, AbandonSlot, Fail
  <1>3. drain' # drain => (drain' # "commit" /\ drain \notin {"commit", "abort", "done"})
    BY DEF Publish, DropReservation, GuardBreach, PublishTooLate, PublishReady, AbandonSlot,
      NotifyAll, WakeDrain
  <1>4. QED
    BY <1>1, <1>2, <1>3, DecisionUntouched

(* The drain thread decides once, and against any cancellation it can see. *)
LEMMA DrainDecision ==
  ASSUME IInv, DecisionInv, Drain
  PROVE  DecisionInv'
  <1>1. CASE NextDrainStep
    <2>1. UNCHANGED <<finalization, outcomes, sink>> /\ drain' # "commit" /\ drain = "check"
      BY <1>1 DEF NextDrainStep, DrainFailed, DrainTakes, DrainComplete, DrainParks, sinkVars
    <2>2. failure' # failure => (failure = "None" /\ failure' # "Cancelled")
      BY <1>1 DEF NextDrainStep, DrainFailed, DrainTakes, DrainComplete, DrainParks, Fail
    <2>3. QED
      BY <2>1, <2>2, DecisionUntouched
  <1>2. CASE DeliverFrame
    <2>1. drain = "deliver" /\ drain' \in {"deliver", "settle"}
      BY <1>2 DEF DeliverFrame, SinkConsumes, SinkDropsPreview, SinkBreaksDelivery, NextDelivery
    <2>2. QED
      BY <1>2, <2>1, DecisionUntouched DEF DeliverFrame
  <1>3. CASE SettleFrame
    <2>1. failure' # failure => (failure = "None" /\ failure' # "Cancelled")
      BY <1>3 DEF SettleFrame, SettleFailure, Fail, IInv, TypeOK, DeliveryErrors
    <2>2. QED
      BY <1>3, <2>1, DecisionUntouched DEF SettleFrame, sinkVars
  <1>4. CASE BeginFinalize
    BY <1>4, DecisionUntouched DEF BeginFinalize, sinkVars
  <1>5. CASE PrepareFinish
    <2>1. /\ drain = "prepare" /\ drain' # "commit" /\ UNCHANGED <<finalization, outcomes>>
          /\ failure' # failure => (failure = "None" /\ failure' # "Cancelled")
      BY <1>5 DEF PrepareFinish, PrepareOk, PrepareFails, Fail
    <2>2. Committed' \subseteq Committed
      BY <1>5 DEF PrepareFinish, PrepareOk, PrepareFails, Committed, IInv, TypeOK
    <2>3. QED
      BY <2>1, <2>2 DEF DecisionInv
  <1>6. CASE DecideFinalization
    <2>1. Committed' = Committed /\ UNCHANGED <<failure, outcomes>> /\ drain = "decide"
      BY <1>6 DEF DecideFinalization, Committed, sinkVars
    <2>2. finalization \in {"Open", "Cancelled"}
      BY <2>1 DEF DecisionInv, IInv, TypeOK
    <2>3. QED
      BY <1>6, <2>1, <2>2 DEF DecideFinalization, MayCommit, DecisionInv
  <1>7. CASE CommitFinish
    <2>1. drain = "commit" /\ finalization = "Committing" /\ failure # "Cancelled"
      BY <1>7 DEF CommitFinish, DecisionInv
    <2>2. /\ failure' # "Cancelled" /\ UNCHANGED outcomes
          /\ \/ finalization' = "Committing" /\ drain' = "commit"
             \/ finalization' = "Complete" /\ drain' \in {"abort", "done"}
      BY <1>7, <2>1 DEF CommitFinish, CommitOk, CommitFails, Fail
    <2>3. QED
      BY <2>1, <2>2 DEF DecisionInv
  <1>8. CASE AbortSink
    <2>1. /\ drain = "abort" /\ drain' \in {"abort", "done"}
          /\ UNCHANGED <<finalization, outcomes, failure>>
      BY <1>8 DEF AbortSink
    <2>2. Committed' \subseteq Committed
      BY <1>8 DEF AbortSink, Committed, IInv, TypeOK
    <2>3. QED
      BY <2>1, <2>2 DEF DecisionInv
  <1>9. QED
    BY <1>1, <1>2, <1>3, <1>4, <1>5, <1>6, <1>7, <1>8 DEF Drain

(* A cancellation wins only before the decision, and its answer stays true. *)
LEMMA CallerDecision ==
  ASSUME IInv, DecisionInv, SharedCancel \/ CloseRing \/ JoinDrain \/ SpuriousWakeup
  PROVE  DecisionInv'
  <1>1. CASE SharedCancel
    <2>1. /\ Committed' = Committed /\ drain # "commit"
          /\ drain' # drain => (drain = "parked" /\ drain' = "check")
      BY <1>1 DEF SharedCancel, FinalizationFree, CancelOpen, CancelSettled, NotifyAll, WakeDrain,
        Committed, sinkVars
    <2>2. CASE CancelOpen
      BY <2>1, <2>2 DEF CancelOpen, Fail, DecisionInv
    <2>3. CASE CancelSettled
      <3>1. finalization \in {"Cancelled", "Complete"}
        BY <2>1, <2>3 DEF CancelSettled, DecisionInv, IInv, TypeOK
      <3>2. QED
        BY <2>1, <2>3, <3>1 DEF CancelSettled, DecisionInv
    <2>4. QED
      BY <1>1, <2>2, <2>3 DEF SharedCancel
  <1>2. CASE CloseRing \/ JoinDrain \/ SpuriousWakeup
    <2>1. /\ UNCHANGED <<finalization, outcomes, sink, failure>>
          /\ drain' # drain => (drain = "parked" /\ drain' = "check")
      BY <1>2 DEF CloseRing, JoinDrain, SpuriousWakeup, NotifyAll, WakeDrain, sinkVars, drainVars
    <2>2. QED
      BY <2>1, DecisionUntouched
  <1>3. QED
    BY <1>1, <1>2

(* `cancel` tells the truth: whoever is told Won can rely on no sink ever   *)
(* committing, and whoever is told TooLate on the stream not being          *)
(* cancelled, however the call races the drain's finalization.              *)
THEOREM CancelTruth == Spec => []CancelTellsTheTruth
  <1>1. Init => DecisionInv
    BY DEF Init, DecisionInv, Committed
  <1>2. IInv /\ DecisionInv /\ [Next]_vars => DecisionInv'
    <2> SUFFICES ASSUME IInv, DecisionInv, [Next]_vars PROVE DecisionInv'
      OBVIOUS
    <2>1. ASSUME NEW p \in Dispatchers, NEW s \in FrameIds, Reserve(p, s) PROVE DecisionInv'
      BY <2>1, ReserveDecision DEF Reserve
    <2>2. ASSUME NEW p \in Dispatchers, ResumeReserve(p) PROVE DecisionInv'
      BY <2>2, ReserveDecision DEF ResumeReserve, IInv, TypeOK
    <2>3. ASSUME NEW r \in reservations, Publish(r) \/ DropReservation(r) PROVE DecisionInv'
      BY <2>3, ResolveDecision
    <2>4. CASE Drain
      BY <2>4, DrainDecision
    <2>5. CASE Cancel \/ DropEmitter \/ CloseRing \/ JoinDrain \/ SpuriousWakeup
      BY <2>5, CallerDecision DEF Cancel, DropEmitter
    <2>6. CASE UNCHANGED vars
      BY <2>6, DecisionUntouched DEF vars, sinkVars, drainVars
    <2>7. QED
      BY <2>1, <2>2, <2>3, <2>4, <2>5, <2>6 DEF Next
  <1>3. DecisionInv => CancelTellsTheTruth
    BY DEF DecisionInv, CancelTellsTheTruth
  <1>4. QED
    BY <1>1, <1>2, <1>3, InductiveInvariant, PTL DEF Spec

-----------------------------------------------------------------------------
(* Sinks see the frames in order. *)

(* The frame in delivery has been handed to sink k already. *)
Fed(k) ==
  /\ drain \in {"deliver", "settle"}
  /\ k < cursor \/ (drain = "settle" /\ delivery = "None")

FedCount(k) == IF Fed(k) THEN 1 ELSE 0

(* What a sink has consumed, exactly, while the drain still delivers. *)
Delivered(k) ==
  /\ Len(accepted[k]) <= emitted + FedCount(k)
  /\ k \in ReliableSinks => Len(accepted[k]) = emitted + FedCount(k)
  /\ \A n \in 1 .. Len(accepted[k]) : accepted[k][n] < nextEmission + FedCount(k)

Delivering == drain \in {"check", "parked", "deliver", "settle"}

(* SinksSeeThePrefix allows a sink to be one frame ahead; which sink is, and   *)
(* when, follows the drain thread's place.  Once the drain has left for the    *)
(* finalization nothing is consumed or emitted any more.                       *)
PrefixInv ==
  /\ drain # "settle" => delivery = "None"
  /\ Delivering => \A k \in Sinks : Delivered(k)
  /\ SinksSeeThePrefix

(* The steps of every thread but the drain's. *)
OthersStep ==
  \/ \E p \in Dispatchers, s \in FrameIds : ReserveIteration(p, s)
  \/ \E r \in reservations : Publish(r) \/ DropReservation(r)
  \/ SharedCancel \/ CloseRing \/ JoinDrain \/ SpuriousWakeup

(* Every step is the drain's or another thread's. *)
LEMMA StepsOfThreads ==
  ASSUME IInv, Next
  PROVE  Drain \/ OthersStep
  <1>1. ASSUME NEW p \in Dispatchers, ResumeReserve(p) PROVE OthersStep
    BY <1>1 DEF ResumeReserve, OthersStep, IInv, TypeOK
  <1>2. QED
    BY <1>1 DEF Next, OthersStep, Reserve, Cancel, DropEmitter

(* Other threads do not move the emission and the sinks, and of the drain    *)
(* thread they can only end the wait.                                        *)
LEMMA OthersLeaveTheDrain ==
  ASSUME OthersStep
  PROVE  /\ UNCHANGED <<accepted, sink, cursor, delivery, nextEmission>>
         /\ drain' = drain \/ (drain = "parked" /\ drain' = "check")
  <1>1. ASSUME NEW p \in Dispatchers, NEW s \in FrameIds, ReserveIteration(p, s)
        PROVE  /\ UNCHANGED <<accepted, sink, cursor, delivery, nextEmission>>
               /\ drain' = drain \/ (drain = "parked" /\ drain' = "check")
    BY <1>1 DEF ReserveIteration, ReserveRefused, ReserveBlocks, ReserveProceeds, GrantSlot,
       ReserveBreach, WakeDrain, ringVars, drainVars, sinkVars
  <1>2. ASSUME NEW r \in reservations, Publish(r) \/ DropReservation(r)
        PROVE  /\ UNCHANGED <<accepted, sink, cursor, delivery, nextEmission>>
               /\ drain' = drain \/ (drain = "parked" /\ drain' = "check")
    BY <1>2 DEF Publish, DropReservation, GuardBreach, PublishTooLate, PublishReady, AbandonSlot,
       NotifyAll, WakeDrain, ringVars, sinkVars
  <1>3. CASE SharedCancel
    BY <1>3 DEF SharedCancel, CancelOpen, CancelSettled, NotifyAll, WakeDrain, ringVars, sinkVars
  <1>4. CASE CloseRing \/ JoinDrain \/ SpuriousWakeup
    BY <1>4 DEF CloseRing, JoinDrain, SpuriousWakeup, NotifyAll, WakeDrain, ringVars, sinkVars,
       drainVars
  <1>5. QED
    BY <1>1, <1>2, <1>3, <1>4 DEF OthersStep

(* A step that hands no frame over and ends no delivery keeps what the sinks see. *)
LEMMA NothingHandedOver ==
  ASSUME PrefixInv, UNCHANGED <<accepted, delivery, nextEmission>>,
         drain \in {"deliver", "settle"} => UNCHANGED <<drain, cursor>>,
         drain \notin {"deliver", "settle"} =>
           drain' # "settle" /\ (drain' = "deliver" => cursor' = 1),
         Delivering' => Delivering
  PROVE  PrefixInv'
  <1>1. ASSUME NEW k \in Sinks PROVE FedCount(k)' = FedCount(k)
    <2>1. CASE drain \in {"deliver", "settle"}
      BY <2>1 DEF FedCount, Fed
    <2>2. CASE drain \notin {"deliver", "settle"}
      BY <2>2 DEF FedCount, Fed, Sinks
    <2>3. QED
      BY <2>1, <2>2
  <1>2. ASSUME NEW k \in Sinks, Delivered(k) PROVE Delivered(k)'
    BY <1>1, <1>2 DEF Delivered, emitted
  <1>3. SinksSeeThePrefix'
    BY DEF PrefixInv, SinksSeeThePrefix, emitted
  <1>4. QED
    BY <1>2, <1>3 DEF PrefixInv

(* The elements of what a sink consumed are sequences. *)
LEMMA AcceptedFrames ==
  ASSUME IInv, NEW k \in Sinks
  PROVE  /\ accepted[k] \in Seq(FrameIds) /\ Len(accepted[k]) \in Nat
         /\ \A n \in 1 .. Len(accepted[k]) : accepted[k][n] \in Int
  <1>1. accepted[k] \in Seq(FrameIds)
    BY DEF IInv, TypeOK
  <1>2. \A n \in 1 .. Len(accepted[k]) : accepted[k][n] \in FrameIds
    BY <1>1
  <1>3. QED
    BY <1>1, <1>2 DEF FrameIds

(* A sink takes the frame at the drain's cursor, drops it, or breaks the delivery. *)
LEMMA DeliverPrefix ==
  ASSUME IInv, PrefixInv, DeliverFrame
  PROVE  PrefixInv'
  <1>1. /\ drain = "deliver" /\ delivery = "None" /\ cursor \in Sinks
        /\ frame[emitSlot] = nextEmission
        /\ nextEmission \in Int /\ FirstSequence \in Int /\ NumSinks \in Int
        /\ UNCHANGED nextEmission
    BY SequenceAssumption, SinkAssumption DEF DeliverFrame, PrefixInv, IInv, TypeOK, Ownership, OwnsEmitting, FrameIds,
       ringVars, SequenceAssumption, SinkAssumption
  <1>2. \A k \in Sinks : Delivered(k)
    BY <1>1 DEF PrefixInv, Delivering
  <1>3. \A k \in Sinks : k \in Int /\ 1 <= k /\ k <= NumSinks /\ FedCount(k) = IF k < cursor THEN 1 ELSE 0
    BY <1>1 DEF FedCount, Fed, Sinks
  <1>4. \A k \in Sinks : /\ Len(accepted[k]) \in Nat /\ accepted[k] \in Seq(FrameIds)
                        /\ \A n \in 1 .. Len(accepted[k]) : accepted[k][n] \in Int
    BY AcceptedFrames
  <1>5. Delivering'
    BY <1>1 DEF DeliverFrame, SinkConsumes, SinkDropsPreview, SinkBreaksDelivery, NextDelivery, Delivering
  <1>6. drain' # "settle" => delivery' = "None"
    BY <1>1 DEF DeliverFrame, SinkConsumes, SinkDropsPreview, SinkBreaksDelivery, NextDelivery
  <1>7. CASE SinkConsumes
    <2>1. /\ accepted' = [accepted EXCEPT ![cursor] = Append(accepted[cursor], nextEmission)]
          /\ NextDelivery /\ delivery' = "None"
      BY <1>1, <1>7 DEF SinkConsumes
    <2>2. ASSUME NEW k \in Sinks PROVE FedCount(k)' = IF k <= cursor THEN 1 ELSE 0
      BY <1>1, <1>3, <2>1 DEF NextDelivery, FedCount, Fed, Sinks
    <2>3. ASSUME NEW k \in Sinks, k # cursor
          PROVE  accepted'[k] = accepted[k] /\ FedCount(k)' = FedCount(k)
      BY <1>1, <1>3, <2>1, <2>2, <2>3 DEF Sinks, IInv, TypeOK
    <2>4. /\ accepted'[cursor] = Append(accepted[cursor], nextEmission)
          /\ Len(accepted'[cursor]) = Len(accepted[cursor]) + 1
          /\ \A n \in 1 .. Len(accepted[cursor]) : accepted'[cursor][n] = accepted[cursor][n]
          /\ accepted'[cursor][Len(accepted[cursor]) + 1] = nextEmission
      BY <1>1, <1>4, <2>1 DEF IInv, TypeOK
    <2>5. ASSUME NEW k \in Sinks, k = cursor PROVE FedCount(k) = 0 /\ FedCount(k)' = 1
      BY <1>1, <1>3, <2>2, <2>5 DEF Sinks
    <2>6. ASSUME NEW k \in Sinks PROVE Delivered(k)'
      <3>1. CASE k # cursor
        BY <1>1, <1>2, <2>3, <3>1 DEF Delivered, emitted
      <3>2. CASE k = cursor
        <4>1. ASSUME NEW n \in 1 .. Len(accepted'[cursor]) PROVE accepted'[cursor][n] < nextEmission + 1
          <5>1. CASE n = Len(accepted[cursor]) + 1
            BY <5>1, <1>1, <2>4
          <5>2. CASE n # Len(accepted[cursor]) + 1
            <6>1. n \in 1 .. Len(accepted[cursor])
              BY <5>2, <1>1, <1>4, <2>4
            <6>2. accepted[cursor][n] \in Int /\ accepted[cursor][n] < nextEmission + 0
              BY <6>1, <1>1, <1>2, <1>4, <2>5 DEF Delivered
            <6>3. QED
              BY <6>1, <6>2, <1>1, <2>4
          <5>3. QED
            BY <5>1, <5>2
        <4>2. QED
          <5>1. Len(accepted[k]) <= emitted /\ (k \in ReliableSinks => Len(accepted[k]) = emitted)
            BY <3>2, <1>1, <1>2, <1>4, <2>5 DEF Delivered, emitted
          <5>2. Len(accepted'[k]) = Len(accepted[k]) + 1 /\ emitted' = emitted /\ emitted \in Int
            BY <3>2, <1>1, <2>4 DEF emitted
          <5>3. \A n \in 1 .. Len(accepted'[k]) : accepted'[k][n] < nextEmission' + 1
            BY <4>1, <3>2, <1>1
          <5>4. QED
            BY <5>1, <5>2, <5>3, <2>5, <3>2, <1>4 DEF Delivered
      <3>3. QED
        BY <3>1, <3>2
    <2>7. SinksSeeThePrefix'
      <3>1. ASSUME NEW k \in Sinks, k \in ReliableSinks
            PROVE  /\ \A n \in 1 .. Len(accepted'[k]) : accepted'[k][n] = FirstSequence + n - 1
                   /\ Len(accepted'[k]) \in {emitted', emitted' + 1}
                   /\ \A j \in Sinks : j > k => Len(accepted'[j]) <= Len(accepted'[k])
        <4>1. Len(accepted'[k]) = emitted' + FedCount(k)' /\ Len(accepted[k]) = emitted + FedCount(k)
          BY <1>2, <2>6, <3>1 DEF Delivered, ReliableSinks
        <4>2. FedCount(k)' \in {0, 1} /\ emitted' \in Int /\ emitted' = emitted
          BY <1>1, <2>2 DEF emitted
        <4>3. ASSUME NEW j \in Sinks, j > k PROVE Len(accepted'[j]) <= Len(accepted'[k])
          <5>1. Len(accepted'[j]) <= emitted' + FedCount(j)'
            BY <2>6 DEF Delivered
          <5>2. FedCount(j)' <= FedCount(k)'
            BY <1>1, <1>3, <2>2, <4>3 DEF Sinks
          <5>3. Len(accepted'[j]) \in Int /\ FedCount(j)' \in Int
            BY <1>4, <2>2, <2>3, <2>4
          <5>4. QED
            BY <4>1, <4>2, <5>1, <5>2, <5>3
        <4>4. ASSUME NEW n \in 1 .. Len(accepted'[k]) PROVE accepted'[k][n] = FirstSequence + n - 1
          <5>1. CASE k # cursor \/ n # Len(accepted[cursor]) + 1
            <6>1. n \in 1 .. Len(accepted[k]) /\ accepted'[k][n] = accepted[k][n]
              BY <5>1, <1>1, <1>4, <2>3, <2>4
            <6>2. QED
              BY <6>1, <3>1 DEF PrefixInv, SinksSeeThePrefix
          <5>2. CASE k = cursor /\ n = Len(accepted[cursor]) + 1
            BY <5>2, <1>1, <2>4, <2>5, <4>1 DEF emitted
          <5>3. QED
            BY <5>1, <5>2
        <4>5. QED
          BY <4>1, <4>2, <4>3, <4>4
      <3>2. ASSUME NEW k \in Sinks, NEW n \in 1 .. Len(accepted'[k])
            PROVE  /\ accepted'[k][n] <= nextEmission'
                   /\ n > 1 => accepted'[k][n - 1] < accepted'[k][n]
        <4>1. CASE k # cursor \/ n # Len(accepted[cursor]) + 1
          <5>1. n \in 1 .. Len(accepted[k]) /\ accepted'[k][n] = accepted[k][n]
            BY <4>1, <1>1, <1>4, <2>3, <2>4
          <5>2. n > 1 => accepted'[k][n - 1] = accepted[k][n - 1]
            <6>1. n > 1 => n - 1 \in 1 .. Len(accepted[k])
              BY <5>1, <1>4
            <6>2. QED
              BY <6>1, <2>3, <2>4
          <5>3. QED
            BY <5>1, <5>2, <1>1 DEF PrefixInv, SinksSeeThePrefix
        <4>2. CASE k = cursor /\ n = Len(accepted[cursor]) + 1
          <5>1. accepted'[k][n] = nextEmission
            BY <4>2, <2>4
          <5>2. ASSUME n > 1 PROVE accepted'[k][n - 1] < accepted'[k][n]
            <6>1. n - 1 = Len(accepted[cursor]) /\ n - 1 \in 1 .. Len(accepted[cursor])
              BY <4>2, <5>2, <1>1, <1>4
            <6>2. accepted[cursor][n - 1] \in Int /\ accepted[cursor][n - 1] < nextEmission + 0
              BY <6>1, <1>1, <1>2, <1>4, <2>5 DEF Delivered
            <6>3. accepted'[k][n - 1] = accepted[cursor][n - 1]
              BY <4>2, <6>1, <2>4
            <6>4. QED
              BY <5>1, <6>2, <6>3, <1>1
          <5>3. QED
            BY <5>1, <5>2, <1>1
        <4>3. QED
          BY <4>1, <4>2
      <3>3. QED
        BY <3>1, <3>2 DEF SinksSeeThePrefix, ReliableSinks
    <2>8. QED
      BY <1>6, <2>6, <2>7 DEF PrefixInv
  <1>8. CASE SinkDropsPreview \/ SinkBreaksDelivery
    <2>1. UNCHANGED accepted /\ cursor' \in Sinks
      BY <1>1, <1>8 DEF SinkDropsPreview, SinkBreaksDelivery, NextDelivery, Sinks
    <2>2. ASSUME NEW k \in Sinks
          PROVE  /\ FedCount(k) = 1 => FedCount(k)' = 1
                 /\ FedCount(k)' # FedCount(k) => k = cursor /\ k \in PreviewSinks
                 /\ FedCount(k) \in {0, 1} /\ FedCount(k)' \in {0, 1}
      BY <1>1, <1>3, <1>8 DEF SinkDropsPreview, SinkBreaksDelivery, NextDelivery, FedCount, Fed, Sinks
    <2>3. ASSUME NEW k \in Sinks PROVE Delivered(k)'
      <3>1. FedCount(k)' >= FedCount(k) /\ (k \in ReliableSinks => FedCount(k)' = FedCount(k))
        BY <2>2 DEF ReliableSinks
      <3>2. Delivered(k) /\ FedCount(k) \in Int /\ FedCount(k)' \in Int
        BY <1>2, <2>2
      <3>3. \A n \in 1 .. Len(accepted[k]) : accepted[k][n] \in Int
        BY <1>4
      <3>4. QED
        BY <3>1, <3>2, <3>3, <2>1, <1>1, <1>4 DEF Delivered, emitted
    <2>4. SinksSeeThePrefix'
      BY <1>1, <2>1 DEF PrefixInv, SinksSeeThePrefix, emitted
    <2>5. QED
      BY <1>6, <2>3, <2>4 DEF PrefixInv
  <1>9. QED
    BY <1>7, <1>8 DEF DeliverFrame

(* Settling counts the frame as emitted when every sink has had it, and otherwise *)
(* ends the delivery of the stream.                                               *)
LEMMA SettlePrefix ==
  ASSUME IInv, PrefixInv, SettleFrame
  PROVE  PrefixInv'
  <1>1. /\ drain = "settle" /\ delivery' = "None" /\ UNCHANGED <<accepted, cursor>>
        /\ OwnsEmitting /\ drain' \in {"check", "finalize"}
        /\ nextEmission \in Int /\ FirstSequence \in Int
    BY SequenceAssumption DEF SettleFrame, IInv, TypeOK, Ownership, sinkVars, FrameIds, SequenceAssumption
  <1>2. \A k \in Sinks : Delivered(k)
    BY <1>1 DEF PrefixInv, Delivering
  <1>3. \A k \in Sinks : FedCount(k)' = 0
    BY <1>1 DEF FedCount, Fed
  <1>4. \A k \in Sinks : /\ Len(accepted[k]) \in Nat /\ accepted[k] \in Seq(FrameIds)
                        /\ \A n \in 1 .. Len(accepted[k]) : accepted[k][n] \in Int
    BY AcceptedFrames
  <1>5. CASE delivery = "None"
    <2>1. nextEmission' = nextEmission + 1
      BY <1>1, <1>5 DEF SettleFrame, AdvanceEmission
    <2>2. \A k \in Sinks : FedCount(k) = 1
      BY <1>1, <1>5 DEF FedCount, Fed
    <2>3. \A k \in Sinks : Delivered(k)'
      BY <1>1, <1>2, <1>3, <2>1, <2>2 DEF Delivered, emitted
    <2>4. SinksSeeThePrefix'
      <3>1. ASSUME NEW k \in Sinks, k \in ReliableSinks PROVE Len(accepted[k]) = emitted'
        BY <3>1, <1>1, <1>2, <2>1, <2>2 DEF Delivered, emitted
      <3>2. ASSUME NEW k \in Sinks, NEW n \in 1 .. Len(accepted[k]) PROVE accepted[k][n] <= nextEmission'
        <4>1. accepted[k][n] \in Int /\ accepted[k][n] < nextEmission + 1
          BY <1>2, <1>4, <2>2 DEF Delivered
        <4>2. QED
          BY <4>1, <1>1, <2>1
      <3>3. QED
        BY <1>1, <3>1, <3>2 DEF PrefixInv, SinksSeeThePrefix
    <2>5. QED
      BY <1>1, <2>3, <2>4 DEF PrefixInv
  <1>6. CASE delivery # "None"
    <2>1. nextEmission' = nextEmission
      BY <1>6 DEF SettleFrame, AdvanceEmission
    <2>2. failure' # "None"
      BY <1>1, <1>6 DEF SettleFrame, SettleFailure, Fail
    <2>3. ~Delivering'
      BY <2>2 DEF SettleFrame, Delivering
    <2>4. SinksSeeThePrefix'
      BY <1>1, <2>1 DEF PrefixInv, SinksSeeThePrefix, emitted
    <2>5. QED
      BY <1>1, <2>3, <2>4 DEF PrefixInv
  <1>7. QED
    BY <1>5, <1>6

(* Once it has left for the finalization the drain delivers no more. *)
LEMMA DrainPrefix ==
  ASSUME IInv, PrefixInv, Drain
  PROVE  PrefixInv'
  <1>1. CASE NextDrainStep
    <2>1. /\ drain = "check" /\ UNCHANGED <<accepted, delivery, nextEmission>>
          /\ drain' \in {"finalize", "deliver", "parked"} /\ (drain' = "deliver" => cursor' = 1)
      BY <1>1 DEF NextDrainStep, DrainFailed, DrainTakes, DrainComplete, DrainParks, sinkVars
    <2>2. QED
      BY <2>1, NothingHandedOver DEF Delivering
  <1>2. CASE DeliverFrame
    BY <1>2, DeliverPrefix
  <1>3. CASE SettleFrame
    BY <1>3, SettlePrefix
  <1>4. CASE BeginFinalize \/ PrepareFinish \/ DecideFinalization \/ CommitFinish \/ AbortSink
    <2>1. /\ drain \in {"finalize", "prepare", "decide", "commit", "abort"}
          /\ drain' \in {"prepare", "decide", "commit", "abort", "done"}
          /\ UNCHANGED <<accepted, delivery, nextEmission>>
      BY <1>4 DEF BeginFinalize, PrepareFinish, PrepareOk, PrepareFails, DecideFinalization,
         CommitFinish, CommitOk, CommitFails, AbortSink, ringVars, sinkVars
    <2>2. QED
      BY <2>1, NothingHandedOver DEF Delivering
  <1>5. QED
    BY <1>1, <1>2, <1>3, <1>4 DEF Drain

(* Whatever order frames are published in, whoever fails and whenever the    *)
(* host cancels, every reliable sink of emitter.rs has consumed exactly the  *)
(* contiguous frames emitted so far (with, at most, the one in delivery),    *)
(* no sink is ahead of a reliable one before it, and a preview sink sees an  *)
(* increasing selection of them.                                             *)
THEOREM PrefixDelivery == Spec => []SinksSeeThePrefix
  <1>1. Init => PrefixInv
    <2> SUFFICES ASSUME Init PROVE PrefixInv
      OBVIOUS
    <2>1. \A k \in Sinks : accepted[k] = <<>> /\ Len(accepted[k]) = 0 /\ FedCount(k) = 0
      BY DEF Init, FedCount, Fed
    <2>2. emitted = 0 /\ nextEmission \in Int
      BY SequenceAssumption DEF Init, emitted, SequenceAssumption
    <2>3. SinksSeeThePrefix
      BY <2>1, <2>2 DEF SinksSeeThePrefix
    <2>4. \A k \in Sinks : Delivered(k)
      BY <2>1, <2>2 DEF Delivered
    <2>5. QED
      BY <2>3, <2>4 DEF PrefixInv, Init
  <1>2. IInv /\ PrefixInv /\ [Next]_vars => PrefixInv'
    <2> SUFFICES ASSUME IInv, PrefixInv, [Next]_vars PROVE PrefixInv'
      OBVIOUS
    <2>1. CASE Drain
      BY <2>1, DrainPrefix
    <2>2. CASE OthersStep
      BY <2>2, OthersLeaveTheDrain, NothingHandedOver DEF Delivering
    <2>3. CASE UNCHANGED vars
      BY <2>3, NothingHandedOver DEF vars, ringVars, sinkVars, drainVars, Delivering
    <2>4. QED
      BY <2>1, <2>2, <2>3, StepsOfThreads
  <1>3. PrefixInv => SinksSeeThePrefix
    BY DEF PrefixInv
  <1>4. QED
    BY <1>1, <1>2, <1>3, InductiveInvariant, PTL DEF Spec

-----------------------------------------------------------------------------
(* The emitter keeps the promise of AtomicPublication. *)

(* `finish` was called and everything reserved was delivered. *)
Drained == closed /\ outstanding = 0

(* How far the finalization can be at each place of the drain thread: a commit  *)
(* is decided only for a stream that was closed, drained and has not failed,    *)
(* which then no reservation is left to fail; sinks are settled in their order. *)
PublishInv ==
  /\ finalization = "Cancelled" => failure # "None"
  /\ finalization \in {"Committing", "Complete"} =>
       closed /\ drain \in {"commit", "abort", "done"}
  /\ drain \in {"finalize", "prepare", "decide", "commit", "done"} /\ failure = "None" => Drained
  /\ drain = "decide" => cursor = 1
  /\ drain = "commit" =>
       /\ finalization = "Committing" /\ failure = "None"
       /\ Committed = 1 .. cursor - 1 /\ Aborted = {}
  /\ drain = "abort" => failure # "None" /\ Committed \cup Aborted \subseteq 1 .. cursor - 1
  /\ drain \notin {"commit", "abort", "done"} => Committed = {} /\ Aborted = {}

(* What another thread's step can do to the stream as a whole: grant the next *)
(* reservation, fail the stream, or neither.                                  *)
Granted ==
  /\ failure = "None" /\ ~closed
  /\ nextReservation' = nextReservation + 1
  /\ UNCHANGED <<failure, finalization, closed>>

Failed ==
  /\ failure = "None" /\ failure' # "None"
  /\ UNCHANGED <<nextReservation, closed>>
  /\ \/ outstanding > 0 /\ UNCHANGED finalization
     \/ drain # "commit" /\ finalization = "Open" /\ finalization' = "Cancelled"

Unmoved ==
  /\ UNCHANGED <<failure, nextReservation>>
  /\ closed => closed'
  /\ failure = "None" => UNCHANGED outstanding
  /\ \/ UNCHANGED finalization
     \/ finalization = "Open" /\ finalization' = "Cancelled" /\ failure # "None"

(* While nothing failed, a live guard keeps the ring from being empty. *)
LEMMA GuardsAreOutstanding ==
  ASSUME IInv, NEW r \in reservations, failure = "None"
  PROVE  outstanding > 0
  <1>1. RingShape /\ r.slot \in Slots /\ slot[r.slot] = "Writing"
    BY GuardFacts DEF IInv
  <1>2. Offset(r.slot) < outstanding
    BY <1>1 DEF RingShape
  <1>3. QED
    BY <1>1, <1>2, CapacityAssumption DEF Offset, Slots, IInv, TypeOK, CapacityAssumption

(* The steps of the other threads, by their effect on the stream. *)
LEMMA OthersEffect ==
  ASSUME IInv, OthersStep
  PROVE  Granted \/ Failed \/ Unmoved
  <1>1. ASSUME NEW p \in Dispatchers, NEW s \in FrameIds, ReserveIteration(p, s)
        PROVE  Granted \/ Failed \/ Unmoved
    <2>1. CASE ReserveRefused(p, s) \/ ReserveBlocks(p, s)
      BY <2>1 DEF ReserveRefused, ReserveBlocks, Unmoved, ringVars
    <2>2. CASE ReserveProceeds(p, s)
      <3>1. IInv'
        BY <1>1, ReserveIInv
      <3>2. failure = "None" /\ ~closed
        BY <2>2 DEF ReserveProceeds, Refused
      <3>3. ~ReserveBreach(p)
        BY <3>1, <3>2 DEF ReserveBreach, Fail, IInv, RingIsSound
      <3>4. GrantSlot(p, s)
        BY <2>2, <3>3 DEF ReserveProceeds
      <3>5. QED
        BY <3>2, <3>4 DEF GrantSlot, Granted
    <2>3. QED
      BY <1>1, <2>1, <2>2 DEF ReserveIteration
  <1>2. ASSUME NEW r \in reservations, Publish(r)
        PROVE  Unmoved
    <2>1. CASE failure # "None"
      BY <1>2, <2>1, GuardFacts DEF Publish, PublishTooLate, Unmoved
    <2>2. CASE failure = "None"
      BY <1>2, <2>2, GuardFacts DEF Publish, PublishReady, Unmoved
    <2>3. QED
      BY <2>1, <2>2
  <1>3. ASSUME NEW r \in reservations, DropReservation(r)
        PROVE  Failed \/ Unmoved
    <2>1. AbandonSlot(r) /\ UNCHANGED <<finalization, closed, nextReservation>>
      BY <1>3, GuardFacts DEF DropReservation, AbandonSlot
    <2>2. CASE failure = "None"
      BY <2>1, <2>2, GuardsAreOutstanding DEF AbandonSlot, Fail, Failed
    <2>3. CASE failure # "None"
      BY <2>1, <2>3 DEF AbandonSlot, Fail, Unmoved
    <2>4. QED
      BY <2>2, <2>3
  <1>4. CASE SharedCancel
    <2>1. UNCHANGED <<closed, nextReservation, outstanding>> /\ drain # "commit"
      BY <1>4 DEF SharedCancel, FinalizationFree, ringVars
    <2>2. CASE CancelOpen
      BY <2>1, <2>2 DEF CancelOpen, Fail, Failed, Unmoved
    <2>3. CASE CancelSettled
      BY <2>1, <2>3 DEF CancelSettled, Unmoved
    <2>4. QED
      BY <1>4, <2>2, <2>3 DEF SharedCancel
  <1>5. CASE CloseRing \/ JoinDrain \/ SpuriousWakeup
    BY <1>5 DEF CloseRing, JoinDrain, SpuriousWakeup, Unmoved, ringVars
  <1>6. QED
    BY <1>1, <1>2, <1>3, <1>4, <1>5 DEF OthersStep

(* Other threads cannot touch a stream whose commit was decided. *)
LEMMA OthersPublish ==
  ASSUME IInv, PublishInv, OthersStep
  PROVE  PublishInv'
  <1>1. /\ UNCHANGED <<Committed, Aborted, cursor>>
        /\ drain' = drain \/ (drain = "parked" /\ drain' = "check")
    BY OthersLeaveTheDrain DEF Committed, Aborted
  <1>2. outstanding > 0 => outstanding # 0
    BY DEF IInv, TypeOK
  <1>3. CASE Granted
    BY <1>1, <1>3 DEF Granted, PublishInv, Drained
  <1>4. CASE Failed
    BY <1>1, <1>2, <1>4 DEF Failed, PublishInv, Drained
  <1>5. CASE Unmoved
    BY <1>1, <1>5 DEF Unmoved, PublishInv, Drained
  <1>6. QED
    BY <1>3, <1>4, <1>5, OthersEffect

(* The drain thread leaves for the finalization when the ring is drained or has *)
(* failed.                                                                      *)
LEMMA DeliveryPublish ==
  ASSUME IInv, PublishInv, NextDrainStep \/ DeliverFrame \/ SettleFrame
  PROVE  PublishInv'
  <1>1. /\ drain \in {"check", "deliver", "settle"}
        /\ drain' \in {"check", "parked", "deliver", "settle", "finalize"}
        /\ UNCHANGED <<Committed, Aborted, finalization, closed>>
    BY DEF NextDrainStep, DrainFailed, DrainTakes, DrainComplete, DrainParks, DeliverFrame,
       SinkConsumes, SinkDropsPreview, SinkBreaksDelivery, NextDelivery, SettleFrame, sinkVars,
       Committed, Aborted
  <1>2. failure # "None" => failure' # "None"
    BY DEF NextDrainStep, DrainFailed, DrainTakes, DrainComplete, DrainParks, DeliverFrame,
       SettleFrame, SettleFailure, Fail
  <1>3. drain' = "finalize" /\ failure' = "None" => closed' /\ outstanding' = 0
    <2>1. CASE NextDrainStep
      BY <2>1 DEF NextDrainStep, DrainFailed, DrainTakes, DrainComplete, DrainParks, Fail
    <2>2. CASE DeliverFrame
      BY <2>2 DEF DeliverFrame, SinkConsumes, SinkDropsPreview, SinkBreaksDelivery, NextDelivery
    <2>3. CASE SettleFrame
      BY <2>3 DEF SettleFrame
    <2>4. QED
      BY <2>1, <2>2, <2>3
  <1>4. QED
    BY <1>1, <1>2, <1>3 DEF PublishInv, Drained

(* Sinks are prepared, and then committed or aborted, one after the other. *)
LEMMA FinalizePublish ==
  ASSUME IInv, PublishInv,
         BeginFinalize \/ PrepareFinish \/ DecideFinalization \/ CommitFinish \/ AbortSink
  PROVE  PublishInv'
  <1>1. cursor \in Sinks /\ cursor \in Int /\ sink \in [Sinks -> {"open", "prepared", "refused", "committed", "aborted"}]
    BY SinkAssumption DEF IInv, TypeOK, Sinks, SinkAssumption
  <1>2. CASE BeginFinalize
    <2>1. /\ drain = "finalize" /\ drain' \in {"abort", "prepare"} /\ cursor' = 1
          /\ (drain' = "abort" => failure' # "None")
          /\ UNCHANGED <<failure, finalization, closed, outstanding, Committed, Aborted>>
      BY <1>2 DEF BeginFinalize, Committed, Aborted, ringVars, sinkVars
    <2>2. QED
      BY <2>1 DEF PublishInv, Drained
  <1>3. CASE PrepareFinish
    <2>1. /\ drain = "prepare" /\ UNCHANGED <<finalization, closed, outstanding>>
          /\ finalization \notin {"Committing", "Complete"}
      BY <1>3 DEF PrepareFinish, PublishInv, ringVars
    <2>2. Committed' = {} /\ Aborted' = {}
      <3>1. Committed = {} /\ Aborted = {}
        BY <2>1 DEF PublishInv
      <3>2. Committed' \subseteq Committed /\ Aborted' \subseteq Aborted
        BY <1>1, <1>3 DEF PrepareFinish, PrepareOk, PrepareFails, Committed, Aborted
      <3>3. QED
        BY <3>1, <3>2
    <2>3. \/ UNCHANGED failure /\ drain' \in {"prepare", "decide"}
          \/ failure' # "None" /\ drain' = "abort"
      BY <1>3, <2>1 DEF PrepareFinish, PrepareOk, PrepareFails, Fail
    <2>4. drain' = "decide" => cursor' = 1
      BY <1>3, <2>1 DEF PrepareFinish, PrepareOk, PrepareFails
    <2>5. QED
      BY <2>1, <2>2, <2>3, <2>4 DEF PublishInv, Drained
  <1>4. CASE DecideFinalization
    <2>1. /\ drain = "decide" /\ UNCHANGED <<failure, closed, outstanding, cursor>>
          /\ Committed' = {} /\ Aborted' = {}
          /\ finalization \in {"Open", "Cancelled"}
      BY <1>4 DEF DecideFinalization, PublishInv, Committed, Aborted, ringVars, sinkVars, IInv, TypeOK
    <2>2. CASE MayCommit
      <3>1. finalization' = "Committing" /\ drain' = "commit" /\ failure = "None" /\ Drained
        BY <1>4, <2>1, <2>2 DEF DecideFinalization, MayCommit, PublishInv
      <3>2. cursor = 1
        BY <2>1 DEF PublishInv
      <3>3. QED
        BY <2>1, <3>1, <3>2 DEF PublishInv, Drained
    <2>3. CASE ~MayCommit
      BY <1>4, <2>1, <2>3 DEF DecideFinalization, MayCommit, PublishInv, Drained
    <2>4. QED
      BY <2>2, <2>3
  <1>5. CASE CommitFinish
    <2>1. /\ drain = "commit" /\ UNCHANGED <<closed, outstanding>> /\ closed /\ Drained
          /\ failure = "None" /\ Committed = 1 .. cursor - 1 /\ Aborted = {}
      BY <1>5 DEF CommitFinish, PublishInv, Drained, ringVars
    <2>2. CASE CommitOk
      <3>1. Committed' = Committed \cup {cursor} /\ Aborted' \subseteq Aborted
        BY <1>1, <2>2 DEF CommitOk, Committed, Aborted
      <3>2. Committed' = 1 .. cursor /\ Aborted' = {}
        BY <1>1, <2>1, <3>1 DEF Sinks
      <3>3. QED
        BY <1>1, <2>1, <2>2, <3>2 DEF CommitOk, PublishInv, Drained
    <2>3. CASE CommitFails
      <3>1. Committed' \subseteq Committed /\ Aborted' \subseteq Aborted
        BY <1>1, <2>3 DEF CommitFails, Committed, Aborted
      <3>2. QED
        BY <2>1, <2>3, <3>1 DEF CommitFails, Fail, PublishInv, Drained
    <2>4. QED
      BY <1>5, <2>2, <2>3 DEF CommitFinish
  <1>6. CASE AbortSink
    <2>1. /\ drain = "abort" /\ UNCHANGED <<closed, failure, finalization>> /\ failure # "None"
          /\ Committed \cup Aborted \subseteq 1 .. cursor - 1
      BY <1>6 DEF AbortSink, PublishInv
    <2>2. Committed' \subseteq Committed /\ Aborted' \subseteq Aborted \cup {cursor}
      BY <1>1, <1>6 DEF AbortSink, Committed, Aborted
    <2>3. Committed' \cup Aborted' \subseteq 1 .. cursor
      BY <1>1, <2>1, <2>2 DEF Sinks
    <2>4. \/ drain' = "done"
          \/ drain' = "abort" /\ cursor' = cursor + 1
      BY <1>6 DEF AbortSink
    <2>5. QED
      BY <1>1, <2>1, <2>3, <2>4 DEF PublishInv, Drained
  <1>7. QED
    BY <1>2, <1>3, <1>4, <1>5, <1>6

-----------------------------------------------------------------------------
(* Each step is a step of AtomicPublication, or none at all. *)

(* A failure recorded before the decision aborts the stream. *)
LEMMA FailureAborts ==
  ASSUME finalization \notin {"Committing", "Complete"},
         finalization' \notin {"Committing", "Complete"},
         failure = "None" \/ UNCHANGED failure,
         UNCHANGED <<nextReservation, nextEmission, Committed, Aborted>>
  PROVE  [Promise!ANext]_(Promise!avars)
  <1>1. /\ Verdict = IF failure = "None" THEN "open" ELSE "abort"
        /\ Verdict' = IF failure' = "None" THEN "open" ELSE "abort"
    BY DEF Verdict
  <1>2. CASE failure' = failure
    BY <1>1, <1>2 DEF Promise!avars, emitted
  <1>3. CASE failure' # failure
    <2>1. Verdict = "open" /\ Verdict' = "abort"
      BY <1>1, <1>3
    <2>2. Promise!Abort
      BY <2>1 DEF Promise!Abort, emitted
    <2>3. QED
      BY <2>2 DEF Promise!ANext
  <1>4. QED
    BY <1>2, <1>3

(* Other threads reserve the next frame, or abort the stream. *)
LEMMA OthersPromise ==
  ASSUME IInv, PublishInv, OthersStep
  PROVE  [Promise!ANext]_(Promise!avars)
  <1>1. UNCHANGED <<Committed, Aborted, nextEmission>>
    BY OthersLeaveTheDrain DEF Committed, Aborted
  <1>2. CASE Granted
    <2>1. finalization \notin {"Committing", "Complete"}
      BY <1>2 DEF Granted, PublishInv
    <2>2. Verdict = "open" /\ Verdict' = "open"
      BY <1>2, <2>1 DEF Granted, Verdict
    <2>3. nextReservation' - FirstSequence = nextReservation - FirstSequence + 1
      BY <1>2, SequenceAssumption DEF Granted, IInv, TypeOK, FrameIds, SequenceAssumption
    <2>4. Promise!ReserveFrame
      BY <1>1, <2>2, <2>3 DEF Promise!ReserveFrame, emitted
    <2>5. QED
      BY <2>4 DEF Promise!ANext
  <1>3. CASE Failed
    <2>1. finalization \notin {"Committing", "Complete"} /\ finalization' \notin {"Committing", "Complete"}
      <3>1. outstanding > 0 => outstanding # 0
        BY DEF IInv, TypeOK
      <3>2. finalization \in {"Committing", "Complete"} => outstanding = 0 /\ closed
        BY <1>3 DEF Failed, PublishInv, Drained
      <3>3. QED
        BY <1>3, <3>1, <3>2 DEF Failed
    <2>2. QED
      BY <1>1, <1>3, <2>1, FailureAborts DEF Failed
  <1>4. CASE Unmoved
    <2>1. Verdict' = Verdict
      BY <1>4 DEF Unmoved, Verdict
    <2>2. QED
      BY <1>1, <1>4, <2>1 DEF Unmoved, Promise!avars, emitted
  <1>5. QED
    BY <1>2, <1>3, <1>4, OthersEffect

(* Delivering a frame emits it, or its failure aborts the stream. *)
LEMMA DeliveryPromise ==
  ASSUME IInv, PublishInv, NextDrainStep \/ DeliverFrame \/ SettleFrame
  PROVE  [Promise!ANext]_(Promise!avars)
  <1>1. /\ finalization \notin {"Committing", "Complete"}
        /\ UNCHANGED <<finalization, nextReservation, Committed, Aborted>>
        /\ Committed = {} /\ Aborted = {}
        /\ failure = "None" \/ UNCHANGED failure
    <2>1. /\ drain \in {"check", "deliver", "settle"}
          /\ UNCHANGED <<finalization, nextReservation, sink>>
          /\ failure = "None" \/ UNCHANGED failure
      BY DEF NextDrainStep, DrainFailed, DrainTakes, DrainComplete, DrainParks, DeliverFrame,
         SettleFrame, SettleFailure, Fail, ringVars, sinkVars
    <2>2. QED
      BY <2>1 DEF PublishInv, Committed, Aborted
  <1>2. CASE UNCHANGED nextEmission
    BY <1>1, <1>2, FailureAborts
  <1>3. CASE nextEmission' # nextEmission
    <2>1. SettleFrame
      BY <1>3 DEF NextDrainStep, DeliverFrame, ringVars
    <2>2. delivery = "None" /\ OwnsEmitting /\ nextEmission' = nextEmission + 1
      BY <1>3, <2>1 DEF SettleFrame, AdvanceEmission
    <2>3. failure' = failure
      BY <2>1, <2>2 DEF SettleFrame, SettleFailure
    <2>4. Verdict \in {"open", "abort"} /\ Verdict' = Verdict
      BY <1>1, <2>3 DEF Verdict
    <2>5. nextEmission < nextReservation
      BY <2>1 DEF SettleFrame, IInv, Ownership
    <2>6. emitted' = emitted + 1 /\ emitted < nextReservation - FirstSequence
      BY <2>2, <2>5, SequenceAssumption DEF emitted, IInv, TypeOK, FrameIds, SequenceAssumption
    <2>7. Promise!EmitFrame
      BY <1>1, <2>4, <2>6 DEF Promise!EmitFrame
    <2>8. QED
      BY <2>7 DEF Promise!ANext
  <1>4. QED
    BY <1>2, <1>3

(* The decision is the verdict; commits and aborts settle one sink each. *)
LEMMA FinalizePromise ==
  ASSUME IInv, PublishInv,
         BeginFinalize \/ PrepareFinish \/ DecideFinalization \/ CommitFinish \/ AbortSink
  PROVE  [Promise!ANext]_(Promise!avars)
  <1>1. /\ cursor \in Sinks /\ cursor \in Int /\ NumSinks \in Int /\ 1 <= cursor /\ cursor <= NumSinks
        /\ sink \in [Sinks -> {"open", "prepared", "refused", "committed", "aborted"}]
    BY SinkAssumption DEF IInv, TypeOK, Sinks, SinkAssumption
  <1>2. UNCHANGED <<nextReservation, nextEmission, emitted>>
    BY DEF BeginFinalize, PrepareFinish, DecideFinalization, CommitFinish, AbortSink, ringVars, emitted
  <1>3. CASE BeginFinalize
    BY <1>2, <1>3 DEF BeginFinalize, Verdict, Committed, Aborted, sinkVars, Promise!avars
  <1>4. CASE PrepareFinish
    <2>1. drain = "prepare" /\ UNCHANGED finalization
      BY <1>4 DEF PrepareFinish
    <2>2. Committed = {} /\ Aborted = {} /\ finalization \notin {"Committing", "Complete"}
      BY <2>1 DEF PublishInv
    <2>3. Committed' \subseteq Committed /\ Aborted' \subseteq Aborted
      BY <1>1, <1>4 DEF PrepareFinish, PrepareOk, PrepareFails, Committed, Aborted
    <2>4. failure = "None" \/ UNCHANGED failure
      BY <1>4 DEF PrepareFinish, PrepareOk, PrepareFails, Fail
    <2>5. UNCHANGED <<Committed, Aborted>>
      BY <2>2, <2>3
    <2>6. QED
      BY <1>2, <2>1, <2>2, <2>4, <2>5, FailureAborts
  <1>5. CASE DecideFinalization
    <2>1. /\ drain = "decide" /\ UNCHANGED <<failure, Committed, Aborted>>
          /\ finalization \in {"Open", "Cancelled"}
      BY <1>5 DEF DecideFinalization, PublishInv, Committed, Aborted, sinkVars, IInv, TypeOK
    <2>2. CASE MayCommit
      <3>1. Verdict = "open" /\ Verdict' = "commit"
        BY <1>5, <2>1, <2>2 DEF DecideFinalization, MayCommit, Verdict
      <3>2. outstanding = 0 /\ RingShape
        BY <2>1, <2>2 DEF MayCommit, PublishInv, Drained, IInv
      <3>3. emitted = nextReservation - FirstSequence
        BY <3>2, SequenceAssumption DEF RingShape, emitted, IInv, TypeOK, FrameIds, SequenceAssumption
      <3>4. Promise!Commit
        BY <1>2, <2>1, <3>1, <3>3 DEF Promise!Commit
      <3>5. QED
        BY <3>4 DEF Promise!ANext
    <2>3. CASE ~MayCommit
      <3>1. finalization' = "Cancelled"
        BY <1>5, <2>3 DEF DecideFinalization
      <3>2. QED
        BY <1>2, <2>1, <3>1, FailureAborts
    <2>4. QED
      BY <2>2, <2>3
  <1>6. CASE CommitFinish
    <2>1. /\ drain = "commit" /\ finalization = "Committing" /\ failure = "None"
          /\ Committed = 1 .. cursor - 1 /\ Aborted = {}
      BY <1>6 DEF CommitFinish, PublishInv
    <2>2. Verdict = "commit"
      BY <2>1 DEF Verdict
    <2>3. CASE CommitOk
      <3>1. Committed' = Committed \cup {cursor} /\ Aborted' \subseteq Aborted
        BY <1>1, <2>3 DEF CommitOk, Committed, Aborted
      <3>2. Aborted' = Aborted
        BY <2>1, <3>1
      <3>3. finalization' \in {"Committing", "Complete"} /\ failure' = "None"
        BY <2>1, <2>3 DEF CommitOk
      <3>4. Verdict' = "commit"
        BY <3>3 DEF Verdict
      <3>5. \E k \in Promise!ASinks : Committed = 1 .. k - 1 /\ Committed' = Committed \cup {k}
        BY <1>1, <2>1, <3>1 DEF Promise!ASinks, Sinks
      <3>6. Promise!PublishSink
        BY <1>2, <2>2, <3>2, <3>4, <3>5 DEF Promise!PublishSink
      <3>7. QED
        BY <3>6 DEF Promise!ANext
    <2>4. CASE CommitFails
      <3>1. UNCHANGED <<Committed, Aborted>>
        <4>1. cursor \notin Committed /\ cursor \notin Aborted
          BY <1>1, <2>1
        <4>2. ASSUME NEW k \in Sinks
              PROVE  /\ sink'[k] = "committed" <=> sink[k] = "committed"
                     /\ sink'[k] = "aborted" <=> sink[k] = "aborted"
          BY <1>1, <2>4, <4>1 DEF CommitFails, Committed, Aborted
        <4>3. QED
          BY <4>2 DEF Committed, Aborted
      <3>2. finalization' = "Complete" /\ failure' # "None"
        BY <2>1, <2>4 DEF CommitFails, Fail
      <3>3. Verdict' = "broken"
        BY <3>2 DEF Verdict
      <3>4. Committed # Promise!ASinks
        BY <1>1, <2>1 DEF Promise!ASinks
      <3>5. Promise!BreakCommit
        BY <1>2, <2>2, <3>1, <3>3, <3>4 DEF Promise!BreakCommit
      <3>6. QED
        BY <3>5 DEF Promise!ANext
    <2>5. QED
      BY <1>6, <2>3, <2>4 DEF CommitFinish
  <1>7. CASE AbortSink
    <2>1. /\ drain = "abort" /\ UNCHANGED <<failure, finalization>> /\ failure # "None"
          /\ Committed \cup Aborted \subseteq 1 .. cursor - 1
      BY <1>7 DEF AbortSink, PublishInv
    <2>2. Verdict \in {"abort", "broken"} /\ Verdict' = Verdict
      BY <2>1 DEF Verdict
    <2>3. cursor \notin Committed \cup Aborted
      BY <1>1, <2>1
    <2>4. Committed' = Committed /\ Aborted' = Aborted \cup {cursor}
      BY <1>1, <1>7, <2>3 DEF AbortSink, Committed, Aborted
    <2>5. cursor \in Promise!ASinks \ (Committed \cup Aborted)
      BY <1>1, <2>3 DEF Promise!ASinks, Sinks
    <2>6. Promise!DiscardSink
      BY <1>2, <2>2, <2>4, <2>5 DEF Promise!DiscardSink
    <2>7. QED
      BY <2>6 DEF Promise!ANext
  <1>8. QED
    BY <1>3, <1>4, <1>5, <1>6, <1>7

(* PublishInv is invariant, given IInv. *)
LEMMA NextPublish == IInv /\ PublishInv /\ [Next]_vars => PublishInv'
  <1> SUFFICES ASSUME IInv, PublishInv, [Next]_vars PROVE PublishInv'
    OBVIOUS
  <1>1. CASE Drain
    BY <1>1, DeliveryPublish, FinalizePublish DEF Drain
  <1>2. CASE OthersStep
    BY <1>2, OthersPublish
  <1>3. CASE UNCHANGED vars
    BY <1>3 DEF vars, ringVars, sinkVars, drainVars, PublishInv, Drained, Committed, Aborted
  <1>4. QED
    BY <1>1, <1>2, <1>3, StepsOfThreads

(* The finalization of emitter.rs is all or nothing: a commit is decided only    *)
(* for a stream that `finish` closed, whose every reserved frame was delivered   *)
(* and that has not failed, and then nothing but a sink's own commit can fail    *)
(* it; otherwise no sink is ever committed.  This is the safety of               *)
(* ImplementsAtomicPublication: every step of the emitter is a step of the       *)
(* promise, or changes nothing it speaks of.                                     *)
THEOREM EmitterPublishesAtomically ==
  Spec => Promise!ASafety
  <1>1. Init => PublishInv /\ Promise!AInit
    BY SequenceAssumption DEF Init, PublishInv, Promise!AInit, Committed, Aborted, emitted, Verdict,
       SequenceAssumption
  <1>2. IInv /\ PublishInv /\ [Next]_vars => [Promise!ANext]_(Promise!avars)
    <2> SUFFICES ASSUME IInv, PublishInv, [Next]_vars PROVE [Promise!ANext]_(Promise!avars)
      OBVIOUS
    <2>1. CASE Drain
      BY <2>1, DeliveryPromise, FinalizePromise DEF Drain
    <2>2. CASE OthersStep
      BY <2>2, OthersPromise
    <2>3. CASE UNCHANGED vars
      BY <2>3 DEF vars, ringVars, sinkVars, Promise!avars, Committed, Aborted, Verdict, emitted
    <2>4. QED
      BY <2>1, <2>2, <2>3, StepsOfThreads
  <1>3. QED
    BY <1>1, <1>2, NextPublish, InductiveInvariant, PTL DEF Spec, Promise!ASafety
=============================================================================
