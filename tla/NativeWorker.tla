---------------------------- MODULE NativeWorker ----------------------------
(***************************************************************************)
(* The native scene worker and the journal it is recovered from            *)
(* (crates/fmn-studio/src/native: service.rs, edits.rs,                    *)
(* service/pending.rs, service/recovery.rs).                               *)
(*                                                                         *)
(* The worker holds an executable preview of the scene, a track of         *)
(* committed inputs, and preview inputs staged for an explicit save.  It   *)
(* may be lost at any moment, with the answer it was about to give; its    *)
(* supervisor then starts another, restores the last checkpoint of the     *)
(* journal and replays the rest.  A factory is ColdVerified: the state of  *)
(* an execution is the frame it is at and the inputs dispatched to it.     *)
(* Authored code may fail in any execution; a failure that changes nothing *)
(* is not a step.  Budgets of bytes (max_checkpoint_bytes and the limits   *)
(* of segments, frames and journals) are not tested here.  A commit or a   *)
(* save refused for bytes changes nothing, a preview refused for the bytes *)
(* of its frame is SeekFails or EventFails, and a recovery refused for     *)
(* bytes or for its number of entries is left out.                         *)
(***************************************************************************)
EXTENDS Integers, Sequences, FiniteSets

CONSTANTS
    LastFrame,          \* frame_count - 1
    Events,             \* what an input can be
    StageInputs,        \* stage_input_events
    CheckpointFrames,   \* checkpoint_frames
    MaxInputs,          \* max_recorded_inputs
    MaxReplayFrames,    \* max_replay_frames
    MaxReplayInputs,    \* max_replay_inputs
    MaxEntries,         \* bound: entries in a journal
    MaxPreview,         \* bound: preview inputs not yet saved or discarded
    MaxCrashes          \* bound: workers lost

ASSUME ConfigAssumption ==
    /\ LastFrame \in Nat /\ StageInputs \in BOOLEAN
    /\ CheckpointFrames \in Nat \ {0} /\ MaxInputs \in Nat \ {0}
    /\ MaxReplayFrames \in Nat /\ MaxReplayInputs \in Nat
ASSUME BoundsAssumption == MaxEntries \in Nat /\ MaxPreview \in Nat /\ MaxCrashes \in Nat

VARIABLES
    phase,              \* "serving", or where recovery is
    program,            \* the preview: a frame and the inputs dispatched
    clean,              \* preview_clean
    edits,              \* EditTrack::rows
    pending,            \* pending_inputs
    position,           \* journal entries this worker stands for
    lastCheckpoint,     \* last_checkpoint, NoFrame for None
    journal,            \* the supervisor's journal, merged segments
    reuse,              \* entries a recovery is to reach, ReplayPlan::reuse
    crashes             \* history: workers lost

worker == <<program, clean, edits, pending, position, lastCheckpoint>>
vars == <<phase, worker, journal, reuse, crashes>>

Frames == 0 .. LastFrame
NoFrame == -1
NoProgram == [frame |-> NoFrame, done |-> <<>>]
Inputs == [frame : Frames, revision : Nat, event : Events]
Dispatches == [frame : Frames, event : Events]
Prefix(s, n) == SubSeq(s, 1, n)

\* A command is a seek, or an input with the revision its author saw.
SeekCommand(f) == [kind |-> "seek", frame |-> f]
InputCommand(f, r, e) == [kind |-> "input", frame |-> f, revision |-> r, event |-> e]
RowOf(command) == [frame |-> command.frame, revision |-> command.revision,
                   event |-> command.event]

-----------------------------------------------------------------------------
(* edits.rs *)

\* EditTrack::visible_count; rows are in frame order.
VisibleCount(rows, f) == Cardinality({i \in 1 .. Len(rows) : rows[i].frame <= f})

Dispatched(row) == [frame |-> row.frame, event |-> row.event]
DispatchedRows(rows) == [i \in 1 .. Len(rows) |-> Dispatched(rows[i])]

\* EditTrack::advance_after_inputs: the rows past the first `applied` run in
\* order, and the loop breaks at the first one past the target.
AdvanceAfterInputs(p, rows, target, applied) ==
    LET due == SubSeq(rows, applied + 1, VisibleCount(rows, target))
    IN [frame |-> target, done |-> p.done \o DispatchedRows(due)]

\* The factory runs anew from frame zero.
FreshAt(f, rows) == AdvanceAfterInputs([frame |-> 0, done |-> <<>>], rows, f, 0)

\* EditTrack::advance: a cursor that has run every input of its own frame.
Advance(p, rows, target) ==
    AdvanceAfterInputs(p, rows, target, VisibleCount(rows, p.frame))

\* Mutation of Keep: an input replaces those of its own frame.
KeepBefore(rows, f) == VisibleCount(rows, f - 1)

\* The rows an input at frame f leaves in place.
Keep(rows, f) == VisibleCount(rows, f)

\* Mutation of AppendAdmits: a full track takes one more input.
AppendAdmitsOneMore(command, rows, at) ==
    command.revision = at /\ Keep(rows, command.frame) <= MaxInputs

\* EditTrack::append refuses a stale revision and a full track.
AppendAdmits(command, rows, at) ==
    command.revision = at /\ Keep(rows, command.frame) < MaxInputs

AppendRow(command, rows) == Append(Prefix(rows, Keep(rows, command.frame)), RowOf(command))

\* prepare_command: the candidate track, and whether it is admitted.
Prepared(command, rows) == IF command.kind = "input" THEN AppendRow(command, rows) ELSE rows

PrepareAdmits(command, rows, at) ==
    /\ command.frame \in Frames /\ command.frame <= MaxReplayFrames
    /\ command.kind = "input" => AppendAdmits(command, rows, at)
    /\ VisibleCount(Prepared(command, rows), command.frame) <= MaxReplayInputs

\* encode_state: without inputs a state is that of the scene alone.
EncodeState(at, rows, p) ==
    IF rows = <<>> THEN [kind |-> "scene", program |-> p]
    ELSE [kind |-> "edited", position |-> at, rows |-> rows, program |-> p]

Entry(command, checkpoint, state) ==
    [command |-> command, checkpoint |-> checkpoint, state |-> state]

-----------------------------------------------------------------------------
BlankWorker ==
    /\ program' = FreshAt(0, <<>>) /\ clean' = TRUE
    /\ edits' = <<>> /\ pending' = <<>>
    /\ position' = 0 /\ lastCheckpoint' = NoFrame

Init ==
    /\ phase = "serving"
    /\ program = FreshAt(0, <<>>) /\ clean = TRUE
    /\ edits = <<>> /\ pending = <<>>
    /\ position = 0 /\ lastCheckpoint = NoFrame
    /\ journal = <<>> /\ reuse = 0
    /\ crashes = 0

Serving == phase = "serving"
Live == program # NoProgram

-----------------------------------------------------------------------------
(* service.rs: previews *)

CanSeek(f) == f <= MaxReplayFrames /\ VisibleCount(edits, f) <= MaxReplayInputs

\* A clean cursor that is not past the target goes on from where it is.
Forward(f) == clean /\ Live /\ program.frame <= f

\* Mutation of Seen: what was staged stays staged.
SeenStillStaged(p) == program' = p /\ UNCHANGED pending

\* A seek shows p; staged inputs are discarded.
Seen(p) == program' = p /\ pending' = <<>>

Seek(f) ==
    /\ Serving /\ CanSeek(f)
    /\ IF Forward(f)
       THEN Seen(Advance(program, edits, f)) /\ UNCHANGED clean
       ELSE Seen(FreshAt(f, edits)) /\ clean' = TRUE
    /\ UNCHANGED <<phase, edits, position, lastCheckpoint, journal, reuse, crashes>>

\* The owner was taken out to go forward and is not put back.
SeekFails(f) ==
    /\ Serving /\ CanSeek(f) /\ Forward(f)
    /\ program' = NoProgram
    /\ UNCHANGED <<phase, clean, edits, pending, position, lastCheckpoint, journal, reuse, crashes>>

\* staged_command counts what the track will hold when the batch is saved.
StagingAdmits ==
    LET count == VisibleCount(edits, program.frame) + Len(pending) + 1
    IN StageInputs => count <= MaxInputs /\ count <= MaxReplayInputs

\* Mutation of Dirty: the preview is still taken for the committed timeline.
DirtyUnnoticed == UNCHANGED clean

Dirty == clean' = FALSE

\* A transient preview event, staged for a later save when so configured.
Event(e) ==
    /\ Serving /\ Live /\ StagingAdmits
    /\ Len(program.done) < VisibleCount(edits, program.frame) + MaxPreview
    /\ Dirty
    /\ program' = [program EXCEPT !.done = Append(@, [frame |-> program.frame, event |-> e])]
    /\ pending' = IF StageInputs
                  THEN Append(pending, InputCommand(program.frame, position + Len(pending), e))
                  ELSE pending
    /\ UNCHANGED <<phase, edits, position, lastCheckpoint, journal, reuse, crashes>>

EventFails ==
    /\ Serving /\ Live /\ StagingAdmits
    /\ Dirty
    /\ program' = NoProgram /\ pending' = <<>>
    /\ UNCHANGED <<phase, edits, position, lastCheckpoint, journal, reuse, crashes>>

-----------------------------------------------------------------------------
(* service.rs and service/pending.rs: commands *)

SavesPending(command) ==
    pending # <<>> /\ command.kind = "seek" /\ Live /\ program.frame = command.frame

\* The worker installs what it recorded; the supervisor merges the segment.
Install(p, rows, entries, checkpointAt) ==
    /\ program' = p /\ edits' = rows
    /\ clean' = TRUE /\ pending' = <<>>
    /\ position' = position + Len(entries)
    /\ lastCheckpoint' = checkpointAt
    /\ journal' = Prefix(journal, position) \o entries /\ reuse' = Len(journal')
    /\ UNCHANGED <<phase, crashes>>

Distance(a, b) == IF a < b THEN b - a ELSE a - b

\* Inputs are always checkpointed, seeks when far from the last checkpoint.
TakesCheckpoint(command) ==
    command.kind = "input" \/ lastCheckpoint = NoFrame
                           \/ Distance(lastCheckpoint, command.frame) >= CheckpointFrames

Record(command) ==
    LET rows == Prepared(command, edits)
        p == FreshAt(command.frame, rows)
        checkpoint == TakesCheckpoint(command)
    IN /\ Serving /\ ~SavesPending(command)
       /\ PrepareAdmits(command, edits, position)
       /\ position < MaxEntries
       /\ Install(p, rows, <<Entry(command, checkpoint, EncodeState(position + 1, rows, p))>>,
                  IF checkpoint THEN command.frame ELSE lastCheckpoint)

\* The track after the first n staged inputs, while none is refused.
Batch[n \in 0 .. Len(pending)] ==
    IF n = 0 THEN [admitted |-> TRUE, rows |-> edits]
    ELSE LET before == Batch[n - 1]
             ok == before.admitted
                   /\ PrepareAdmits(pending[n], before.rows, position + n - 1)
         IN [admitted |-> ok,
             rows |-> IF ok THEN Prepared(pending[n], before.rows) ELSE before.rows]

\* The fresh execution a save re-runs: the committed scene, then n staged inputs.
BatchProgram(f, n) ==
    [frame |-> f, done |-> FreshAt(f, edits).done \o DispatchedRows(Prefix(pending, n))]

\* One segment: the staged inputs, and the seek that carries the checkpoint.
\* The program re-executed must be the one on display.  These are the tests of a
\* save but those for bytes (encode_state, checked), made here and not at staging:
\* one that fails leaves every input staged.
SaveAdmits(f) ==
    LET n == Len(pending)
    IN /\ \A i \in 1 .. n : pending[i].frame = f
       /\ Batch[n].admitted
       /\ VisibleCount(Batch[n].rows, f) <= MaxReplayInputs
       /\ BatchProgram(f, n) = program

Save(f) ==
    LET n == Len(pending)
        State(i, at) == EncodeState(at, Batch[i].rows, BatchProgram(f, i))
        batch == [i \in 1 .. n |-> Entry(pending[i], FALSE, State(i, position + i))]
        seek == Entry(SeekCommand(f), TRUE, State(n, position + n + 1))
    IN /\ Serving /\ SavesPending(SeekCommand(f)) /\ SaveAdmits(f)
       /\ position + n < MaxEntries
       /\ Install(BatchProgram(f, n), Batch[n].rows, Append(batch, seek), f)

-----------------------------------------------------------------------------
(* The worker is lost and its successor recovered: supervisor.rs, recover, *)
(* with service/recovery.rs.                                               *)

Checkpoints == {i \in 1 .. reuse : journal[i].checkpoint}
LastOf(S) == CHOOSE i \in S : \A j \in S : j <= i

\* The worker is lost or replaced.  A crash recovery is to reach the end of the
\* journal, a restart with another command stream what the two share.
Lost ==
    /\ crashes < MaxCrashes
    /\ crashes' = crashes + 1
    /\ BlankWorker
    /\ reuse' \in 0 .. Len(journal)
    /\ phase' = CASE reuse' = 0 -> "serving"
                  [] \E i \in 1 .. reuse' : journal[i].checkpoint -> "restore"
                  [] OTHER -> "replay"
    /\ UNCHANGED journal

Refuse(verdict) == phase' = verdict /\ UNCHANGED <<worker, journal, reuse, crashes>>

\* restore: a checkpoint names a frame and a track; both must reproduce it.
RestoreAdmits(at, state) ==
    LET rows == IF state.kind = "edited" THEN state.rows ELSE <<>>
        f == state.program.frame
    IN /\ state.kind = "edited" => state.position = at /\ Len(rows) <= MaxInputs
       /\ \A i \in 1 .. Len(rows) : rows[i].revision < at
       /\ \A i \in 2 .. Len(rows) : /\ rows[i - 1].frame <= rows[i].frame
                                    /\ rows[i - 1].revision < rows[i].revision
       /\ f <= MaxReplayFrames /\ VisibleCount(rows, f) <= MaxReplayInputs
       /\ EncodeState(at, rows, FreshAt(f, rows)) = state

Restore ==
    LET at == LastOf(Checkpoints)
        state == journal[at].state
    IN /\ phase = "restore"
       /\ IF RestoreAdmits(at, state)
          THEN /\ program' = state.program
               /\ edits' = IF state.kind = "edited" THEN state.rows ELSE <<>>
               /\ pending' = <<>> /\ clean' = TRUE
               /\ position' = at /\ lastCheckpoint' = state.program.frame
               /\ phase' = IF at < reuse THEN "replay" ELSE "serving"
               /\ UNCHANGED <<journal, reuse, crashes>>
          ELSE Refuse("refused")

\* Mutation of AppliedInputs: the cursor's own frame is taken for a cutoff.
AppliedByFrame(run, rows) == VisibleCount(rows, run.program.frame)

\* How much of the track a forward candidate has already run.
AppliedInputs(run, rows) == run.inputs

\* One entry of a replay.  An entry at or after the candidate's frame goes on
\* from it; an earlier one starts afresh.  Both kinds of work are charged.
ReplayStep(run, i) ==
    LET command == journal[i].command
        rows == Prepared(command, run.rows)
        f == command.frame
        inputs == VisibleCount(rows, f)
        forward == run.program # NoProgram /\ run.program.frame <= f
        p == IF forward THEN AdvanceAfterInputs(run.program, rows, f, AppliedInputs(run, rows))
             ELSE FreshAt(f, rows)
    IN [admitted |-> run.admitted /\ PrepareAdmits(command, run.rows, i - 1)
                                  /\ (forward => inputs >= run.inputs),
        frames |-> run.frames + IF forward THEN f - run.program.frame ELSE f,
        work |-> run.work + IF forward THEN inputs - run.inputs ELSE inputs,
        faithful |-> run.faithful /\ EncodeState(i, rows, p) = journal[i].state,
        rows |-> rows, program |-> p, inputs |-> inputs,
        checkpoint |-> IF journal[i].checkpoint THEN f ELSE run.checkpoint]

ReplayStart ==
    [admitted |-> TRUE, frames |-> 0, work |-> 0, faithful |-> TRUE, rows |-> edits,
     program |-> NoProgram, inputs |-> 0, checkpoint |-> lastCheckpoint]

\* The replay of the entries after this worker's position, up to entry i.
ReplayTo[i \in position .. reuse] ==
    IF i = position THEN ReplayStart ELSE ReplayStep(ReplayTo[i - 1], i)

ReplayRun == ReplayTo[reuse]

\* The budgets of work.  The limits of one request, max_replay_hashes entries and
\* max_journal_bytes, are left out: they too refuse before any execution.
Overworked(run) == run.frames > MaxReplayFrames \/ run.work > MaxReplayInputs

Replay ==
    LET run == ReplayRun
    IN /\ phase = "replay"
       /\ CASE ~run.admitted -> Refuse("refused")
            [] run.admitted /\ Overworked(run) -> Refuse("overworked")
            [] run.admitted /\ ~Overworked(run) /\ ~run.faithful -> Refuse("refused")
            [] OTHER ->
                 /\ program' = run.program /\ edits' = run.rows
                 /\ pending' = <<>> /\ clean' = TRUE
                 /\ position' = reuse /\ lastCheckpoint' = run.checkpoint
                 /\ phase' = "serving"
                 /\ UNCHANGED <<journal, reuse, crashes>>

Next ==
    \/ \E f \in Frames : Seek(f) \/ SeekFails(f) \/ Record(SeekCommand(f)) \/ Save(f)
    \/ \E e \in Events : Event(e)
    \/ EventFails
    \/ \E f \in Frames, e \in Events : Record(InputCommand(f, position, e))
    \/ Lost \/ Restore \/ Replay

Spec == Init /\ [][Next]_vars

-----------------------------------------------------------------------------
WorkerTypeOK ==
    /\ phase \in {"serving", "restore", "replay", "refused", "overworked"}
    /\ program \in [frame : Frames, done : Seq(Dispatches)] \cup {NoProgram}
    /\ clean \in BOOLEAN
    /\ edits \in Seq(Inputs) /\ Len(edits) <= MaxInputs
    /\ \A i \in 1 .. Len(pending) : RowOf(pending[i]) \in Inputs
    /\ reuse \in 0 .. Len(journal) /\ position \in 0 .. reuse
    /\ Serving => position = reuse
    /\ lastCheckpoint \in Frames \cup {NoFrame}
    /\ Len(journal) <= MaxEntries
    /\ crashes \in 0 .. MaxCrashes

\* A preview believed clean is the committed timeline executed from frame zero,
\* whatever seeks, failed events, saves and recoveries produced it: going on
\* from it shows what a render of the timeline would.
PreviewIsTheTimeline ==
    clean /\ Live => program = FreshAt(program.frame, edits) /\ pending = <<>>

\* What staged_command let in, save_pending does not turn down for a stale revision,
\* another frame, the event count, the dispatch budget or a re-execution that
\* diverges from the display, whatever was seen or committed in between.  Its
\* budgets of bytes are outside: they may still refuse the save, and leave the inputs staged.
PendingIsAdmissible ==
    Serving /\ pending # <<>> /\ Live => SaveAdmits(program.frame)

\* A worker's own journal, interrupted anywhere, recovers in another worker:
\* only a budget (of work, entries or bytes) can stand in the way, never a
\* checkpoint, a revision, a branch or a hash.
OwnJournalReplays == phase # "refused"

\* The inputs among the first n entries of the journal that no later one of them,
\* committed at an earlier frame, has abandoned.
Branch(n) ==
    LET IsInput(i) == journal[i].command.kind = "input"
    IN {i \in 1 .. n : /\ IsInput(i)
                       /\ \A k \in i + 1 .. n :
                            IsInput(k) => journal[k].command.frame >= journal[i].command.frame}

\* The m-th of a set of numbers.
Nth(S, m) == CHOOSE i \in S : Cardinality({k \in S : k <= i}) = m

Version(n) ==
    IF Serving /\ n = reuse THEN DispatchedRows(edits)
    ELSE [m \in 1 .. Cardinality(Branch(n)) |-> Dispatched(journal[Nth(Branch(n), m)].command)]

Versions == [n \in 1 .. Len(journal) + 1 |-> Version(n - 1)]

Timeline == INSTANCE EditTimeline WITH versions <- Versions, open <- reuse + 1

\* The served worker's track is that of the commands it stands for: commits,
\* whole batches, lost workers, restored checkpoints and replays of any part of
\* the journal leave the versions of one timeline.
ImplementsTimeline == Timeline!Spec

=============================================================================
