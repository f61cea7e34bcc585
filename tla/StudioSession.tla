--------------------------- MODULE StudioSession ---------------------------
(***************************************************************************)
(* The stable half of the Studio and its disposable worker                 *)
(* (crates/fmn-studio/src): the Supervisor of supervisor.rs and            *)
(* supervisor/session.rs, the StudioWorkerSession of host.rs and           *)
(* host/input.rs, and the worker process as they see it.                   *)
(*                                                                         *)
(* One host operation runs at a time (the operations mutex), as a series   *)
(* of exchanges with the worker; at each of them the worker may answer,    *)
(* refuse, panic, or be lost with its answer.  Between operations clients  *)
(* keep what they inspected.  A worker is the scene it has built: the      *)
(* source it was compiled from and the commands it executed, in order.     *)
(* A command is the frame it commits; edits are commands guarded by a      *)
(* worker generation and a journal revision, the others are seeks.  That a *)
(* worker re-executing its own journal reproduces the recorded hashes is   *)
(* what NativeWorker checks; here it does, unless the sources differ.      *)
(***************************************************************************)
EXTENDS Integers, Sequences, FiniteSets

CONSTANTS
    Hosts,          \* front doors: "live", "bundle", "project", "capture"
    Seeks,          \* frames an unguarded seek commits
    Edits,          \* frames at which guarded inputs and advances commit
    Sources,        \* versions of the authored scene
    JournalLimit,   \* protocol_limits.max_journal_bytes, in entries
    MaxEdits,       \* bound: times the source on disk changes
    MaxTroubles     \* bound: faults, restarts and resumed hosts together

ASSUME HostsAssumption == Hosts \subseteq {"live", "bundle", "project", "capture"}
ASSUME FramesAssumption ==
    0 \in Seeks /\ Seeks \subseteq Nat /\ Edits \subseteq Nat /\ Seeks \cap Edits = {}
ASSUME SourcesAssumption == Sources # {} /\ Sources \subseteq Nat
ASSUME BoundsAssumption == JournalLimit \in Nat \ {0} /\ MaxEdits \in Nat /\ MaxTroubles \in Nat

VARIABLES
    host,           \* which front door runs
    disk,           \* the source a build or a bundle read would find
    artifact,       \* Supervisor::artifact, by the source it was built from
    candidate,      \* the artifact being launched
    worker,         \* Supervisor::worker and the process behind it
    generation,     \* Supervisor::generation
    journal,        \* Supervisor::journal with its checkpoint table
    committed,      \* StudioWorkerSession::committed_frame
    op,             \* the operation that holds the mutex
    step,           \* its next exchange
    crashing,       \* request is inside recover_from_crash
    incoming,       \* the commands recover was given, then those left to re-execute
    reuse,          \* ReplayPlan::reuse
    token,          \* what a client last inspected
    saved,          \* the session last exported
    result,         \* what the last operation returned
    acked,          \* history: the commands committed, executed and recorded
    edits, troubles \* history: the bounds' counters

operation == <<op, step, crashing, incoming, reuse, candidate>>
scene == <<journal, committed, acked>>
process == <<worker, artifact, generation>>
environment == <<host, disk, edits>>
vars == <<environment, process, scene, operation, token, saved, result, troubles>>

Commands == Seeks \cup Edits
Nothing == [kind |-> "none"]
Operations == {"none", "seek", "edit", "preview", "inspect", "restart", "resume"}
Steps == {"idle", "play", "show", "look", "rebuild", "launch", "plan", "restore", "replay",
          "relaunch", "coldreplay", "recovered", "reexecute", "down"}

Histories == UNION {[1 .. n -> Commands] : n \in 0 .. JournalLimit + 1}
Entries == [command : Commands, source : Sources, checkpoint : BOOLEAN]
CommandsOf(j) == [i \in 1 .. Len(j) |-> j[i].command]
Prefix(s, n) == SubSeq(s, 1, n)

\* asset_ok compares digests; the project and capture hosts pass |_| false.
Attested == host \in {"live", "bundle"}
AutoRestart == host # "capture"

\* What a launched process runs.  The self-exec hosts read their bundle when
\* the process starts; a project image and a capture are private copies.
SourceOf(a) == IF Attested THEN disk ELSE a

Fresh(source) == [alive |-> TRUE, source |-> source, history |-> <<>>, failed |-> FALSE]
Position == Len(worker.history)

\* A native worker counts journal entries, a live capture its own edits.
EditsIn(history) == {i \in 1 .. Len(history) : history[i] \in Edits}
RevisionOf(history) ==
    IF host = "capture" THEN Cardinality(EditsIn(history)) ELSE Len(history)
Revision == RevisionOf(worker.history)

SessionTypeOK ==
    /\ host \in Hosts /\ disk \in Sources /\ artifact \in Sources /\ candidate \in Sources
    /\ worker \in [alive : BOOLEAN, source : Sources, history : Histories, failed : BOOLEAN]
    /\ generation \in Nat
    /\ journal \in Seq(Entries) /\ Len(journal) <= JournalLimit
    /\ committed \in Commands
    /\ op.kind \in Operations /\ step \in Steps /\ crashing \in BOOLEAN
    /\ (op.kind = "none") = (step \in {"idle", "down"})
    /\ incoming \in Histories /\ reuse \in 0 .. Len(journal)
    /\ (step \in {"replay", "coldreplay"} => worker.alive /\ Position <= reuse)

\* A started host: a fresh worker, no entries.  The project host has already
\* committed a seek to frame 0.
Init ==
    /\ host \in Hosts
    /\ disk \in Sources /\ artifact = disk /\ candidate = disk
    /\ LET opening == IF host = "project" THEN <<0>> ELSE <<>>
       IN /\ worker = [Fresh(disk) EXCEPT !.history = opening]
          /\ journal = [i \in 1 .. Len(opening) |->
                           [command |-> 0, source |-> disk, checkpoint |-> TRUE]]
          /\ acked = opening
    /\ generation = 1 /\ committed = 0
    /\ op = Nothing /\ step = "idle" /\ crashing = FALSE
    /\ incoming = <<>> /\ reuse = 0
    /\ token = Nothing /\ saved = Nothing
    /\ result = "ok"
    /\ edits = 0 /\ troubles = 0

-----------------------------------------------------------------------------
(* The end of an operation, and the ways an exchange goes wrong. *)

Goto(s) == step' = s /\ UNCHANGED <<op, crashing, incoming, reuse, candidate>>

Return(outcome) ==
    /\ op' = Nothing /\ crashing' = FALSE /\ incoming' = <<>> /\ reuse' = 0
    /\ UNCHANGED candidate
    /\ result' = outcome
    /\ step' = IF op.kind = "resume" /\ outcome = "error" THEN "down" ELSE "idle"

Trouble == troubles < MaxTroubles /\ troubles' = troubles + 1

\* The process is gone: it panicked, exited, or its channel was stopped by a
\* timeout.  A dead channel answers Closed to every later exchange.
Lost ==
    \/ ~worker.alive /\ UNCHANGED <<worker, troubles>>
    \/ worker.alive /\ Trouble /\ worker' = [worker EXCEPT !.alive = FALSE]

\* Inside recover and rebuild there is no second recovery.
Abort == Return("error") /\ UNCHANGED <<environment, artifact, generation, scene, token, saved>>

\* Supervisor::request finds the worker crashed or unreachable.
RequestCrashes ==
    /\ Lost
    /\ IF AutoRestart
       THEN /\ crashing' = TRUE /\ step' = "launch" /\ candidate' = artifact
            /\ UNCHANGED <<op, incoming, reuse, result>>
       ELSE Return("error")
    /\ UNCHANGED <<environment, artifact, generation, scene, token, saved>>

-----------------------------------------------------------------------------
(* Operations begin when the mutex is free. *)

Idle == step = "idle"
Untouched == UNCHANGED <<environment, process, scene, token, saved, troubles>>

Begin(kind, command, first) ==
    /\ Idle
    /\ op' = [kind |-> kind, command |-> command]
    /\ step' = first
    /\ UNCHANGED <<crashing, incoming, reuse, candidate, result>>

\* commit_seek.  Clients stop once the worker is past the journal's budget.
BeginSeek(c) == Begin("seek", c, "play") /\ Position <= JournalLimit /\ Untouched

\* Mutation of Admits: only the revision is compared.
AdmitsAnyGeneration(t) == t.kind = "token"

\* The generation is compared under the lock that dispatches the command.
Admits(t) == t.kind = "token" /\ t.generation = generation

\* guarded_event and guarded_advance; a bundle's worker has no inputs.
BeginEdit(c) ==
    /\ host # "bundle"
    /\ Admits(token)
    /\ Begin("edit", c, "play") /\ Position <= JournalLimit /\ Untouched

\* A scrub without commit, and inspect_generation.
BeginLook(kind) == Begin(kind, 0, "look") /\ Untouched

\* The stream a restart re-executes is cloned before anything is rebuilt.
BeginRestart ==
    /\ Idle /\ Trouble
    /\ op' = [kind |-> "restart", command |-> 0] /\ step' = "rebuild"
    /\ incoming' = IF host = "capture" THEN <<>> ELSE CommandsOf(journal)
    /\ UNCHANGED <<environment, process, scene, token, saved, crashing, reuse, candidate, result>>

\* plan_replay: the longest prefix of the journal that may be trusted.
Plan(stream) ==
    LET Matches(i) == /\ i <= Len(stream) /\ journal[i].command = stream[i]
                      /\ Attested /\ journal[i].source = disk
    IN CHOOSE n \in 0 .. Len(journal) :
          /\ \A i \in 1 .. n : Matches(i)
          /\ n < Len(journal) => ~Matches(n + 1)

\* save_session, offered by the live host alone: only a wholly replayable
\* journal leaves, and no position without one.
SaveSession ==
    /\ Idle /\ host = "live"
    /\ Plan(CommandsOf(journal)) = Len(journal)
    /\ journal = <<>> => committed = 0
    /\ saved' = [kind |-> "saved", journal |-> journal, committed |-> committed]
    /\ UNCHANGED <<environment, process, scene, operation, token, result, troubles>>

\* The host exits, crashing or not, and another resumes what was exported.
Resume ==
    /\ step \in {"idle", "down"} /\ saved.kind = "saved" /\ Trouble
    /\ op' = [kind |-> "resume", command |-> 0] /\ step' = "rebuild"
    /\ incoming' = CommandsOf(saved.journal) /\ reuse' = 0 /\ crashing' = FALSE
    /\ worker' = [worker EXCEPT !.alive = FALSE] /\ generation' = 0
    /\ journal' = saved.journal /\ acked' = CommandsOf(saved.journal)
    /\ token' = Nothing
    /\ UNCHANGED <<environment, artifact, committed, candidate, saved, result>>

-----------------------------------------------------------------------------
(* rebuild_and_restart, recover_from_crash and recover. *)

\* A refused build returns before anything changed.
RebuildFails == step = "rebuild" /\ Trouble /\ Abort /\ UNCHANGED worker

Rebuild ==
    /\ step = "rebuild"
    /\ candidate' = disk /\ step' = "launch"
    /\ UNCHANGED <<environment, process, scene, op, crashing, incoming, reuse, token, saved,
                   result, troubles>>

\* launch_and_handshake: the old worker is stopped only now.
Install(next) ==
    /\ worker' = Fresh(SourceOf(candidate))
    /\ artifact' = candidate
    /\ generation' = generation + 1
    /\ step' = next
    /\ UNCHANGED <<environment, scene, op, crashing, reuse, candidate, token, saved, result,
                   troubles>>

\* Mutation of CrashStream: recovery is asked for nothing.
EmptyStream == <<>>

CrashStream == CommandsOf(journal)

Launch ==
    /\ step = "launch"
    /\ incoming' = IF crashing THEN CrashStream ELSE incoming
    /\ Install("plan")

\* Spawn, handshake or first frame fails: the worker in place stays.
LaunchFails == step \in {"launch", "relaunch"} /\ Trouble /\ Abort /\ UNCHANGED worker

\* The last checkpoint below n, as the number of entries it stands for.
Checkpoint(n) ==
    CHOOSE k \in 0 .. n : /\ k = 0 \/ journal[k].checkpoint
                          /\ \A i \in k + 1 .. n : ~journal[i].checkpoint

PlanReplay ==
    /\ step = "plan"
    /\ reuse' = Plan(incoming)
    /\ step' = CASE reuse' = 0 -> "recovered"
                 [] Checkpoint(reuse') = 0 -> "replay"
                 [] OTHER -> "restore"
    /\ UNCHANGED <<environment, process, scene, op, crashing, incoming, candidate, token, saved,
                   result, troubles>>

RestoreOrReplay(to, next) ==
    /\ worker' = [worker EXCEPT !.history = Prefix(CommandsOf(journal), to)]
    /\ Goto(next)
    /\ UNCHANGED <<environment, artifact, generation, scene, token, saved, result>>

SameSource(from, to) == \A i \in from + 1 .. to : journal[i].source = worker.source

\* RestoreCheckpoint, acknowledged with the exact hash and position.
Restore ==
    LET to == Checkpoint(reuse)
    IN /\ step = "restore" /\ worker.alive /\ journal[to].source = worker.source
       /\ RestoreOrReplay(to, IF to < reuse THEN "replay" ELSE "recovered")
       /\ UNCHANGED troubles

\* replay_range; the worker verifies each hash, and so does the audit.
Replay ==
    /\ step \in {"replay", "coldreplay"} /\ worker.alive /\ SameSource(Position, reuse)
    /\ RestoreOrReplay(reuse, "recovered")
    /\ UNCHANGED troubles

\* A bundle worker answers with the hashes it computed: one that differs
\* flips the audit.
ReplayDiverges ==
    /\ step = "replay" /\ host = "bundle" /\ worker.alive /\ SameSource(Position, reuse)
    /\ Trouble
    /\ RestoreOrReplay(reuse, "relaunch")

ColdFallback == step = "relaunch" /\ Install("coldreplay") /\ UNCHANGED incoming

\* The worker cannot reproduce the entries: recovery ends where it got to,
\* with the new worker in place.
RecoveryRefused ==
    /\ \/ step = "restore" /\ journal[Checkpoint(reuse)].source # worker.source
       \/ step \in {"replay", "coldreplay"} /\ ~SameSource(Position, reuse)
    /\ worker.alive /\ Abort /\ UNCHANGED <<worker, troubles>>

RecoveryLost == step \in {"restore", "replay", "coldreplay"} /\ Lost /\ Abort

\* The request that met the crash is answered WorkerRecovered.
CrashRecovered ==
    /\ step = "recovered" /\ crashing
    /\ Return("error")
    /\ UNCHANGED <<environment, process, scene, token, saved, troubles>>

\* A capture reload forgets the commands of the execution it replaces.
RestartRecovered ==
    /\ step = "recovered" /\ op.kind = "restart" /\ ~crashing
    /\ incoming' = SubSeq(incoming, reuse + 1, Len(incoming))
    /\ step' = "reexecute" /\ reuse' = 0
    /\ IF host = "capture" THEN journal' = <<>> /\ acked' = <<>> ELSE UNCHANGED <<journal, acked>>
    /\ UNCHANGED <<environment, process, committed, op, crashing, candidate, token, saved,
                   result, troubles>>

\* resume_saved_session accepts nothing short of a full replay.
ResumeRecovered ==
    /\ step = "recovered" /\ op.kind = "resume" /\ ~crashing
    /\ IF reuse = Len(incoming)
       THEN committed' = saved.committed /\ Return("ok") /\ UNCHANGED worker
       ELSE /\ Return("error") /\ worker' = [worker EXCEPT !.alive = FALSE]
            /\ UNCHANGED committed
    /\ UNCHANGED <<environment, artifact, generation, journal, acked, token, saved, troubles>>

-----------------------------------------------------------------------------
(* Commands: a Play exchange, the merge of its segment, and a Scrub. *)

Playing == step \in {"play", "reexecute"} /\ (step = "play" \/ incoming # <<>>)
Played == IF step = "play" THEN op.command ELSE Head(incoming)

\* Guarded commands carry a revision; the worker compares it with its own.  A
\* capture takes no edit once authored code failed in one.
RevisionFits == op.kind = "edit" => token.revision = Revision /\ ~worker.failed

\* The worker's entry: inputs are always checkpointed, seeks when far apart.
Executed(c) == [command |-> c, source |-> worker.source,
                checkpoint |-> c \in Edits \/ worker.history = <<>>]

Executes(c) == worker' = [worker EXCEPT !.history = Append(@, c)]

\* Mutation of Merged: a segment is appended wherever it starts.
MergedAtTheEnd(start, entry) == Append(journal, entry)

\* merge_journal_segment keeps what precedes the segment.
Merged(start, entry) == Append(Prefix(journal, start), entry)

\* Mutation of Admissible: the journal's budget is not enforced.
AdmissibleAtAnySize(start) == start <= Len(journal)

Admissible(start) == start <= Len(journal) /\ start < JournalLimit

Commit ==
    /\ step = "play" /\ worker.alive /\ RevisionFits /\ Admissible(Position)
    /\ Executes(op.command)
    /\ journal' = Merged(Position, Executed(op.command))
    /\ committed' = op.command
    /\ acked' = Append(acked, op.command)
    /\ Goto("show")
    /\ UNCHANGED <<environment, artifact, generation, token, saved, result, troubles>>

\* Restart plays a command the plan could not reuse.
Reexecute ==
    /\ step = "reexecute" /\ incoming # <<>> /\ worker.alive /\ Admissible(Position)
    /\ Executes(Head(incoming))
    /\ journal' = Merged(Position, Executed(Head(incoming)))
    /\ incoming' = Tail(incoming)
    /\ UNCHANGED <<environment, artifact, generation, committed, acked, op, step, crashing,
                   reuse, candidate, token, saved, result, troubles>>

\* Mutation of MergeRefused: the position is stored before the segment is merged.
MergeRefusedAfterStore ==
    /\ Playing /\ worker.alive /\ RevisionFits /\ ~Admissible(Position)
    /\ Executes(Played)
    /\ Return("error") /\ committed' = Played
    /\ UNCHANGED <<environment, artifact, generation, journal, acked, token, saved, troubles>>

\* The worker has executed the command; the supervisor cannot record it.
MergeRefused ==
    /\ Playing /\ worker.alive /\ RevisionFits /\ ~Admissible(Position)
    /\ Executes(Played)
    /\ Return("error")
    /\ UNCHANGED <<environment, artifact, generation, scene, token, saved, troubles>>

\* A stale revision, a capture that shows another frame than its last, or a
\* command refused: nothing was executed.
PlayRefused ==
    /\ Playing /\ worker.alive
    /\ \/ RevisionFits /\ Trouble
       \/ ~RevisionFits /\ UNCHANGED troubles
       \/ host = "capture" /\ op.kind = "edit" /\ UNCHANGED troubles
    /\ Abort /\ UNCHANGED worker

\* The effects of an edit that fails half-way in a capture cannot be undone.
CaptureFails ==
    /\ step = "play" /\ host = "capture" /\ op.kind = "edit"
    /\ worker.alive /\ RevisionFits /\ Trouble
    /\ worker' = [worker EXCEPT !.failed = TRUE]
    /\ Abort

\* An exchange that changes nothing in the worker and may be refused.
Shown(outcome) ==
    /\ worker.alive
    /\ Return(outcome)
    /\ UNCHANGED <<environment, process, journal, acked, saved>>

Show ==
    /\ step = "show" /\ Shown("ok")
    /\ UNCHANGED <<committed, token, troubles>>

Look ==
    /\ step = "look" /\ Shown("ok")
    /\ token' = IF op.kind = "inspect"
                THEN [kind |-> "token", generation |-> generation, revision |-> Revision,
                      source |-> worker.source, history |-> worker.history]
                ELSE token
    /\ UNCHANGED <<committed, troubles>>

\* The restarted scene is shown at the committed frame.
Reshow ==
    /\ step = "reexecute" /\ incoming = <<>> /\ Shown("ok")
    /\ committed' = IF host = "capture" THEN 0 ELSE committed
    /\ UNCHANGED <<token, troubles>>

ShowRefused ==
    /\ \/ step \in {"show", "look"}
       \/ step = "reexecute" /\ incoming = <<>>
    /\ Trouble
    /\ Shown("error")
    /\ UNCHANGED <<committed, token>>

RequestLost == step \in {"play", "reexecute", "show", "look"} /\ RequestCrashes

\* The author saves another version of the scene.
EditSource ==
    /\ host # "live" /\ edits < MaxEdits
    /\ edits' = edits + 1
    /\ disk' \in Sources \ {disk}
    /\ UNCHANGED <<host, process, scene, operation, token, saved, result, troubles>>

Next ==
    \/ \E c \in Seeks : BeginSeek(c)
    \/ \E c \in Edits : BeginEdit(c)
    \/ \E kind \in {"preview", "inspect"} : BeginLook(kind)
    \/ BeginRestart \/ SaveSession \/ Resume
    \/ RebuildFails \/ Rebuild \/ Launch \/ LaunchFails \/ PlanReplay \/ Restore \/ Replay
    \/ ReplayDiverges \/ ColdFallback \/ RecoveryRefused \/ RecoveryLost
    \/ CrashRecovered \/ RestartRecovered \/ ResumeRecovered
    \/ Commit \/ Reexecute \/ MergeRefused \/ PlayRefused \/ CaptureFails \/ Show \/ Look \/ Reshow
    \/ ShowRefused \/ RequestLost
    \/ EditSource

Spec == Init /\ [][Next]_vars

-----------------------------------------------------------------------------
(* What the session promises. *)

\* Whenever the journal changes, what it then holds is exactly what the running
\* worker executed, all of it under one source: a segment merged after a crash,
\* a refused recovery, a divergence or a failed merge never splices two runs.
JournalIsOneExecution ==
    [][journal' # journal /\ op.kind # "none" =>
          /\ CommandsOf(journal') = worker'.history
          /\ \A i \in 1 .. Len(journal') : journal'[i].source = worker'.source]_vars

\* A guarded edit runs on the scene its client inspected, source and history,
\* however many crashes, restarts and other commits came between: neither the
\* generation nor the revision alone would tell.  (Seeks, which leave the live
\* scene of a capture alone, are all that it may have executed since.)
EditsMeetTheSceneInspected ==
    step = "play" /\ op.kind = "edit" /\ worker.alive /\ RevisionFits =>
        /\ token.source = worker.source
        /\ Len(token.history) <= Position
        /\ \A i \in 1 .. Position :
              IF i <= Len(token.history) THEN worker.history[i] = token.history[i]
                                         ELSE host = "capture" /\ worker.history[i] \notin Edits

\* While the reads of the journal still verify, no crash, restart or refused
\* step loses a commit that was acknowledged, wherever it strikes.
AttestedCommitsSurvive ==
    Attested /\ edits = 0 => CommandsOf(journal) = acked

\* An exported session is one a new host can resume: unless something fails
\* during the resume itself, it ends with the saved commands re-established and
\* the position of the last of them.
SavedSessionsResume ==
    [][op.kind = "resume" =>
          /\ step' = "down" => troubles' > troubles
          /\ step' = "idle" =>
                /\ worker'.history = CommandsOf(saved.journal)
                /\ committed' = IF journal' = <<>> THEN 0 ELSE journal'[Len(journal')].command
      ]_vars

IsEdit(c) == c \in Edits
EditsOf(history) == SelectSeq(history, IsEdit)

\* docs/NATIVE_PROJECT_STUDIO.md: Restart "restores the committed scene via the
\* existing journal".  A Restart that reports success has every edit that was
\* committed.
RestartRestoresTheScene ==
    [][op.kind = "restart" /\ op'.kind = "none" /\ result' = "ok" =>
          EditsOf(CommandsOf(journal')) = EditsOf(acked')]_vars

=============================================================================
