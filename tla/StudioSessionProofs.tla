------------------------ MODULE StudioSessionProofs -------------------------
(***************************************************************************)
(* What StudioSession promises for every set of hosts, frames and sources, *)
(* every journal limit and any number of faults, restarts and edits of the *)
(* source: whose commands a journal holds, which scene an edit meets, what *)
(* a recovery and a resumed session re-establish.                          *)
(***************************************************************************)
EXTENDS StudioSession, SequenceTheorems, FiniteSetTheorems, WellFoundedInduction, TLAPS

----------------------------------------------------------------------------
\* Journals and histories

Journals == {j \in Seq(Entries) : Len(j) <= JournalLimit}

Tokens == [kind : {"token"}, generation : Nat, revision : Nat,
           source : Sources, history : Histories]
Exports == [kind : {"saved"}, journal : Journals, committed : Commands]
Requests == [kind : Operations \ {"none"}, command : Commands]

\* A nonempty set of naturals has a least element.
LEMMA LeastNatural ==
    ASSUME NEW T, T \subseteq Nat, T # {}
    PROVE  \E x \in T : \A y \in T : x <= y
<1> DEFINE Less == {p \in Nat \X Nat : p[1] < p[2]}
<1>1. IsWellFoundedOn(Less, Nat)
    BY NatLessThanWellFounded DEF OpToRel
<1>2. PICK x \in T : \A y \in T : ~(<<y, x>> \in Less)
    <2> HIDE DEF Less
    <2> QED  BY <1>1, WFMin
<1>3. \A y \in T : x <= y
    <2> TAKE y \in T
    <2>1. x \in Nat /\ y \in Nat
        OBVIOUS
    <2>2. ~(y < x)
        <3> SUFFICES ASSUME y < x PROVE FALSE
            OBVIOUS
        <3>1. <<y, x>> \in Less
            BY <2>1
        <3> QED  BY <3>1, <1>2
    <2> QED  BY <2>1, <2>2
<1>4. QED
    BY <1>3

\* Histories are sequences of commands, no longer than the limit and one more.
LEMMA HistoryIs ==
    ASSUME NEW h
    PROVE  h \in Histories <=> h \in Seq(Commands) /\ Len(h) <= JournalLimit + 1
<1>1. JournalLimit \in Nat
    BY BoundsAssumption
<1>2. ASSUME h \in Histories
      PROVE  h \in Seq(Commands) /\ Len(h) <= JournalLimit + 1
    <2>1. PICK n \in 0 .. JournalLimit + 1 : h \in [1 .. n -> Commands]
        BY <1>2 DEF Histories
    <2>2. n \in Nat /\ n <= JournalLimit + 1
        BY <1>1, <2>1
    <2> QED  BY <2>1, <2>2
<1>3. ASSUME h \in Seq(Commands), Len(h) <= JournalLimit + 1
      PROVE  h \in Histories
    <2>1. Len(h) \in 0 .. JournalLimit + 1 /\ h \in [1 .. Len(h) -> Commands]
        BY <1>1, <1>3
    <2> QED  BY <2>1 DEF Histories
<1>4. QED
    BY <1>2, <1>3

\* The commands of a journal.
LEMMA CommandsAre ==
    ASSUME NEW j \in Seq(Entries)
    PROVE  /\ CommandsOf(j) \in Seq(Commands) /\ Len(CommandsOf(j)) = Len(j)
           /\ \A i \in 1 .. Len(j) : CommandsOf(j)[i] = j[i].command
<1>1. ASSUME NEW i \in 1 .. Len(j)
      PROVE  j[i].command \in Commands
    <2>1. j[i] \in Entries
        BY ElementOfSeq
    <2> QED  BY <2>1 DEF Entries
<1>2. CommandsOf(j) \in [1 .. Len(j) -> Commands]
    BY <1>1 DEF CommandsOf
<1>3. Len(j) \in Nat
    OBVIOUS
<1>4. QED
    BY <1>2, <1>3 DEF CommandsOf

\* A prefix of a sequence.
LEMMA PrefixIs ==
    ASSUME NEW S, NEW s \in Seq(S), NEW n \in 0 .. Len(s)
    PROVE  /\ Prefix(s, n) \in Seq(S) /\ Len(Prefix(s, n)) = n
           /\ \A i \in 1 .. n : Prefix(s, n)[i] = s[i]
<1>1. QED
    BY DEF Prefix

\* plan_replay reuses entries as long as they are the commands asked for, read
\* from the source on the disk by a host that can tell, and no further.
LEMMA PlanIs ==
    ASSUME NEW stream, journal \in Seq(Entries)
    PROVE  /\ Plan(stream) \in 0 .. Len(journal)
           /\ \A i \in 1 .. Plan(stream) :
                 /\ i <= Len(stream) /\ journal[i].command = stream[i]
                 /\ Attested /\ journal[i].source = disk
           /\ Plan(stream) < Len(journal) =>
                 LET i == Plan(stream) + 1
                 IN ~/\ i <= Len(stream) /\ journal[i].command = stream[i]
                     /\ Attested /\ journal[i].source = disk
<1> DEFINE Matches(i) == /\ i <= Len(stream) /\ journal[i].command = stream[i]
                         /\ Attested /\ journal[i].source = disk
           Ends == {n \in 0 .. Len(journal) : n < Len(journal) => ~Matches(n + 1)}
<1>0. Len(journal) \in Nat
    OBVIOUS
<1> HIDE DEF Matches
<1>1. Len(journal) \in Ends
    BY <1>0
<1>2. Ends \subseteq Nat /\ Ends # {}
    BY <1>0, <1>1
<1>3. PICK n \in Ends : \A m \in Ends : n <= m
    <2> HIDE DEF Ends
    <2> QED  BY <1>2, LeastNatural
<1>4. ASSUME NEW i \in 1 .. n
      PROVE  Matches(i)
    <2>1. n \in 0 .. Len(journal) /\ n \in Nat
        BY <1>0, <1>3
    <2>2. i - 1 \in 0 .. Len(journal) /\ i - 1 < Len(journal) /\ ~(n <= i - 1)
          /\ (i - 1) + 1 = i
        BY <1>0, <2>1
    <2>3. i - 1 \notin Ends
        BY <1>3, <2>2
    <2> QED  BY <2>2, <2>3
<1>5. /\ n \in 0 .. Len(journal) /\ \A i \in 1 .. n : Matches(i)
      /\ n < Len(journal) => ~Matches(n + 1)
    BY <1>3, <1>4
<1>6. /\ Plan(stream) \in 0 .. Len(journal) /\ \A i \in 1 .. Plan(stream) : Matches(i)
      /\ Plan(stream) < Len(journal) => ~Matches(Plan(stream) + 1)
    BY <1>5 DEF Plan, Matches
<1>7. QED
    BY <1>6 DEF Matches

\* A host that attests, asked for the journal's own commands, reuses all of it
\* when the disk is the source of all of it; one that does not reuses nothing.
LEMMA PlanOfTheJournal ==
    ASSUME journal \in Seq(Entries)
    PROVE  /\ Attested /\ (\A i \in 1 .. Len(journal) : journal[i].source = disk) =>
                 Plan(CommandsOf(journal)) = Len(journal)
           /\ ~Attested => \A stream : Plan(stream) = 0
<1>0. Len(journal) \in Nat
    OBVIOUS
<1>1. ASSUME Attested, \A i \in 1 .. Len(journal) : journal[i].source = disk
      PROVE  Plan(CommandsOf(journal)) = Len(journal)
    <2> DEFINE n == Plan(CommandsOf(journal))
    <2>1. /\ n \in 0 .. Len(journal)
          /\ n < Len(journal) =>
                ~/\ n + 1 <= Len(CommandsOf(journal))
                 /\ journal[n + 1].command = CommandsOf(journal)[n + 1]
                 /\ Attested /\ journal[n + 1].source = disk
        BY PlanIs
    <2> HIDE DEF n
    <2>2. n < Len(journal) => n + 1 \in 1 .. Len(journal)
        BY <1>0, <2>1
    <2>3. ~(n < Len(journal))
        BY <1>0, <1>1, <2>1, <2>2, CommandsAre
    <2> QED  BY <1>0, <2>1, <2>3 DEF n
<1>2. ASSUME ~Attested, NEW stream
      PROVE  Plan(stream) = 0
    <2> DEFINE n == Plan(stream)
    <2>1. n \in 0 .. Len(journal) /\ \A i \in 1 .. n : Attested
        BY PlanIs
    <2> HIDE DEF n
    <2>2. n \in Nat /\ 1 \notin 1 .. n
        BY <1>0, <1>2, <2>1
    <2> QED  BY <2>2 DEF n
<1>3. QED
    BY <1>1, <1>2

\* The checkpoint a recovery restores is one of the first n entries, or none.
LEMMA CheckpointIs ==
    ASSUME NEW n \in Nat
    PROVE  Checkpoint(n) \in 0 .. n
<1> DEFINE Taken(k) == k = 0 \/ journal[k].checkpoint
           Back == {m \in 0 .. n : Taken(n - m)}
<1>1. n \in Back /\ Back \subseteq Nat
    OBVIOUS
<1>2. PICK m \in Back : \A l \in Back : m <= l
    <2> HIDE DEF Back
    <2> QED  BY <1>1, LeastNatural
<1> DEFINE k == n - m
<1>3. k \in 0 .. n /\ Taken(k)
    BY <1>2
<1>4. ASSUME NEW i \in k + 1 .. n
      PROVE  ~journal[i].checkpoint
    <2>1. m \in 0 .. n
        BY <1>2
    <2>2. n - i \in 0 .. n /\ ~(m <= n - i) /\ n - (n - i) = i
        BY <2>1
    <2>3. n - i \notin Back
        BY <1>2, <2>2
    <2> QED  BY <2>2, <2>3
<1>5. \E c \in 0 .. n : /\ c = 0 \/ journal[c].checkpoint
                        /\ \A i \in c + 1 .. n : ~journal[i].checkpoint
    BY <1>3, <1>4
<1>6. QED
    BY <1>5 DEF Checkpoint

----------------------------------------------------------------------------
\* The inductive invariant

Typing ==
    /\ host \in Hosts /\ disk \in Sources /\ artifact \in Sources /\ candidate \in Sources
    /\ worker \in [alive : BOOLEAN, source : Sources, history : Histories, failed : BOOLEAN]
    /\ generation \in Nat
    /\ journal \in Journals /\ acked \in Seq(Commands)
    /\ committed \in Commands
    /\ op \in Requests \cup {Nothing} /\ step \in Steps /\ crashing \in BOOLEAN
    /\ incoming \in Histories /\ reuse \in 0 .. Len(journal)
    /\ token \in Tokens \cup {Nothing}
    /\ saved \in Exports \cup {Nothing}
    /\ edits \in Nat /\ troubles \in Nat

\* The steps of recover, after the new worker has been installed.
Recovering == {"plan", "restore", "replay", "relaunch", "coldreplay", "recovered"}

\* Which operations the exchanges belong to.
Exchanges ==
    /\ step \in {"idle", "down"} => op = Nothing
    /\ step \in {"play", "show"} => op.kind \in {"seek", "edit"}
    /\ step = "look" => op.kind \in {"preview", "inspect"}
    /\ step = "reexecute" => op.kind = "restart"
    /\ step = "rebuild" => op.kind \in {"restart", "resume"}
    /\ step \in Recovering \cup {"launch"} =>
          op.kind \in IF crashing THEN {"seek", "edit", "preview", "inspect", "restart"}
                                  ELSE {"restart", "resume"}
    /\ crashing => step \in Recovering \cup {"launch"} /\ host # "capture"
    /\ step \in {"idle", "down", "play", "show", "look", "rebuild", "launch", "plan", "reexecute"}
          => reuse = 0
    /\ host = "capture" => reuse = 0
    /\ step \in {"play", "reexecute"} => Position <= JournalLimit

\* How far the new worker has got at each step of recover.
Recovery ==
    /\ step \in Recovering => worker.alive
    /\ step \in {"plan", "restore", "coldreplay"} => worker.history = <<>>
    /\ step = "restore" => reuse > 0 /\ Checkpoint(reuse) > 0
    /\ step = "replay" => Position <= reuse
    /\ step \in {"relaunch", "recovered"} => Position = reuse

\* What recover was asked to re-establish.
Asked ==
    (step = "rebuild" \/ (step = "launch" /\ ~crashing) \/ step \in Recovering) =>
        incoming = IF host = "capture" THEN <<>> ELSE CommandsOf(journal)

\* A journal is one source's.
OneSource(j) == \A i, k \in 1 .. Len(j) : j[i].source = j[k].source

\* As far as both go, a running worker has executed the journal.
Agreement ==
    /\ OneSource(journal)
    /\ worker.alive => \A i \in 1 .. Position : i <= Len(journal) =>
          journal[i].command = worker.history[i] /\ journal[i].source = worker.source

\* While nothing was edited, everything is the disk's.
Attestation ==
    /\ host = "live" => edits = 0
    /\ Attested /\ edits = 0 =>
          /\ CommandsOf(journal) = acked
          /\ \A i \in 1 .. Len(journal) : journal[i].source = disk
          /\ worker.alive => worker.source = disk
          /\ worker.alive /\ step \notin {"plan", "restore", "replay", "coldreplay"} =>
                Position >= Len(journal)
          /\ step \in Recovering \ {"plan"} => reuse = Len(journal)
          /\ step = "reexecute" => incoming = <<>>

\* Where a journal leaves the scene.
LastFrame(j) == IF j = <<>> THEN 0 ELSE j[Len(j)].command

\* What was exported, and that the live host shows where its journal ends.
Exported ==
    /\ host = "live" /\ op.kind # "resume" /\ step # "down" /\ journal # <<>> =>
          committed = LastFrame(journal)
    /\ saved # Nothing =>
          /\ host = "live"
          /\ saved.committed = LastFrame(saved.journal)
          /\ \A i \in 1 .. Len(saved.journal) : saved.journal[i].source = disk
    /\ op.kind = "resume" => saved # Nothing /\ journal = saved.journal

\* How a history goes on from another.
GoesOn(from, to) ==
    Len(from) <= Len(to) /\ \A i \in 1 .. Len(from) : to[i] = from[i]

\* A token of the running generation was taken from this worker, earlier.
Inspected ==
    /\ token # Nothing =>
          /\ token.generation <= generation
          /\ step \in Recovering => token.generation < generation
          /\ token.revision = RevisionOf(token.history)
          /\ token.generation = generation /\ worker.alive =>
                token.source = worker.source /\ GoesOn(token.history, worker.history)
    /\ step = "play" /\ op.kind = "edit" => token # Nothing /\ token.generation = generation

SessionInv ==
    /\ Typing /\ Exchanges /\ Recovery /\ Asked /\ Agreement
    /\ Attestation /\ Exported /\ Inspected

----------------------------------------------------------------------------
\* Types

\* The vocabulary of operations and steps.
LEMMA Vocabulary ==
    /\ Nothing.kind = "none" /\ Nothing \notin Requests /\ Nothing \notin Tokens
    /\ Nothing \notin Exports
    /\ \A r \in Requests : r.kind # "none" /\ r.command \in Commands
    /\ \A k \in {"seek", "edit", "preview", "inspect", "restart", "resume"}, c \in Commands :
          [kind |-> k, command |-> c] \in Requests
    /\ 0 \in Commands
<1>1. QED
    BY FramesAssumption DEF Nothing, Requests, Tokens, Exports, Operations, Commands

\* How an operation returns.
LEMMA ReturnTypes ==
    ASSUME Typing, NEW outcome, Return(outcome), UNCHANGED journal
    PROVE  /\ op' \in Requests \cup {Nothing} /\ step' \in {"idle", "down"}
           /\ crashing' \in BOOLEAN /\ incoming' \in Histories /\ reuse' \in 0 .. Len(journal')
           /\ candidate' \in Sources
           /\ op' = Nothing /\ crashing' = FALSE /\ incoming' = <<>> /\ reuse' = 0
<1>1. <<>> \in Histories
    <2>1. <<>> \in Seq(Commands) /\ Len(<<>>) = 0 /\ 0 <= JournalLimit + 1
        BY BoundsAssumption
    <2> QED  BY <2>1, HistoryIs
<1>2. Len(journal) \in Nat
    BY DEF Typing, Journals
<1>3. op' = Nothing /\ crashing' = FALSE /\ incoming' = <<>> /\ reuse' = 0 /\ candidate' = candidate
    BY DEF Return
<1>4. step' \in {"idle", "down"}
    BY Zenon DEF Return
<1>5. candidate' \in Sources
    BY <1>3 DEF Typing
<1>6. reuse' \in 0 .. Len(journal')
    BY <1>2, <1>3
<1>7. crashing' \in BOOLEAN /\ op' \in Requests \cup {Nothing} /\ incoming' \in Histories
    BY <1>1, <1>3, Zenon
<1>8. QED
    BY <1>3, <1>4, <1>5, <1>6, <1>7, Zenon

\* The types of a worker, a journal and a history.
Workers == [alive : BOOLEAN, source : Sources, history : Histories, failed : BOOLEAN]

\* What Typing says of each part.
LEMMA Types ==
    ASSUME Typing
    PROVE  /\ worker \in Workers
           /\ worker.alive \in BOOLEAN /\ worker.failed \in BOOLEAN /\ worker.source \in Sources
           /\ worker.history \in Histories /\ worker.history \in Seq(Commands)
           /\ Position \in Nat /\ Position <= JournalLimit + 1
           /\ journal \in Seq(Entries) /\ Len(journal) \in Nat /\ Len(journal) <= JournalLimit
           /\ incoming \in Seq(Commands) /\ Len(incoming) \in Nat
           /\ reuse \in Nat /\ reuse <= Len(journal)
           /\ JournalLimit \in Nat
<1>1. worker \in Workers /\ worker.history \in Histories
    BY DEF Typing, Workers
<1>2. worker.history \in Seq(Commands) /\ Position <= JournalLimit + 1
    BY <1>1, HistoryIs DEF Position
<1>3. incoming \in Seq(Commands)
    BY HistoryIs DEF Typing
<1>4. journal \in Seq(Entries) /\ Len(journal) <= JournalLimit
    BY DEF Typing, Journals
<1>5. QED
    BY <1>1, <1>2, <1>3, <1>4, BoundsAssumption DEF Typing, Position, Workers

\* A worker that has executed one more command.
LEMMA ExecutesTypes ==
    ASSUME Typing, NEW c \in Commands, Executes(c), Position <= JournalLimit
    PROVE  /\ worker' \in Workers
           /\ worker'.alive = worker.alive /\ worker'.source = worker.source
           /\ worker'.failed = worker.failed
           /\ worker'.history = Append(worker.history, c)
           /\ Len(worker'.history) = Position + 1
           /\ \A i \in 1 .. Position : worker'.history[i] = worker.history[i]
           /\ worker'.history[Position + 1] = c
<1>1. /\ worker'.history = Append(worker.history, c)
      /\ worker' = [worker EXCEPT !.history = Append(worker.history, c)]
    BY Types DEF Executes, Workers
<1>2. /\ Append(worker.history, c) \in Seq(Commands)
      /\ Len(Append(worker.history, c)) = Position + 1
      /\ \A i \in 1 .. Position : Append(worker.history, c)[i] = worker.history[i]
      /\ Append(worker.history, c)[Position + 1] = c
    BY Types, AppendProperties DEF Position
<1>3. Append(worker.history, c) \in Histories
    <2>1. Position + 1 <= JournalLimit + 1
        BY Types
    <2> QED  BY <1>2, <2>1, HistoryIs
<1>4. QED
    BY <1>1, <1>2, <1>3, Types DEF Workers

\* A segment merged into the journal: what precedes it, then the worker's entry.
LEMMA MergedJournal ==
    ASSUME Typing, NEW c \in Commands, Admissible(Position)
    PROVE  LET j == Merged(Position, Executed(c))
           IN /\ j \in Journals /\ Len(j) = Position + 1
              /\ \A i \in 1 .. Position : j[i] = journal[i]
              /\ j[Position + 1].command = c /\ j[Position + 1].source = worker.source
<1>1. Position \in 0 .. Len(journal) /\ Position + 1 <= JournalLimit
    BY Types DEF Admissible
<1>2. Executed(c) \in Entries
    BY Types DEF Executed, Entries
<1>3. /\ Prefix(journal, Position) \in Seq(Entries) /\ Len(Prefix(journal, Position)) = Position
      /\ \A i \in 1 .. Position : Prefix(journal, Position)[i] = journal[i]
    BY <1>1, Types, PrefixIs
<1> DEFINE j == Append(Prefix(journal, Position), Executed(c))
<1>4. /\ j \in Seq(Entries) /\ Len(j) = Position + 1
      /\ \A i \in 1 .. Position : j[i] = journal[i]
      /\ j[Position + 1] = Executed(c)
    BY <1>2, <1>3, AppendProperties
<1>5. j[Position + 1].command = c /\ j[Position + 1].source = worker.source
    BY <1>4 DEF Executed
<1>6. QED
    BY <1>1, <1>4, <1>5 DEF Merged, Journals

\* A worker brought to the first n commands of the journal.
LEMMA RestoredWorker ==
    ASSUME Typing, NEW n \in 0 .. Len(journal), NEW next, RestoreOrReplay(n, next)
    PROVE  /\ worker' \in Workers
           /\ worker'.alive = worker.alive /\ worker'.source = worker.source
           /\ worker'.history \in Seq(Commands) /\ Len(worker'.history) = n
           /\ \A i \in 1 .. n : worker'.history[i] = journal[i].command
           /\ worker'.history = Prefix(CommandsOf(journal), n)
<1> DEFINE h == Prefix(CommandsOf(journal), n)
<1>1. /\ CommandsOf(journal) \in Seq(Commands) /\ Len(CommandsOf(journal)) = Len(journal)
      /\ \A i \in 1 .. Len(journal) : CommandsOf(journal)[i] = journal[i].command
    BY Types, CommandsAre
<1>2. h \in Seq(Commands) /\ Len(h) = n /\ \A i \in 1 .. n : h[i] = CommandsOf(journal)[i]
    BY <1>1, PrefixIs
<1>3. h \in Histories
    BY <1>2, Types, HistoryIs
<1>4. worker' = [worker EXCEPT !.history = h]
    BY DEF RestoreOrReplay
<1> HIDE DEF h
<1>5. /\ worker' \in Workers /\ worker'.history = h
      /\ worker'.alive = worker.alive /\ worker'.source = worker.source
    BY <1>3, <1>4, Types DEF Workers
<1>6. \A i \in 1 .. n : h[i] = journal[i].command
    BY <1>1, <1>2, Types
<1>7. QED
    BY <1>2, <1>5, <1>6 DEF h

\* The operation of a step that has one.
LEMMA Requested ==
    ASSUME Typing, op.kind # "none"
    PROVE  op \in Requests /\ op.command \in Commands
<1>1. QED
    BY Vocabulary DEF Typing

\* A worker that stops, or did before.
LEMMA LostWorker ==
    ASSUME Typing, Lost
    PROVE  /\ worker' \in Workers /\ ~worker'.alive /\ troubles' \in Nat
           /\ worker'.source = worker.source /\ worker'.history = worker.history
           /\ worker.alive => troubles' = troubles + 1
<1>1. worker \in Workers /\ troubles \in Nat
    BY Types DEF Typing
<1>2. CASE ~worker.alive /\ UNCHANGED <<worker, troubles>>
    BY <1>1, <1>2
<1>3. CASE worker.alive /\ Trouble /\ worker' = [worker EXCEPT !.alive = FALSE]
    <2>1. worker' \in Workers /\ worker'.alive = FALSE
          /\ worker'.source = worker.source /\ worker'.history = worker.history
        BY <1>1, <1>3 DEF Workers
    <2>2. troubles' \in Nat /\ troubles' = troubles + 1
        BY <1>1, <1>3 DEF Trouble
    <2> QED  BY <2>1, <2>2
<1>4. QED
    BY <1>2, <1>3 DEF Lost

\* A new process of the candidate.
LEMMA InstalledWorker ==
    ASSUME Typing, NEW next, Install(next)
    PROVE  /\ worker' \in Workers /\ worker'.alive /\ worker'.history = <<>>
           /\ worker'.source = SourceOf(candidate) /\ artifact' \in Sources
           /\ generation' \in Nat /\ generation' = generation + 1
<1>1. SourceOf(candidate) \in Sources
    BY DEF SourceOf, Typing
<1>2. <<>> \in Histories
    <2>1. <<>> \in Seq(Commands) /\ Len(<<>>) = 0 /\ 0 <= JournalLimit + 1
        BY BoundsAssumption
    <2> QED  BY <2>1, HistoryIs
<1>3. QED
    BY <1>1, <1>2 DEF Install, Fresh, Workers, Typing

\* Every step keeps the types.
LEMMA TypingKept ==
    ASSUME Typing, Exchanges, Exported, Recovery, [Next]_vars
    PROVE  Typing'
<1> USE Types DEF Workers
<1>1. ASSUME NEW kind, NEW c \in Commands, NEW first \in Steps, Begin(kind, c, first), Untouched,
             kind \in {"seek", "edit", "preview", "inspect"}
      PROVE  Typing'
    BY <1>1, Vocabulary DEF Begin, Untouched, Typing, environment, process, scene
<1>2. CASE \/ \E c \in Seeks : BeginSeek(c)
           \/ \E c \in Edits : BeginEdit(c)
           \/ \E kind \in {"preview", "inspect"} : BeginLook(kind)
    <2>1. "play" \in Steps /\ "look" \in Steps /\ Seeks \subseteq Commands /\ Edits \subseteq Commands
        BY DEF Steps, Commands
    <2>2. CASE \E c \in Seeks : BeginSeek(c)
        <3>1. PICK c \in Seeks : BeginSeek(c)
            BY <2>2
        <3> QED  BY <1>1, <2>1, <3>1 DEF BeginSeek
    <2>3. CASE \E c \in Edits : BeginEdit(c)
        <3>1. PICK c \in Edits : BeginEdit(c)
            BY <2>3
        <3> QED  BY <1>1, <2>1, <3>1 DEF BeginEdit
    <2>4. CASE \E kind \in {"preview", "inspect"} : BeginLook(kind)
        <3>1. PICK kind \in {"preview", "inspect"} : BeginLook(kind)
            BY <2>4
        <3> QED  BY <1>1, <2>1, <3>1, Vocabulary DEF BeginLook
    <2> QED  BY <1>2, <2>2, <2>3, <2>4
<1>3. ASSUME NEW j \in Journals
      PROVE  CommandsOf(j) \in Histories
    <2>1. j \in Seq(Entries) /\ Len(j) <= JournalLimit /\ Len(j) \in Nat
        BY DEF Journals
    <2>2. CommandsOf(j) \in Seq(Commands) /\ Len(CommandsOf(j)) <= JournalLimit + 1
        BY <2>1, CommandsAre
    <2> QED  BY <2>2, HistoryIs
<1>4. <<>> \in Histories /\ <<>> \in Journals
    <2>1. <<>> \in Seq(Commands) /\ <<>> \in Seq(Entries) /\ Len(<<>>) = 0
          /\ 0 <= JournalLimit + 1 /\ 0 <= JournalLimit
        OBVIOUS
    <2> QED  BY <2>1, HistoryIs DEF Journals
<1>5. CASE BeginRestart
    <2>1. /\ op' = [kind |-> "restart", command |-> 0] /\ step' = "rebuild" /\ Trouble
          /\ incoming' = IF host = "capture" THEN <<>> ELSE CommandsOf(journal)
          /\ UNCHANGED <<environment, process, scene, token, saved, crashing, reuse, candidate>>
        BY <1>5 DEF BeginRestart
    <2>2. op' \in Requests /\ incoming' \in Histories /\ step' \in Steps /\ troubles' \in Nat
        BY <1>3, <1>4, <2>1, Vocabulary DEF Steps, Trouble, Typing
    <2> QED  BY <2>1, <2>2 DEF Typing, environment, process, scene
<1>6. CASE SaveSession
    <2>1. saved' \in Exports
        BY <1>6 DEF SaveSession, Exports, Typing
    <2>2. UNCHANGED <<environment, process, scene, operation, token, result, troubles>>
        BY <1>6 DEF SaveSession
    <2> QED  BY <2>1, <2>2 DEF Typing, environment, process, scene, operation
<1>7. CASE Resume
    <2>1. /\ op' = [kind |-> "resume", command |-> 0] /\ step' = "rebuild" /\ Trouble
          /\ incoming' = CommandsOf(saved.journal) /\ reuse' = 0 /\ crashing' = FALSE
          /\ worker' = [worker EXCEPT !.alive = FALSE] /\ generation' = 0
          /\ journal' = saved.journal /\ acked' = CommandsOf(saved.journal)
          /\ token' = Nothing
          /\ UNCHANGED <<environment, artifact, committed, candidate, saved>>
          /\ saved.kind = "saved"
        BY <1>7 DEF Resume
    <2>2. saved.journal \in Journals
        BY <2>1, Vocabulary DEF Typing, Exports
    <2>3. incoming' \in Histories /\ acked' \in Seq(Commands)
        BY <1>3, <2>1, <2>2, HistoryIs
    <2>4. op' \in Requests /\ step' \in Steps /\ troubles' \in Nat
        BY <2>1, Vocabulary DEF Steps, Trouble, Typing
    <2>5. worker' \in Workers /\ generation' \in Nat
        BY <2>1
    <2>6. reuse' \in 0 .. Len(journal')
        <3>1. Len(journal') \in Nat
            BY <2>1, <2>2 DEF Journals
        <3> QED  BY <2>1, <3>1
    <2>7. crashing' \in BOOLEAN
        BY <2>1
    <2> QED  BY <2>1, <2>2, <2>3, <2>4, <2>5, <2>6, <2>7 DEF Typing, environment
<1>8. ASSUME NEW outcome, Return(outcome), worker' \in Workers, committed' \in Commands,
             token' \in Tokens \cup {Nothing}, troubles' \in Nat,
             UNCHANGED <<environment, artifact, generation, journal, acked, saved>>
      PROVE  Typing'
    <2>1. {"idle", "down"} \subseteq Steps
        BY DEF Steps
    <2> QED  BY <1>8, <2>1, ReturnTypes DEF Typing, environment
<1>9. ASSUME Abort, worker' \in Workers, troubles' \in Nat
      PROVE  Typing'
    <2>1. committed \in Commands /\ token \in Tokens \cup {Nothing}
        BY DEF Typing
    <2> QED  BY <1>8, <1>9, <2>1 DEF Abort, scene
<1>10. CASE RebuildFails \/ LaunchFails \/ RecoveryRefused \/ RecoveryLost \/ PlayRefused
            \/ CaptureFails
    <2>1. CASE RecoveryLost
        <3>1. Abort /\ Lost
            BY <2>1 DEF RecoveryLost
        <3>2. worker' \in Workers /\ troubles' \in Nat
            BY <3>1, LostWorker
        <3> QED  BY <1>9, <3>1, <3>2
    <2>2. CASE CaptureFails
        <3>1. Abort /\ worker' = [worker EXCEPT !.failed = TRUE] /\ troubles' = troubles + 1
            BY <2>2 DEF CaptureFails, Trouble
        <3>2. worker' \in Workers
            BY <3>1
        <3>3. troubles' \in Nat
            BY <3>1 DEF Typing
        <3> QED  BY <1>9, <3>1, <3>2, <3>3
    <2>3. CASE RebuildFails \/ LaunchFails \/ RecoveryRefused \/ PlayRefused
        BY <1>9, <2>3 DEF RebuildFails, LaunchFails, RecoveryRefused, PlayRefused, Trouble, Typing
    <2> QED  BY <1>10, <2>1, <2>2, <2>3
<1>11. CASE Rebuild
    BY <1>11 DEF Rebuild, Typing, environment, process, scene, Steps
<1>12. ASSUME NEW next \in Steps, Install(next), incoming' \in Histories
      PROVE  Typing'
    BY <1>12, InstalledWorker DEF Install, Typing, environment, scene
<1>13. CASE Launch \/ ColdFallback
    <2>1. CrashStream \in Histories
        BY <1>3 DEF CrashStream, Typing
    <2>2. "plan" \in Steps /\ "coldreplay" \in Steps
        BY DEF Steps
    <2>3. incoming \in Histories
        BY DEF Typing
    <2> QED  BY <1>12, <1>13, <2>1, <2>2, <2>3 DEF Launch, ColdFallback
<1>14. CASE PlanReplay
    <2>1. reuse' \in 0 .. Len(journal') /\ step' \in Steps
        BY <1>14, PlanIs DEF PlanReplay, Steps, scene
    <2> QED  BY <1>14, <2>1 DEF PlanReplay, Typing, environment, process, scene
<1>15. ASSUME NEW to \in 0 .. Len(journal), NEW next \in Steps, RestoreOrReplay(to, next),
              troubles' \in Nat
      PROVE  Typing'
    BY <1>15, RestoredWorker DEF RestoreOrReplay, Goto, Typing, environment, scene
<1>16. CASE Restore \/ Replay \/ ReplayDiverges
    <2>1. Checkpoint(reuse) \in 0 .. Len(journal)
        BY CheckpointIs
    <2>2. {"replay", "recovered", "relaunch"} \subseteq Steps /\ reuse \in 0 .. Len(journal)
        BY DEF Steps
    <2>3. troubles' \in Nat
        BY <1>16 DEF Restore, Replay, ReplayDiverges, Trouble, Typing
    <2> QED  BY <1>15, <1>16, <2>1, <2>2, <2>3 DEF Restore, Replay, ReplayDiverges
<1>17. CASE CrashRecovered
    BY <1>8, <1>17 DEF CrashRecovered, process, scene, Typing
<1>18. CASE RestartRecovered
    <2>1. SubSeq(incoming, reuse + 1, Len(incoming)) \in Histories
        <3> DEFINE rest == SubSeq(incoming, reuse + 1, Len(incoming))
        <3>1. \A i \in reuse + 1 .. Len(incoming) : incoming[i] \in Commands
            OBVIOUS
        <3>2. rest \in Seq(Commands)
            BY <3>1, SubSeqProperties
        <3>3. Len(rest) <= Len(incoming)
            BY <3>1, SubSeqProperties
        <3>4. Len(incoming) <= JournalLimit + 1
            BY HistoryIs DEF Typing
        <3>5. Len(rest) <= JournalLimit + 1
            BY <3>2, <3>3, <3>4
        <3> QED  BY <3>2, <3>5, HistoryIs
    <2>2. journal' \in Journals /\ acked' \in Seq(Commands)
        <3>1. \/ journal' = <<>> /\ acked' = <<>>
              \/ UNCHANGED <<journal, acked>>
            BY <1>18 DEF RestartRecovered
        <3>2. <<>> \in Seq(Commands)
            OBVIOUS
        <3> QED  BY <1>4, <3>1, <3>2 DEF Typing
    <2>3. reuse' \in 0 .. Len(journal')
        <3>1. Len(journal') \in Nat
            BY <2>2 DEF Journals
        <3> QED  BY <1>18, <3>1 DEF RestartRecovered
    <2> QED  BY <1>18, <2>1, <2>2, <2>3 DEF RestartRecovered, Typing, environment, process, Steps
<1>19. CASE ResumeRecovered
    <2>1. saved.committed \in Commands
        BY <1>19, Vocabulary DEF ResumeRecovered, Exported, Typing, Exports
    <2>2. committed' \in Commands /\ worker' \in Workers
        BY <1>19, <2>1 DEF ResumeRecovered, Typing
    <2> QED  BY <1>8, <1>19, <2>2 DEF ResumeRecovered, Typing
<1>20. CASE Commit
    <2>1. step = "play" /\ op.command \in Commands /\ Position <= JournalLimit /\ reuse = 0
        BY <1>20, Requested DEF Commit, Exchanges
    <2>2. worker' \in Workers /\ journal' \in Journals
        BY <1>20, <2>1, ExecutesTypes, MergedJournal DEF Commit
    <2>3. acked' \in Seq(Commands)
        BY <1>20, <2>1, AppendProperties DEF Commit, Typing
    <2>4. reuse' \in 0 .. Len(journal')
        <3>1. Len(journal') \in Nat
            BY <2>2 DEF Journals
        <3> QED  BY <1>20, <2>1, <3>1 DEF Commit, Goto
    <2> QED  BY <1>20, <2>1, <2>2, <2>3, <2>4 DEF Commit, Goto, Typing, environment, Steps
<1>21. CASE Reexecute
    <2>1. /\ step = "reexecute" /\ incoming # <<>> /\ Position <= JournalLimit /\ reuse = 0
        BY <1>21 DEF Reexecute, Exchanges
    <2>2. /\ Head(incoming) \in Commands /\ Tail(incoming) \in Seq(Commands)
          /\ Len(Tail(incoming)) <= JournalLimit + 1
        <3>1. Len(incoming) <= JournalLimit + 1
            BY HistoryIs DEF Typing
        <3> QED  BY <2>1, <3>1, HeadTailProperties
    <2>3. worker' \in Workers /\ journal' \in Journals
        BY <1>21, <2>1, <2>2, ExecutesTypes, MergedJournal DEF Reexecute
    <2>4. incoming' \in Histories
        BY <1>21, <2>2, HistoryIs DEF Reexecute
    <2>5. reuse' \in 0 .. Len(journal')
        <3>1. Len(journal') \in Nat
            BY <2>3 DEF Journals
        <3> QED  BY <1>21, <2>1, <3>1 DEF Reexecute
    <2> QED  BY <1>21, <2>3, <2>4, <2>5 DEF Reexecute, Typing, environment
<1>22. CASE MergeRefused
    <2>1. Position <= JournalLimit /\ Played \in Commands
        <3>1. step = "play" => op.command \in Commands
            BY Requested DEF Exchanges
        <3>2. incoming # <<>> => Head(incoming) \in Commands
            BY HeadTailProperties
        <3> QED  BY <1>22, <3>1, <3>2 DEF MergeRefused, Playing, Played, Exchanges
    <2>2. worker' \in Workers
        BY <1>22, <2>1, ExecutesTypes DEF MergeRefused
    <2> QED  BY <1>8, <1>22, <2>2 DEF MergeRefused, scene, Typing
<1>23. CASE Show \/ ShowRefused \/ Reshow
    <2>1. committed' \in Commands
        BY <1>23, Vocabulary DEF Show, ShowRefused, Reshow, Typing
    <2>2. /\ \E outcome : Return(outcome)
          /\ UNCHANGED <<environment, process, journal, acked, saved, token>>
          /\ troubles' \in Nat
        BY <1>23 DEF Show, ShowRefused, Reshow, Shown, Trouble, Typing
    <2> QED  BY <1>8, <2>1, <2>2 DEF process, Typing
<1>24. CASE Look
    <2>1. token' \in Tokens \cup {Nothing}
        <3>1. Revision \in Nat
            <4>1. IsFiniteSet(EditsIn(worker.history))
                <5>1. IsFiniteSet(1 .. Len(worker.history))
                    BY FS_Interval DEF Position
                <5> QED  BY <5>1, FS_Subset DEF EditsIn
            <4> QED  BY <4>1, FS_CardinalityType DEF Revision, RevisionOf, Position
        <3> QED  BY <1>24, <3>1 DEF Look, Tokens, Typing
    <2> QED  BY <1>8, <1>24, <2>1 DEF Look, Shown, process, Typing
<1>25. CASE RequestLost
    <2>1. worker' \in Workers /\ troubles' \in Nat /\ Lost
        BY <1>25, LostWorker DEF RequestLost, RequestCrashes
    <2>2. CASE Return("error")
        BY <1>8, <1>25, <2>1, <2>2 DEF RequestLost, RequestCrashes, scene, Typing
    <2>3. CASE /\ crashing' = TRUE /\ step' = "launch" /\ candidate' = artifact
               /\ UNCHANGED <<op, incoming, reuse, result>>
        <3>1. crashing' \in BOOLEAN /\ step' \in Steps /\ candidate' \in Sources
            BY <2>3 DEF Steps, Typing
        <3> QED  BY <1>25, <2>1, <2>3, <3>1 DEF RequestLost, RequestCrashes, environment, scene, Typing
    <2> QED  BY <1>25, <2>2, <2>3 DEF RequestLost, RequestCrashes
<1>26. CASE EditSource
    BY <1>26 DEF EditSource, process, scene, operation, Typing
<1>27. CASE UNCHANGED vars
    BY <1>27 DEF vars, environment, process, scene, operation, Typing
<1>28. QED
    BY <1>2, <1>5, <1>6, <1>7, <1>10, <1>11, <1>13, <1>14, <1>16, <1>17, <1>18, <1>19, <1>20,
       <1>21, <1>22, <1>23, <1>24, <1>25, <1>26, <1>27 DEF Next

----------------------------------------------------------------------------
\* What a step does, told by its effects

Kept == UNCHANGED <<host, disk, edits, candidate, journal, committed, acked, token, saved>>

\* An operation takes the mutex.
Begun ==
    /\ step = "idle" /\ Kept /\ UNCHANGED <<worker, generation, crashing, reuse>>
    /\ \/ /\ op'.kind \in {"seek", "edit"} /\ step' = "play" /\ Position <= JournalLimit
          /\ op'.kind = "edit" => Admits(token)
       \/ op'.kind \in {"preview", "inspect"} /\ step' = "look"
       \/ /\ op'.kind = "restart" /\ step' = "rebuild"
          /\ incoming' = IF host = "capture" THEN <<>> ELSE CommandsOf(journal)

\* An operation returns.  The worker it leaves behind, when it runs at all, is
\* the one it had, with at most a command the journal has no room for.
Ended(outcome) ==
    /\ step \notin {"idle", "down"} /\ Return(outcome)
    /\ UNCHANGED <<host, disk, edits, generation, journal, acked, saved>>
    /\ worker'.alive =>
          /\ worker.alive /\ worker'.source = worker.source
          /\ \/ worker'.history = worker.history
             \/ /\ step \in {"play", "reexecute"} /\ Len(journal) <= Position
                /\ GoesOn(worker.history, worker'.history)
          /\ step \in {"restore", "replay", "coldreplay"} => RecoveryRefused
          /\ step # "plan"
    /\ token' = token \/ Look
    /\ host = "live" => IF op.kind = "resume" THEN outcome = "ok" => committed' = saved.committed
                                              ELSE committed' = committed

\* A request finds the worker gone, and recovery begins.
Crashed ==
    /\ step \in {"play", "reexecute", "show", "look"} /\ host # "capture"
    /\ ~worker'.alive /\ worker'.history = worker.history
    /\ crashing' = TRUE /\ step' = "launch"
    /\ UNCHANGED <<host, disk, edits, generation, journal, committed, acked, token, saved>>
    /\ UNCHANGED <<op, incoming, reuse>>

\* A new process is installed.
Installed ==
    /\ worker'.alive /\ worker'.history = <<>> /\ worker'.source = SourceOf(candidate)
    /\ generation' = generation + 1
    /\ Kept /\ UNCHANGED <<op, crashing, reuse>>
    /\ \/ /\ step = "launch" /\ step' = "plan"
          /\ incoming' = IF crashing THEN CommandsOf(journal) ELSE incoming
       \/ step = "relaunch" /\ step' = "coldreplay" /\ UNCHANGED incoming

\* The new worker is brought further along the journal, which is of its source.
Restored ==
    /\ step \in {"restore", "replay", "coldreplay"} /\ worker.alive /\ worker'.alive
    /\ worker'.source = worker.source /\ Len(worker'.history) <= reuse
    /\ \A i \in 1 .. Len(worker'.history) :
          worker'.history[i] = journal[i].command /\ journal[i].source = worker.source
    /\ \/ step' = "replay"
       \/ step' \in {"relaunch", "recovered"} /\ Len(worker'.history) = reuse
    /\ Kept /\ UNCHANGED <<op, crashing, incoming, reuse, generation>>

\* The steps that return.
Ends ==
    \/ RebuildFails \/ LaunchFails \/ RecoveryRefused \/ RecoveryLost \/ CrashRecovered
    \/ ResumeRecovered \/ MergeRefused \/ PlayRefused \/ CaptureFails \/ Show \/ Look \/ Reshow
    \/ ShowRefused \/ (RequestLost /\ Return("error"))

\* Every return is an Ended.
LEMMA EndsAre ==
    ASSUME Typing, Exchanges, Recovery, Ends
    PROVE  \E outcome \in {"ok", "error"} : Ended(outcome)
<1> USE Types
<1>1. ASSUME Abort, step \notin {"idle", "down"},
             worker'.alive => worker' = worker /\ step # "plan",
             worker'.alive /\ step \in {"restore", "replay", "coldreplay"} => RecoveryRefused
      PROVE  Ended("error")
    <2>1. /\ UNCHANGED <<host, disk, edits, generation, journal, acked, saved>>
          /\ token' = token /\ committed' = committed
        BY <1>1 DEF Abort, environment, scene
    <2>2. Return("error")
        BY <1>1 DEF Abort
    <2>3. worker'.alive => worker.alive /\ worker'.source = worker.source
                           /\ worker'.history = worker.history
        <3>1. worker'.alive => worker' = worker
            BY <1>1, Zenon
        <3>2. CASE worker' = worker
            BY <3>2
        <3> QED  BY <3>1, <3>2, Zenon
    <2>4. host = "live" =>
            IF op.kind = "resume" THEN "error" = "ok" => committed' = saved.committed
                                  ELSE committed' = committed
        BY <2>1
    <2> QED  BY <1>1, <2>1, <2>2, <2>3, <2>4, Zenon DEF Ended
<1>2. CASE RebuildFails \/ LaunchFails \/ RecoveryRefused \/ PlayRefused
    BY <1>1, <1>2 DEF RebuildFails, LaunchFails, RecoveryRefused, PlayRefused, Playing
<1>3. CASE RecoveryLost
    <2>1. Abort /\ ~worker'.alive /\ step \notin {"idle", "down"}
        BY <1>3, LostWorker DEF RecoveryLost
    <2> QED  BY <1>1, <2>1
<1>4. CASE CaptureFails
    <2>1. /\ Abort /\ step = "play" /\ worker' = [worker EXCEPT !.failed = TRUE]
          /\ worker.alive
        BY <1>4 DEF CaptureFails
    <2>2. worker'.alive = worker.alive /\ worker'.source = worker.source
          /\ worker'.history = worker.history
        BY <2>1 DEF Workers
    <2> QED  BY <2>1, <2>2 DEF Abort, Ended, environment, scene
<1>5. CASE CrashRecovered
    BY <1>5, Zenon DEF CrashRecovered, Ended, environment, process, scene, Exchanges
<1>6. CASE ResumeRecovered
    <2>1. CASE reuse = Len(incoming)
        BY <1>6, <2>1 DEF ResumeRecovered, Ended, environment
    <2>2. CASE reuse # Len(incoming)
        <3>1. ~worker'.alive
            BY <1>6, <2>2 DEF ResumeRecovered, Workers
        <3> QED  BY <1>6, <2>2, <3>1 DEF ResumeRecovered, Ended, environment
    <2> QED  BY <2>1, <2>2
<1>7. CASE MergeRefused
    <2>1. /\ step \in {"play", "reexecute"} /\ worker.alive /\ Return("error")
          /\ UNCHANGED <<environment, artifact, generation, scene, token, saved>>
          /\ Executes(Played) /\ ~Admissible(Position) /\ Position <= JournalLimit
        BY <1>7, Zenon DEF MergeRefused, Playing, Exchanges
    <2>2. Played \in Commands
        <3>1. step = "play" => op.command \in Commands
            BY Requested DEF Exchanges
        <3>2. incoming # <<>> => Head(incoming) \in Commands
            BY HeadTailProperties
        <3> QED  BY <1>7, <3>1, <3>2 DEF MergeRefused, Playing, Played
    <2>3. /\ worker'.alive = worker.alive /\ worker'.source = worker.source
          /\ GoesOn(worker.history, worker'.history)
        <3>1. /\ worker'.alive = worker.alive /\ worker'.source = worker.source
              /\ Len(worker'.history) = Position + 1
              /\ \A i \in 1 .. Position : worker'.history[i] = worker.history[i]
            BY <2>1, <2>2, ExecutesTypes
        <3> QED  BY <3>1 DEF GoesOn, Position
    <2>4. Len(journal) <= Position
        BY <2>1 DEF Admissible
    <2> QED  BY <2>1, <2>3, <2>4 DEF Ended, environment, scene, Exchanges
<1>8. CASE Show \/ Look \/ Reshow \/ ShowRefused
    BY <1>8 DEF Show, Look, Reshow, ShowRefused, Shown, Ended, environment, process, Exchanges
<1>9. CASE RequestLost /\ Return("error")
    <2>1. /\ Lost /\ step \notin {"idle", "down"}
          /\ UNCHANGED <<environment, artifact, generation, scene, token, saved>>
        BY <1>9 DEF RequestLost, RequestCrashes
    <2>2. ~worker'.alive
        BY <2>1, LostWorker
    <2> QED  BY <1>9, <2>1, <2>2 DEF Ended, environment, scene, Exchanges
<1>10. QED
    BY <1>2, <1>3, <1>4, <1>5, <1>6, <1>7, <1>8, <1>9 DEF Ends

\* The steps of a session, by their effects.
LEMMA StepIs ==
    ASSUME SessionInv, [Next]_vars
    PROVE  \/ Begun \/ (\E outcome \in {"ok", "error"} : Ended(outcome)) \/ Crashed
           \/ Installed \/ Restored
           \/ SaveSession \/ Resume \/ Rebuild \/ PlanReplay \/ RestartRecovered
           \/ Commit \/ Reexecute \/ EditSource \/ UNCHANGED vars
<1> USE Types DEF Workers, SessionInv
<1>1. CASE Ends
    BY <1>1, EndsAre
<1>2. CASE \/ \E c \in Seeks : BeginSeek(c)
           \/ \E c \in Edits : BeginEdit(c)
           \/ \E kind \in {"preview", "inspect"} : BeginLook(kind)
           \/ BeginRestart
    <2>1. ASSUME NEW c, BeginSeek(c) \/ BeginEdit(c)
          PROVE  Begun
        BY <2>1 DEF BeginSeek, BeginEdit, Begin, Begun, Kept, Idle, Untouched, environment,
                    process, scene
    <2>2. ASSUME NEW kind \in {"preview", "inspect"}, BeginLook(kind)
          PROVE  Begun
        BY <2>2 DEF BeginLook, Begin, Begun, Kept, Idle, Untouched, environment, process, scene
    <2>3. CASE BeginRestart
        BY <2>3 DEF BeginRestart, Begun, Kept, Idle, environment, process, scene
    <2> QED  BY <1>2, <2>1, <2>2, <2>3
<1>3. CASE RequestLost /\ ~Return("error")
    <2>1. /\ Lost /\ AutoRestart /\ crashing' = TRUE /\ step' = "launch"
          /\ UNCHANGED <<op, incoming, reuse, result>>
          /\ UNCHANGED <<environment, artifact, generation, scene, token, saved>>
          /\ step \in {"play", "reexecute", "show", "look"}
        BY <1>3, Zenon DEF RequestLost, RequestCrashes
    <2>2. ~worker'.alive /\ worker'.history = worker.history
        BY <2>1, LostWorker
    <2> QED  BY <2>1, <2>2 DEF Crashed, AutoRestart, environment, scene
<1>4. CASE Launch \/ ColdFallback
    <2>1. ASSUME NEW next, Install(next)
          PROVE  /\ worker'.alive /\ worker'.history = <<>> /\ worker'.source = SourceOf(candidate)
                 /\ generation' = generation + 1 /\ Kept /\ UNCHANGED <<op, crashing, reuse>>
                 /\ step' = next
        BY <2>1, InstalledWorker DEF Install, Kept, environment, scene
    <2> QED  BY <1>4, <2>1 DEF Launch, ColdFallback, Installed, CrashStream
<1>5. CASE Restore \/ Replay \/ ReplayDiverges
    <2> DEFINE to == IF step = "restore" THEN Checkpoint(reuse) ELSE reuse
    <2>1. to \in 0 .. Len(journal) /\ to <= reuse /\ (step = "restore" => to > 0)
        <3>1. Checkpoint(reuse) \in 0 .. reuse
            BY CheckpointIs
        <3>2. step = "restore" => Checkpoint(reuse) > 0
            BY DEF Recovery
        <3> QED  BY <3>1, <3>2
    <2>2. PICK next : /\ RestoreOrReplay(to, next)
                      /\ \/ next = "replay"
                         \/ next \in {"relaunch", "recovered"} /\ to = reuse
        <3>1. CASE Restore
            <4>1. step = "restore" /\ to = Checkpoint(reuse)
                  /\ RestoreOrReplay(to, IF to < reuse THEN "replay" ELSE "recovered")
                BY <3>1 DEF Restore
            <4>2. CASE to < reuse
                BY <4>1, <4>2
            <4>3. CASE ~(to < reuse)
                <5>1. to = reuse
                    BY <2>1, <4>3
                <5> QED  BY <4>1, <4>3, <5>1
            <4> QED  BY <4>2, <4>3
        <3>2. CASE Replay \/ ReplayDiverges
            <4>1. step # "restore" /\ to = reuse
                  /\ (RestoreOrReplay(reuse, "recovered") \/ RestoreOrReplay(reuse, "relaunch"))
                BY <3>2 DEF Replay, ReplayDiverges
            <4> QED  BY <4>1
        <3> QED  BY <1>5, <3>1, <3>2
    <2>3. /\ step \in {"restore", "replay", "coldreplay"} /\ worker.alive
          /\ step = "restore" => journal[to].source = worker.source
          /\ step # "restore" => SameSource(Position, to)
        BY <1>5 DEF Restore, Replay, ReplayDiverges
    <2> HIDE DEF to
    <2>4. /\ worker'.alive /\ worker'.source = worker.source /\ Len(worker'.history) = to
          /\ \A i \in 1 .. to : worker'.history[i] = journal[i].command
        BY <2>1, <2>2, <2>3, RestoredWorker
    <2>5. ASSUME NEW i \in 1 .. to
          PROVE  journal[i].source = worker.source
        <3>1. i \in 1 .. Len(journal)
            BY <2>1
        <3>2. CASE step = "restore"
            <4>1. to \in 1 .. Len(journal) /\ journal[to].source = worker.source
                BY <2>1, <2>3, <3>2
            <4> QED  BY <3>1, <4>1 DEF Agreement, OneSource
        <3>3. CASE step # "restore" /\ i <= Position
            <4>1. i \in 1 .. Position /\ i <= Len(journal)
                BY <3>1, <3>3
            <4> QED  BY <2>3, <4>1 DEF Agreement
        <3>4. CASE step # "restore" /\ ~(i <= Position)
            <4>1. i \in Position + 1 .. to
                BY <2>1, <3>4
            <4> QED  BY <2>3, <3>4, <4>1 DEF SameSource
        <3> QED  BY <3>2, <3>3, <3>4
    <2>6. step' = next /\ Kept /\ UNCHANGED <<op, crashing, incoming, reuse, generation>>
        BY <2>2 DEF RestoreOrReplay, Goto, Kept, environment, scene
    <2>7. /\ Len(worker'.history) <= reuse
          /\ \/ step' = "replay"
             \/ step' \in {"relaunch", "recovered"} /\ Len(worker'.history) = reuse
        <3>1. Len(worker'.history) <= reuse
            BY <2>1, <2>4
        <3>2. step' = next
            BY <2>6
        <3> QED  BY <2>2, <2>4, <3>1, <3>2
    <2> QED  BY <2>3, <2>4, <2>5, <2>6, <2>7 DEF Restored
<1>6. QED
    BY <1>1, <1>2, <1>3, <1>4, <1>5 DEF Next, Ends

----------------------------------------------------------------------------
\* The parts of the invariant

\* What a return leaves.
LEMMA Returned ==
    ASSUME NEW outcome, Return(outcome)
    PROVE  /\ op' = Nothing /\ crashing' = FALSE /\ reuse' = 0 /\ incoming' = <<>>
           /\ step' = IF op.kind = "resume" /\ outcome = "error" THEN "down" ELSE "idle"
<1>1. QED
    BY DEF Return

\* An exchange never belongs to an operation of another kind.
LEMMA ExchangesKept ==
    ASSUME SessionInv, [Next]_vars
    PROVE  Exchanges'
<1> USE Types DEF SessionInv
<1>1. CASE Begun
    <2>1. crashing' = FALSE /\ reuse' = 0 /\ host' = host /\ Position' = Position
        BY <1>1, Zenon DEF Begun, Kept, Exchanges, Typing, Recovering, Position
    <2> QED  BY <1>1, <2>1 DEF Begun, Exchanges, Recovering
<1>2. CASE \E outcome \in {"ok", "error"} : Ended(outcome)
    <2>1. PICK outcome \in {"ok", "error"} : Ended(outcome)
        BY <1>2
    <2>2. /\ op' = Nothing /\ crashing' = FALSE /\ reuse' = 0
          /\ step' \in {"idle", "down"}
        BY <2>1, Returned, Zenon DEF Ended
    <2> QED  BY <2>2 DEF Exchanges, Recovering
<1>3. CASE Crashed
    <2>1. op.kind \in {"seek", "edit", "preview", "inspect", "restart"} /\ reuse = 0
        BY <1>3 DEF Crashed, Exchanges
    <2> QED  BY <1>3, <2>1 DEF Crashed, Exchanges, Recovering
<1>4. CASE Installed
    BY <1>4 DEF Installed, Kept, Exchanges, Recovering
<1>5. CASE Restored
    BY <1>5 DEF Restored, Kept, Exchanges, Recovering
<1>6. CASE SaveSession \/ EditSource \/ UNCHANGED vars
    <2>1. UNCHANGED <<host, op, step, crashing, reuse, worker>>
        BY <1>6 DEF SaveSession, EditSource, vars, environment, operation, process
    <2> QED  BY <2>1 DEF Exchanges, Position
<1>7. CASE Resume
    BY <1>7 DEF Resume, Exchanges, Recovering
<1>8. CASE Rebuild
    <2>1. crashing = FALSE /\ step = "rebuild" /\ reuse = 0
        BY <1>8, Zenon DEF Rebuild, Exchanges, Recovering, Typing
    <2> QED  BY <1>8, <2>1 DEF Rebuild, Exchanges, environment, Recovering
<1>9. CASE PlanReplay
    <2>1. /\ step = "plan" /\ UNCHANGED <<host, op, crashing>>
          /\ reuse' = Plan(incoming) /\ step' \in {"recovered", "replay", "restore"}
        BY <1>9 DEF PlanReplay, environment
    <2>2. host = "capture" => reuse' = 0
        BY <2>1, PlanOfTheJournal DEF Attested
    <2> QED  BY <2>1, <2>2 DEF Exchanges, Recovering
<1>10. CASE RestartRecovered
    <2>1. Position <= JournalLimit /\ Position' = Position
        BY <1>10 DEF RestartRecovered, Recovery, process, Position
    <2> QED  BY <1>10, <2>1 DEF RestartRecovered, Exchanges, environment, Recovering
<1>11. CASE Commit
    BY <1>11 DEF Commit, Goto, Exchanges, environment, Recovering
<1>12. CASE Reexecute
    <2>1. /\ step = "reexecute" /\ incoming # <<>> /\ Position + 1 <= JournalLimit
          /\ Executes(Head(incoming)) /\ UNCHANGED <<host, op, step, crashing, reuse>>
        BY <1>12 DEF Reexecute, Admissible, environment
    <2>2. Head(incoming) \in Commands
        BY <2>1, HeadTailProperties
    <2>3. Position' = Position + 1
        BY <2>1, <2>2, ExecutesTypes DEF Position
    <2> QED  BY <2>1, <2>3 DEF Exchanges, Recovering
<1>13. QED
    BY <1>1, <1>2, <1>3, <1>4, <1>5, <1>6, <1>7, <1>8, <1>9, <1>10, <1>11, <1>12, StepIs

\* A recovery has got as far as its step says.
LEMMA RecoveryKept ==
    ASSUME SessionInv, [Next]_vars
    PROVE  Recovery'
<1> USE Types DEF SessionInv
<1>1. CASE Begun
    BY <1>1 DEF Begun, Recovery, Recovering
<1>2. CASE \E outcome \in {"ok", "error"} : Ended(outcome)
    <2>1. PICK outcome \in {"ok", "error"} : Ended(outcome)
        BY <1>2
    <2>2. step' \in {"idle", "down"}
        BY <2>1, Returned, Zenon DEF Ended
    <2> QED  BY <2>2 DEF Recovery, Recovering
<1>3. CASE Crashed
    BY <1>3 DEF Crashed, Recovery, Recovering
<1>4. CASE Installed
    BY <1>4 DEF Installed, Recovery, Recovering
<1>5. CASE Restored
    BY <1>5 DEF Restored, Recovery, Recovering, Position
<1>6. CASE SaveSession \/ EditSource \/ UNCHANGED vars
    <2>1. UNCHANGED <<step, reuse, worker, journal>>
        BY <1>6 DEF SaveSession, EditSource, vars, operation, process, scene
    <2> QED  BY <2>1 DEF Recovery, Position, Checkpoint
<1>7. CASE Resume \/ Rebuild \/ RestartRecovered \/ Commit \/ Reexecute
    <2>1. step' \in {"rebuild", "launch", "reexecute", "show"}
        BY <1>7 DEF Resume, Rebuild, RestartRecovered, Commit, Goto, Reexecute
    <2> QED  BY <2>1 DEF Recovery, Recovering
<1>8. CASE PlanReplay
    <2>1. /\ step = "plan" /\ UNCHANGED <<worker, journal>>
          /\ step' = CASE reuse' = 0 -> "recovered"
                       [] Checkpoint(reuse') = 0 -> "replay"
                       [] OTHER -> "restore"
          /\ reuse' \in Nat
        BY <1>8, PlanIs DEF PlanReplay, process, scene
    <2>2. Checkpoint(reuse)' = Checkpoint(reuse')
        BY <2>1 DEF Checkpoint
    <2>3. Checkpoint(reuse') \in Nat
        BY <2>1, CheckpointIs
    <2>4. worker.alive /\ Position = 0 /\ worker.history = <<>>
        BY <2>1 DEF Recovery, Recovering, Position
    <2>5. worker'.alive /\ Position' = 0 /\ worker'.history = <<>>
        BY <2>1, <2>4 DEF Position
    <2>6. CASE reuse' = 0
        BY <2>1, <2>5, <2>6 DEF Recovery, Recovering
    <2>7. CASE reuse' # 0
        <3>1. reuse' > 0
            BY <2>1, <2>7
        <3>2. step' = IF Checkpoint(reuse') = 0 THEN "replay" ELSE "restore"
            BY <2>1, <2>7
        <3>3. CASE Checkpoint(reuse') = 0
            <4>1. step' = "replay" /\ Position' <= reuse'
                BY <2>1, <2>5, <3>2, <3>3
            <4> QED  BY <2>5, <4>1 DEF Recovery, Recovering
        <3>4. CASE Checkpoint(reuse') # 0
            <4>1. Checkpoint(reuse)' > 0 /\ step' = "restore"
                BY <2>2, <2>3, <3>2, <3>4
            <4> QED  BY <2>5, <3>1, <4>1 DEF Recovery, Recovering
        <3> QED  BY <3>3, <3>4
    <2> QED  BY <2>6, <2>7
<1>9. QED
    BY <1>1, <1>2, <1>3, <1>4, <1>5, <1>6, <1>7, <1>8, StepIs

\* Recovery is asked for the journal, by a host whose Restart keeps it.
LEMMA AskedKept ==
    ASSUME SessionInv, [Next]_vars
    PROVE  Asked'
<1> USE Types DEF SessionInv
<1>1. CASE Begun
    <2>1. step' = "rebuild" => incoming' = IF host = "capture" THEN <<>> ELSE CommandsOf(journal)
        BY <1>1 DEF Begun
    <2>2. /\ UNCHANGED <<host, journal>> /\ step' \in {"play", "look", "rebuild"}
        BY <1>1 DEF Begun, Kept
    <2>3. CommandsOf(journal)' = CommandsOf(journal)
        BY <2>2 DEF CommandsOf
    <2> QED  BY <2>1, <2>2, <2>3 DEF Asked, Recovering
<1>2. CASE \E outcome \in {"ok", "error"} : Ended(outcome)
    <2>1. PICK outcome \in {"ok", "error"} : Ended(outcome)
        BY <1>2
    <2>2. step' \in {"idle", "down"}
        BY <2>1, Returned, Zenon DEF Ended
    <2> QED  BY <2>2 DEF Asked, Recovering
<1>3. CASE Crashed
    BY <1>3 DEF Crashed, Asked, Recovering
<1>4. CASE Installed
    <2>1. UNCHANGED <<host, journal, crashing>> /\ step' \in {"plan", "coldreplay"}
        BY <1>4 DEF Installed, Kept
    <2>2. CommandsOf(journal)' = CommandsOf(journal)
        BY <2>1 DEF CommandsOf
    <2>3. incoming' = IF host = "capture" THEN <<>> ELSE CommandsOf(journal)
        <3>1. CASE step = "launch" /\ crashing
            <4>1. host # "capture"
                BY <3>1 DEF Exchanges
            <4>2. incoming' = CommandsOf(journal)
                BY <1>4, <3>1 DEF Installed
            <4> QED  BY <4>1, <4>2
        <3>2. CASE step = "launch" /\ ~crashing
            BY <1>4, <3>2 DEF Installed, Asked
        <3>3. CASE step = "relaunch"
            BY <1>4, <3>3 DEF Installed, Asked, Recovering
        <3> QED  BY <1>4, <3>1, <3>2, <3>3 DEF Installed
    <2> QED  BY <2>1, <2>2, <2>3 DEF Asked
<1>5. CASE Restored
    <2>1. UNCHANGED <<host, journal, incoming>> /\ step \in Recovering
        BY <1>5 DEF Restored, Kept, Recovering
    <2>2. CommandsOf(journal)' = CommandsOf(journal)
        BY <2>1 DEF CommandsOf
    <2> QED  BY <2>1, <2>2 DEF Asked
<1>6. CASE SaveSession \/ EditSource \/ UNCHANGED vars
    <2>1. UNCHANGED <<host, step, crashing, incoming, journal>>
        BY <1>6 DEF SaveSession, EditSource, vars, environment, operation, scene
    <2>2. CommandsOf(journal)' = CommandsOf(journal)
        BY <2>1 DEF CommandsOf
    <2> QED  BY <2>1, <2>2 DEF Asked
<1>7. CASE Resume
    <2>1. /\ journal' = saved.journal /\ incoming' = CommandsOf(saved.journal) /\ host' = host
          /\ saved # Nothing
        BY <1>7, Vocabulary DEF Resume, environment
    <2>2. host # "capture"
        BY <2>1 DEF Exported
    <2>3. CommandsOf(journal)' = CommandsOf(saved.journal)
        BY <2>1 DEF CommandsOf
    <2> QED  BY <2>1, <2>2, <2>3 DEF Asked
<1>8. CASE Rebuild \/ PlanReplay
    <2>1. UNCHANGED <<host, journal, incoming>> /\ step \in {"rebuild", "plan"}
        BY <1>8 DEF Rebuild, PlanReplay, environment, scene
    <2>2. CommandsOf(journal)' = CommandsOf(journal)
        BY <2>1 DEF CommandsOf
    <2>3. step \in Recovering \cup {"rebuild"}
        BY <2>1 DEF Recovering
    <2> QED  BY <2>1, <2>2, <2>3 DEF Asked
<1>9. CASE RestartRecovered \/ Commit \/ Reexecute
    <2>1. step' \in {"reexecute", "show"}
        BY <1>9 DEF RestartRecovered, Commit, Goto, Reexecute
    <2> QED  BY <2>1 DEF Asked, Recovering
<1>10. QED
    BY <1>1, <1>2, <1>3, <1>4, <1>5, <1>6, <1>7, <1>8, <1>9, StepIs

\* The worker and the journal agree as far as both go, whatever is merged,
\* restored or lost.
LEMMA AgreementKept ==
    ASSUME SessionInv, [Next]_vars
    PROVE  Agreement'
<1> USE Types DEF SessionInv
<1>1. ASSUME journal' = journal,
             worker'.alive => /\ worker.alive /\ worker'.source = worker.source
                              /\ \/ worker'.history = worker.history
                                 \/ /\ Len(journal) <= Position
                                    /\ GoesOn(worker.history, worker'.history)
      PROVE  Agreement'
    <2>1. OneSource(journal)'
        BY <1>1 DEF OneSource, Agreement
    <2>2. ASSUME worker'.alive, NEW i \in 1 .. Len(worker'.history), i <= Len(journal)
          PROVE  journal[i].command = worker'.history[i] /\ journal[i].source = worker'.source
        <3>1. CASE worker'.history = worker.history
            BY <1>1, <2>2, <3>1 DEF Agreement, Position
        <3>2. CASE Len(journal) <= Position /\ GoesOn(worker.history, worker'.history)
            <4>1. i \in 1 .. Position
                BY <2>2, <3>2
            <4>2. worker'.history[i] = worker.history[i]
                BY <3>2, <4>1 DEF GoesOn, Position
            <4> QED  BY <1>1, <2>2, <4>1, <4>2 DEF Agreement
        <3> QED  BY <1>1, <2>2, <3>1, <3>2
    <2> QED  BY <1>1, <2>1, <2>2 DEF Agreement, Position
<1>2. CASE Begun
    BY <1>1, <1>2 DEF Begun, Kept
<1>3. CASE \E outcome \in {"ok", "error"} : Ended(outcome)
    BY <1>1, <1>3, Zenon DEF Ended
<1>4. CASE Crashed
    BY <1>1, <1>4 DEF Crashed
<1>5. CASE Installed \/ Restored
    <2>1. journal' = journal /\ OneSource(journal)'
        BY <1>5 DEF Installed, Restored, Kept, Agreement, OneSource
    <2>2. \A i \in 1 .. Len(worker'.history) :
             journal[i].command = worker'.history[i] /\ journal[i].source = worker'.source
        BY <1>5 DEF Installed, Restored
    <2> QED  BY <2>1, <2>2 DEF Agreement, Position
<1>6. CASE SaveSession \/ EditSource \/ UNCHANGED vars \/ Rebuild \/ PlanReplay
    <2>1. UNCHANGED <<worker, journal>>
        BY <1>6 DEF SaveSession, EditSource, vars, Rebuild, PlanReplay, process, scene
    <2> QED  BY <1>1, <2>1
<1>7. CASE Resume
    <2>1. ~worker'.alive /\ journal' = saved.journal /\ saved # Nothing
        BY <1>7, Vocabulary DEF Resume, Workers
    <2>2. OneSource(saved.journal)
        BY <2>1 DEF Exported, OneSource
    <2> QED  BY <2>1, <2>2 DEF Agreement, OneSource
<1>8. CASE RestartRecovered
    <2>1. worker' = worker /\ (journal' = <<>> \/ journal' = journal)
        BY <1>8 DEF RestartRecovered, process
    <2>2. CASE journal' = <<>>
        <3>1. \A i \in 1 .. Len(journal') : FALSE
            BY <2>2
        <3>2. \A i \in Nat : i \in 1 .. Position => ~(i <= Len(journal'))
            BY <2>2
        <3> QED  BY <2>1, <3>1, <3>2 DEF Agreement, OneSource, Position
    <2> QED  BY <1>1, <2>1, <2>2
<1>9. ASSUME NEW c \in Commands, Admissible(Position), Position <= JournalLimit, worker.alive,
             Executes(c), journal' = Merged(Position, Executed(c))
      PROVE  Agreement'
    <2>1. /\ worker'.source = worker.source /\ Len(worker'.history) = Position + 1
          /\ \A i \in 1 .. Position : worker'.history[i] = worker.history[i]
          /\ worker'.history[Position + 1] = c
        BY <1>9, ExecutesTypes
    <2>2. /\ Len(journal') = Position + 1
          /\ \A i \in 1 .. Position : journal'[i] = journal[i]
          /\ journal'[Position + 1].command = c /\ journal'[Position + 1].source = worker.source
        BY <1>9, MergedJournal
    <2>3. ASSUME NEW i \in 1 .. Position + 1
          PROVE  journal'[i].command = worker'.history[i] /\ journal'[i].source = worker.source
        <3>1. CASE i = Position + 1
            BY <2>1, <2>2, <3>1
        <3>2. CASE i \in 1 .. Position
            <4>1. i <= Len(journal)
                BY <1>9, <3>2 DEF Admissible
            <4> QED  BY <1>9, <2>1, <2>2, <3>2, <4>1 DEF Agreement
        <3> QED  BY <3>1, <3>2
    <2>4. Position' = Position + 1
        BY <2>1 DEF Position
    <2> QED  BY <2>1, <2>2, <2>3, <2>4 DEF Agreement, OneSource
<1>10. CASE Commit
    BY <1>9, <1>10, Requested DEF Commit, Exchanges
<1>11. CASE Reexecute
    BY <1>9, <1>11, HeadTailProperties DEF Reexecute, Exchanges
<1>12. QED
    BY <1>2, <1>3, <1>4, <1>5, <1>6, <1>7, <1>8, <1>10, <1>11, StepIs

\* A command merged where the journal ends is appended to it.
LEMMA MergedAtTheEndOfTheJournal ==
    ASSUME Typing, NEW c \in Commands, Admissible(Position), Position = Len(journal)
    PROVE  CommandsOf(Merged(Position, Executed(c))) = Append(CommandsOf(journal), c)
<1> DEFINE j == Merged(Position, Executed(c))
<1>1. /\ j \in Seq(Entries) /\ Len(j) = Len(journal) + 1
      /\ \A i \in 1 .. Len(journal) : j[i] = journal[i]
      /\ j[Len(journal) + 1].command = c
    BY MergedJournal DEF Journals
<1> HIDE DEF j
<1>2. /\ CommandsOf(journal) \in Seq(Commands) /\ Len(CommandsOf(journal)) = Len(journal)
      /\ \A i \in 1 .. Len(journal) : CommandsOf(journal)[i] = journal[i].command
    BY Types, CommandsAre
<1>3. /\ CommandsOf(j) \in Seq(Commands) /\ Len(CommandsOf(j)) = Len(journal) + 1
      /\ \A i \in 1 .. Len(journal) + 1 : CommandsOf(j)[i] = j[i].command
    BY <1>1, CommandsAre
<1> DEFINE a == Append(CommandsOf(journal), c)
<1>4. /\ a \in Seq(Commands) /\ Len(a) = Len(journal) + 1
      /\ \A i \in 1 .. Len(journal) : a[i] = CommandsOf(journal)[i]
      /\ a[Len(journal) + 1] = c
    BY <1>2, AppendProperties
<1> HIDE DEF a
<1>5. ASSUME NEW i \in 1 .. Len(journal) + 1
      PROVE  CommandsOf(j)[i] = a[i]
    <2>1. i = Len(journal) + 1 \/ i \in 1 .. Len(journal)
        BY Types
    <2> QED  BY <1>1, <1>2, <1>3, <1>4, <2>1
<1>6. CommandsOf(j) = a
    BY <1>3, <1>4, <1>5, SeqEqual
<1>7. QED
    BY <1>6 DEF j, a

\* A recovery of an attested, unedited host is not refused.
LEMMA AttestedRecoveries ==
    ASSUME SessionInv, Attested, edits = 0
    PROVE  ~RecoveryRefused
<1> USE Types DEF SessionInv
<1>1. SUFFICES ASSUME RecoveryRefused PROVE FALSE
    OBVIOUS
<1>2. worker.source = disk /\ \A i \in 1 .. Len(journal) : journal[i].source = disk
    BY <1>1 DEF Attestation, RecoveryRefused
<1>3. CASE step = "restore" /\ journal[Checkpoint(reuse)].source # worker.source
    <2>1. Checkpoint(reuse) \in 0 .. reuse /\ Checkpoint(reuse) > 0
        BY <1>3, CheckpointIs DEF Recovery
    <2>2. Checkpoint(reuse) \in 1 .. Len(journal)
        BY <2>1
    <2> QED  BY <1>2, <1>3, <2>2
<1>4. CASE ~SameSource(Position, reuse)
    <2>1. \A i \in Position + 1 .. reuse : i \in 1 .. Len(journal)
        OBVIOUS
    <2> QED  BY <1>2, <1>4, <2>1 DEF SameSource
<1>5. QED
    BY <1>1, <1>3, <1>4 DEF RecoveryRefused

\* Where sources are attested and nothing was edited, all are the disk's, and a
\* recovery goes through to the end of the journal.
LEMMA AttestationKept ==
    ASSUME SessionInv, [Next]_vars
    PROVE  Attestation'
<1> USE Types DEF SessionInv
<1> DEFINE Same == UNCHANGED <<host, disk, edits>>
           Whole == /\ CommandsOf(journal)' = acked'
                    /\ \A i \in 1 .. Len(journal') : journal'[i].source = disk'
           Runs == worker'.alive => worker'.source = disk'
           Reaches == worker'.alive /\ step' \notin {"plan", "restore", "replay", "coldreplay"} =>
                         Position' >= Len(journal')
           Plans == /\ step' \in Recovering \ {"plan"} => reuse' = Len(journal')
                    /\ step' = "reexecute" => incoming' = <<>>
<1>1. ASSUME Same, Attested /\ edits = 0 => Whole /\ Runs /\ Reaches /\ Plans
      PROVE  Attestation'
    BY <1>1 DEF Attestation, Attested
<1>2. ASSUME UNCHANGED <<host, disk, edits, journal, acked>>, Attested /\ edits = 0
      PROVE  Same /\ Whole
    <2>1. CommandsOf(journal)' = CommandsOf(journal)
        BY <1>2 DEF CommandsOf
    <2> QED  BY <1>2, <2>1 DEF Attestation
<1> HIDE DEF Whole, Runs, Reaches, Plans
<1>3. CASE Begun
    <2>1. /\ UNCHANGED <<host, disk, edits, journal, acked, worker>>
          /\ step = "idle" /\ step' \in {"play", "look", "rebuild"}
        BY <1>3 DEF Begun, Kept
    <2>2. Attested /\ edits = 0 => Runs /\ Reaches /\ Plans
        BY <2>1 DEF Attestation, Runs, Reaches, Plans, Position, Recovering
    <2> QED  BY <1>1, <1>2, <2>1, <2>2
<1>4. CASE \E outcome \in {"ok", "error"} : Ended(outcome)
    <2>1. PICK outcome \in {"ok", "error"} : Ended(outcome)
        BY <1>4
    <2>2. /\ UNCHANGED <<host, disk, edits, journal, acked>> /\ step' \in {"idle", "down"}
        BY <2>1, Returned, Zenon DEF Ended
    <2>3. ASSUME Attested, edits = 0, worker'.alive
          PROVE  worker'.source = disk /\ Len(worker'.history) >= Len(journal)
        <3>1. /\ worker.alive /\ worker'.source = worker.source
              /\ \/ worker'.history = worker.history
                 \/ Len(journal) <= Position /\ GoesOn(worker.history, worker'.history)
              /\ step \in {"restore", "replay", "coldreplay"} => RecoveryRefused
              /\ step # "plan"
            BY <2>1, <2>3, Zenon DEF Ended
        <3>2. worker.source = disk /\ \A i \in 1 .. Len(journal) : journal[i].source = disk
            BY <2>3, <3>1 DEF Attestation
        <3>3. ~RecoveryRefused
            BY <2>3, AttestedRecoveries
        <3>4. Position >= Len(journal)
            BY <2>3, <3>1, <3>3 DEF Attestation
        <3>5. Len(worker'.history) >= Len(journal)
            <4>1. CASE worker'.history = worker.history
                BY <3>4, <4>1 DEF Position
            <4>2. CASE Len(journal) <= Position /\ GoesOn(worker.history, worker'.history)
                <5>1. PICK n \in Nat : n = Len(worker'.history)
                    <6>1. worker'.history \in Seq(Commands)
                        BY TypingKept, HistoryIs DEF Typing
                    <6> QED  BY <6>1
                <5> QED  BY <4>2, <5>1 DEF GoesOn, Position
            <4> QED  BY <3>1, <4>1, <4>2
        <3> QED  BY <3>1, <3>2, <3>5
    <2>4. Attested /\ edits = 0 => Runs /\ Reaches /\ Plans
        BY <2>2, <2>3 DEF Runs, Reaches, Plans, Position, Recovering
    <2> QED  BY <1>1, <1>2, <2>2, <2>4
<1>5. CASE Crashed
    <2>1. /\ UNCHANGED <<host, disk, edits, journal, acked>> /\ ~worker'.alive
          /\ step' = "launch"
        BY <1>5 DEF Crashed
    <2>2. Runs /\ Reaches /\ Plans
        BY <2>1 DEF Runs, Reaches, Plans, Recovering
    <2> QED  BY <1>1, <1>2, <2>1, <2>2
<1>6. CASE Installed
    <2>1. /\ UNCHANGED <<host, disk, edits, journal, acked, reuse>>
          /\ worker'.source = SourceOf(candidate)
          /\ \/ step = "launch" /\ step' = "plan"
             \/ step = "relaunch" /\ step' = "coldreplay"
        BY <1>6 DEF Installed, Kept
    <2>2. Attested /\ edits = 0 => Runs /\ Reaches /\ Plans
        BY <2>1 DEF Attestation, Runs, Reaches, Plans, SourceOf, Recovering
    <2> QED  BY <1>1, <1>2, <2>1, <2>2
<1>7. CASE Restored
    <2>1. /\ UNCHANGED <<host, disk, edits, journal, acked, reuse>>
          /\ step \in {"restore", "replay", "coldreplay"}
          /\ worker.alive /\ worker'.source = worker.source
          /\ \/ step' = "replay"
             \/ step' \in {"relaunch", "recovered"} /\ Len(worker'.history) = reuse
        BY <1>7 DEF Restored, Kept
    <2>2. ASSUME Attested, edits = 0
          PROVE  Runs /\ Reaches /\ Plans
        <3>1. reuse = Len(journal) /\ worker.source = disk
            BY <2>1, <2>2 DEF Attestation, Recovering
        <3> QED  BY <2>1, <3>1 DEF Runs, Reaches, Plans, Position, Recovering
    <2> QED  BY <1>1, <1>2, <2>1, <2>2
<1>8. CASE SaveSession \/ UNCHANGED vars
    <2>1. UNCHANGED <<host, disk, edits, journal, acked, worker, step, reuse, incoming>>
        BY <1>8 DEF SaveSession, vars, environment, process, scene, operation
    <2>2. Attested /\ edits = 0 => Runs /\ Reaches /\ Plans
        BY <2>1 DEF Attestation, Runs, Reaches, Plans, Position
    <2> QED  BY <1>1, <1>2, <2>1, <2>2
<1>9. CASE Resume
    <2>1. /\ Same /\ ~worker'.alive /\ journal' = saved.journal /\ saved # Nothing
          /\ acked' = CommandsOf(saved.journal) /\ step' = "rebuild"
        BY <1>9, Vocabulary DEF Resume, Workers, environment
    <2>2. Runs /\ Reaches /\ Plans
        BY <2>1 DEF Runs, Reaches, Plans, Recovering
    <2>3. CommandsOf(journal)' = acked'
        BY <2>1 DEF CommandsOf
    <2>4. Whole
        BY <2>1, <2>3 DEF Whole, Exported
    <2> QED  BY <1>1, <2>1, <2>2, <2>4
<1>10. CASE Rebuild
    <2>1. /\ UNCHANGED <<host, disk, edits, journal, acked, worker>>
          /\ step = "rebuild" /\ step' = "launch"
        BY <1>10 DEF Rebuild, environment, process, scene
    <2>2. Attested /\ edits = 0 => Runs /\ Reaches /\ Plans
        BY <2>1 DEF Attestation, Runs, Reaches, Plans, Position, Recovering
    <2> QED  BY <1>1, <1>2, <2>1, <2>2
<1>11. CASE PlanReplay
    <2>1. /\ UNCHANGED <<host, disk, edits, journal, acked, worker>>
          /\ step = "plan" /\ reuse' = Plan(incoming)
          /\ step' \in {"recovered", "replay", "restore"}
          /\ step' = "recovered" => reuse' = 0
        BY <1>11 DEF PlanReplay, environment, process, scene
    <2>2. ASSUME Attested, edits = 0
          PROVE  Runs /\ Reaches /\ Plans
        <3>1. incoming = CommandsOf(journal)
            BY <2>1, <2>2 DEF Asked, Recovering, Attested
        <3>2. reuse' = Len(journal)
            BY <2>1, <2>2, <3>1, PlanOfTheJournal DEF Attestation
        <3>3. worker.alive /\ worker.source = disk
            BY <2>1, <2>2 DEF Recovery, Recovering, Attestation
        <3>4. Runs /\ Plans
            BY <2>1, <3>2, <3>3 DEF Runs, Plans, Recovering
        <3>5. Reaches
            BY <2>1, <3>2 DEF Reaches, Position
        <3> QED  BY <3>4, <3>5
    <2> QED  BY <1>1, <1>2, <2>1, <2>2
<1>12. CASE RestartRecovered
    <2>1. /\ Same /\ UNCHANGED worker /\ step = "recovered" /\ step' = "reexecute"
          /\ incoming' = SubSeq(incoming, reuse + 1, Len(incoming))
          /\ host # "capture" => UNCHANGED <<journal, acked>>
        BY <1>12 DEF RestartRecovered, environment, process
    <2>2. ASSUME Attested, edits = 0
          PROVE  Whole /\ Runs /\ Reaches /\ Plans
        <3>1. host # "capture" /\ UNCHANGED <<journal, acked>>
            BY <2>1, <2>2 DEF Attested
        <3>2. Len(incoming) = Len(journal) /\ reuse = Len(journal)
            BY <2>1, <2>2, <3>1, CommandsAre DEF Asked, Attestation, Recovering
        <3>3. incoming' = <<>>
            BY <2>1, <3>2
        <3>4. Runs /\ Reaches /\ Plans
            BY <2>1, <2>2, <3>1, <3>3 DEF Attestation, Runs, Reaches, Plans, Position, Recovering
        <3> QED  BY <1>2, <2>1, <2>2, <3>1, <3>4
    <2> QED  BY <1>1, <2>1, <2>2
<1>13. CASE Commit
    <2>1. /\ Same /\ step = "play" /\ worker.alive /\ Admissible(Position) /\ Executes(op.command)
          /\ journal' = Merged(Position, Executed(op.command))
          /\ acked' = Append(acked, op.command) /\ step' = "show"
          /\ op.command \in Commands /\ Position <= JournalLimit
        BY <1>13, Requested DEF Commit, Goto, environment, Exchanges
    <2>2. ASSUME Attested, edits = 0
          PROVE  Whole /\ Runs /\ Reaches /\ Plans
        <3>1. /\ Position = Len(journal) /\ worker.source = disk
              /\ CommandsOf(journal) = acked
              /\ \A i \in 1 .. Len(journal) : journal[i].source = disk
            BY <2>1, <2>2 DEF Attestation, Admissible
        <3>2. CommandsOf(journal)' = acked'
            <4>1. CommandsOf(journal)' = CommandsOf(journal')
                BY DEF CommandsOf
            <4> QED  BY <2>1, <3>1, <4>1, MergedAtTheEndOfTheJournal
        <3>3. /\ Len(journal') = Position + 1
              /\ \A i \in 1 .. Position : journal'[i] = journal[i]
              /\ journal'[Position + 1].source = worker.source
            BY <2>1, MergedJournal
        <3>4. Whole
            <4>1. ASSUME NEW i \in 1 .. Position + 1
                  PROVE  journal'[i].source = disk
                <5>1. i = Position + 1 \/ i \in 1 .. Position
                    OBVIOUS
                <5> QED  BY <3>1, <3>3, <5>1
            <4> QED  BY <2>1, <3>2, <3>3, <4>1 DEF Whole
        <3>5. worker'.source = worker.source /\ Len(worker'.history) = Position + 1
            BY <2>1, ExecutesTypes
        <3>6. Runs /\ Reaches /\ Plans
            BY <2>1, <3>1, <3>3, <3>5 DEF Runs, Reaches, Plans, Position, Recovering
        <3> QED  BY <3>4, <3>6
    <2> QED  BY <1>1, <2>1, <2>2
<1>14. CASE Reexecute
    <2>1. Same /\ step = "reexecute" /\ incoming # <<>>
        BY <1>14 DEF Reexecute, environment
    <2> QED  BY <1>1, <2>1 DEF Attestation
<1>15. CASE EditSource
    BY <1>15 DEF EditSource, Attestation, Typing
<1>16. QED
    BY <1>3, <1>4, <1>5, <1>6, <1>7, <1>8, <1>9, <1>10, <1>11, <1>12, <1>13, <1>14, <1>15, StepIs

\* An exported session is whole, and a live host shows the last frame of its journal.
LEMMA ExportedKept ==
    ASSUME SessionInv, [Next]_vars
    PROVE  Exported'
<1> USE Types DEF SessionInv
<1> DEFINE Shows == host = "live" /\ op'.kind # "resume" /\ step' # "down" /\ journal' # <<>> =>
                        committed' = LastFrame(journal')
<1>0. Nothing.kind = "none"
    BY Vocabulary
<1>1. ASSUME UNCHANGED <<host, disk, saved>>, Shows,
             op'.kind = "resume" => saved # Nothing /\ journal' = saved.journal
      PROVE  Exported'
    BY <1>1, Zenon DEF Exported, LastFrame
<1>2. CASE Begun
    <2>1. /\ UNCHANGED <<host, disk, saved, journal, committed>> /\ step = "idle"
          /\ op'.kind # "resume" /\ op.kind = "none"
        BY <1>0, <1>2 DEF Begun, Kept, Exchanges
    <2>2. Shows
        BY <2>1 DEF Exported
    <2> QED  BY <1>1, <2>1, <2>2
<1>3. CASE \E outcome \in {"ok", "error"} : Ended(outcome)
    <2>1. PICK outcome \in {"ok", "error"} : Ended(outcome)
        BY <1>3
    <2>2. /\ UNCHANGED <<host, disk, saved, journal>> /\ op' = Nothing
          /\ step # "down"
          /\ step' = IF op.kind = "resume" /\ outcome = "error" THEN "down" ELSE "idle"
          /\ host = "live" => IF op.kind = "resume"
                              THEN outcome = "ok" => committed' = saved.committed
                              ELSE committed' = committed
        BY <2>1, Returned, Zenon DEF Ended
    <2>3. CASE op.kind = "resume"
        <3>1. saved # Nothing /\ journal = saved.journal
            BY <2>3 DEF Exported
        <3>2. host = "live" /\ step' # "down" => committed' = saved.committed
            BY <2>1, <2>2, <2>3
        <3>3. Shows
            BY <2>2, <3>1, <3>2 DEF Exported
        <3> QED  BY <1>0, <1>1, <2>2, <3>3
    <2>4. CASE op.kind # "resume"
        <3>1. Shows
            BY <2>2, <2>4 DEF Exported
        <3> QED  BY <1>0, <1>1, <2>2, <3>1
    <2> QED  BY <2>3, <2>4
<1>4. CASE Crashed \/ Installed \/ Restored \/ Rebuild \/ PlanReplay
    <2>1. /\ UNCHANGED <<host, disk, saved, journal, committed, op>>
          /\ step # "down"
        BY <1>4 DEF Crashed, Installed, Restored, Rebuild, PlanReplay, Kept, environment, scene
    <2>2. Shows
        BY <2>1 DEF Exported
    <2> QED  BY <1>1, <2>1, <2>2 DEF Exported
<1>5. CASE UNCHANGED vars
    BY <1>5 DEF vars, environment, scene, operation, Exported, LastFrame
<1>6. CASE SaveSession
    <2>1. /\ step = "idle" /\ host = "live" /\ Plan(CommandsOf(journal)) = Len(journal)
          /\ journal = <<>> => committed = 0
          /\ saved' = [kind |-> "saved", journal |-> journal, committed |-> committed]
          /\ UNCHANGED <<host, disk, journal, committed, op, step>>
        BY <1>6, Zenon DEF SaveSession, Idle, environment, scene, operation
    <2>2. op.kind = "none"
        BY <1>0, <2>1 DEF Exchanges
    <2>3. committed = LastFrame(journal)
        BY <2>1, <2>2 DEF Exported, LastFrame
    <2>4. \A i \in 1 .. Len(journal) : journal[i].source = disk
        BY <2>1, PlanIs
    <2>5. saved'.journal = journal /\ saved'.committed = committed
        BY <2>1
    <2> HIDE DEF Shows
    <2> QED  BY <2>1, <2>2, <2>3, <2>4, <2>5 DEF Exported, LastFrame
<1>7. CASE Resume
    <2>1. /\ UNCHANGED <<host, disk, saved>> /\ journal' = saved.journal /\ saved # Nothing
          /\ op'.kind = "resume"
        BY <1>7, Vocabulary DEF Resume, environment
    <2> QED  BY <1>1, <2>1
<1>8. CASE RestartRecovered
    <2>1. /\ UNCHANGED <<host, disk, saved, committed, op>> /\ op.kind = "restart"
          /\ host # "capture" => journal' = journal
          /\ step = "recovered"
        BY <1>8 DEF RestartRecovered, environment
    <2>2. Shows
        BY <2>1 DEF Exported
    <2> QED  BY <1>1, <2>1, <2>2
<1>9. CASE Commit
    <2>1. /\ UNCHANGED <<host, disk, saved, op>> /\ op.kind \in {"seek", "edit"}
          /\ op.command \in Commands /\ Admissible(Position) /\ committed' = op.command
          /\ journal' = Merged(Position, Executed(op.command))
        BY <1>9, Requested DEF Commit, Goto, environment, Exchanges
    <2>2. Len(journal') = Position + 1 /\ journal'[Position + 1].command = op.command
        BY <2>1, MergedJournal
    <2>3. Shows
        BY <2>1, <2>2 DEF LastFrame
    <2> QED  BY <1>1, <2>1, <2>3
<1>10. CASE Reexecute
    <2>1. /\ UNCHANGED <<host, disk, saved, op>> /\ op.kind = "restart"
          /\ step = "reexecute" /\ incoming # <<>>
        BY <1>10 DEF Reexecute, environment, Exchanges
    <2>2. host # "live"
        BY <2>1 DEF Attestation, Attested
    <2> QED  BY <1>1, <2>1, <2>2
<1>11. CASE EditSource
    <2>1. host # "live" /\ UNCHANGED <<host, saved, op, journal>>
        BY <1>11 DEF EditSource, scene, operation
    <2> HIDE DEF Shows
    <2> QED  BY <2>1 DEF Exported, LastFrame
<1>12. QED
    BY <1>2, <1>3, <1>4, <1>5, <1>6, <1>7, <1>8, <1>9, <1>10, <1>11, StepIs

\* What a client holds came from the worker of its generation, which goes on from it.
LEMMA InspectedKept ==
    ASSUME SessionInv, [Next]_vars
    PROVE  Inspected'
<1> USE Types DEF SessionInv
<1>0. /\ token # Nothing => token.generation \in Nat /\ token.history \in Seq(Commands)
      /\ generation \in Nat
    BY HistoryIs DEF Typing, Tokens
<1>1. ASSUME UNCHANGED <<host, token, generation>>,
             worker'.alive => /\ worker.alive /\ worker'.source = worker.source
                              /\ \/ worker'.history = worker.history
                                 \/ GoesOn(worker.history, worker'.history),
             step' \in Recovering => step \in Recovering,
             step' = "play" /\ op'.kind = "edit" => token # Nothing /\ token.generation = generation
      PROVE  Inspected'
    <2>1. ASSUME token # Nothing, token.generation = generation, worker'.alive
          PROVE  token.source = worker'.source /\ GoesOn(token.history, worker'.history)
        <3>1. /\ worker.alive /\ worker'.source = worker.source
              /\ token.source = worker.source /\ GoesOn(token.history, worker.history)
            BY <1>1, <2>1 DEF Inspected
        <3>2. CASE worker'.history = worker.history
            BY <3>1, <3>2
        <3>3. CASE GoesOn(worker.history, worker'.history)
            <4>1. /\ Len(token.history) \in Nat /\ Len(token.history) <= Position
                  /\ worker'.history \in Seq(Commands)
                BY <1>0, <2>1, <3>1, TypingKept, HistoryIs DEF GoesOn, Position, Typing
            <4>2. \A i \in 1 .. Len(token.history) : i \in 1 .. Position
                BY <4>1
            <4>3. Len(token.history) <= Len(worker'.history)
                BY <3>3, <4>1 DEF GoesOn, Position
            <4> QED  BY <3>1, <3>3, <4>2, <4>3 DEF GoesOn, Position
        <3> QED  BY <1>1, <2>1, <3>1, <3>2, <3>3
    <2>2. RevisionOf(token.history)' = RevisionOf(token.history)
        BY <1>1 DEF RevisionOf, EditsIn
    <2> QED  BY <1>1, <2>1, <2>2 DEF Inspected
<1>2. CASE Begun
    <2>1. op'.kind = "edit" => token # Nothing /\ token.generation = generation
        BY <1>2, Vocabulary DEF Begun, Admits
    <2>2. step' \notin Recovering
        BY <1>2 DEF Begun, Recovering
    <2> QED  BY <1>1, <1>2, <2>1, <2>2 DEF Begun, Kept
<1>3. CASE \E outcome \in {"ok", "error"} : Ended(outcome)
    <2>1. PICK outcome \in {"ok", "error"} : Ended(outcome)
        BY <1>3
    <2>2. step' \in {"idle", "down"} /\ UNCHANGED <<host, generation>>
        BY <2>1, Returned, Zenon DEF Ended
    <2>3. step' \notin Recovering /\ step' # "play"
        BY <2>2 DEF Recovering
    <2>4. CASE token' = token
        <3>1. worker'.alive => /\ worker.alive /\ worker'.source = worker.source
                               /\ \/ worker'.history = worker.history
                                  \/ GoesOn(worker.history, worker'.history)
            BY <2>1, Zenon DEF Ended
        <3> QED  BY <1>1, <2>2, <2>3, <2>4, <3>1
    <2>5. CASE Look /\ token' # token
        <3>1. /\ worker' = worker
              /\ token' = [kind |-> "token", generation |-> generation, revision |-> Revision,
                           source |-> worker.source, history |-> worker.history]
            BY <2>5 DEF Look, Shown, process
        <3>2. /\ token'.generation = generation /\ token'.revision = RevisionOf(worker.history)
              /\ token'.source = worker.source /\ token'.history = worker.history
            BY <3>1 DEF Revision
        <3>3. RevisionOf(token.history)' = RevisionOf(token'.history)
            BY <2>2 DEF RevisionOf, EditsIn
        <3>4. GoesOn(worker.history, worker.history)
            BY DEF GoesOn, Position
        <3> QED  BY <1>0, <2>2, <2>3, <3>1, <3>2, <3>3, <3>4 DEF Inspected
    <2> QED  BY <2>1, <2>4, <2>5, Zenon DEF Ended
<1>4. CASE Crashed
    <2>1. UNCHANGED <<host, token, generation>> /\ ~worker'.alive /\ step' = "launch"
        BY <1>4 DEF Crashed
    <2> QED  BY <1>1, <2>1 DEF Recovering
<1>5. CASE Installed
    <2>1. /\ UNCHANGED <<host, token>> /\ generation' = generation + 1
          /\ step' \in {"plan", "coldreplay"}
        BY <1>5 DEF Installed, Kept
    <2>2. RevisionOf(token.history)' = RevisionOf(token.history)
        BY <2>1 DEF RevisionOf, EditsIn
    <2>3. token # Nothing => token.generation < generation'
        BY <1>0, <2>1 DEF Inspected
    <2>4. token # Nothing => token.generation <= generation' /\ token.generation # generation'
        BY <1>0, <2>1, <2>3
    <2> QED  BY <2>1, <2>2, <2>3, <2>4 DEF Inspected
<1>6. CASE Restored
    <2>1. /\ UNCHANGED <<host, token, generation>> /\ step \in Recovering /\ step' # "play"
        BY <1>6 DEF Restored, Kept, Recovering
    <2>2. RevisionOf(token.history)' = RevisionOf(token.history)
        BY <2>1 DEF RevisionOf, EditsIn
    <2>3. token # Nothing => token.generation < generation /\ token.generation # generation
        BY <1>0, <2>1 DEF Inspected
    <2> QED  BY <2>1, <2>2, <2>3 DEF Inspected
<1>7. CASE SaveSession \/ EditSource \/ UNCHANGED vars
    <2>1. UNCHANGED <<host, token, generation, worker, step, op>>
        BY <1>7 DEF SaveSession, EditSource, vars, environment, process, operation
    <2> QED  BY <1>1, <2>1 DEF Inspected
<1>8. CASE Resume
    BY <1>8 DEF Resume, Inspected
<1>9. CASE Rebuild \/ PlanReplay \/ RestartRecovered
    <2>1. /\ UNCHANGED <<host, token, generation, worker>>
          /\ step' # "play" /\ (step' \in Recovering => step \in Recovering)
        BY <1>9 DEF Rebuild, PlanReplay, RestartRecovered, environment, process, Recovering
    <2> QED  BY <1>1, <2>1
<1>10. CASE Commit \/ Reexecute
    <2>1. PICK c \in Commands : Executes(c)
        <3>1. CASE Commit
            BY <3>1, Requested DEF Commit, Exchanges
        <3>2. CASE Reexecute
            BY <3>2, HeadTailProperties DEF Reexecute
        <3> QED  BY <1>10, <3>1, <3>2
    <2>2. /\ UNCHANGED <<host, token, generation>> /\ Position <= JournalLimit
          /\ step' \in {"show", "reexecute"}
        BY <1>10 DEF Commit, Goto, Reexecute, environment, Exchanges
    <2>3. /\ worker'.alive = worker.alive /\ worker'.source = worker.source
          /\ GoesOn(worker.history, worker'.history)
        <3>1. /\ worker'.alive = worker.alive /\ worker'.source = worker.source
              /\ Len(worker'.history) = Position + 1
              /\ \A i \in 1 .. Position : worker'.history[i] = worker.history[i]
            BY <2>1, <2>2, ExecutesTypes
        <3> QED  BY <3>1 DEF GoesOn, Position
    <2>4. step' # "play" /\ step' \notin Recovering
        BY <2>2 DEF Recovering
    <2> QED  BY <1>1, <2>2, <2>3, <2>4
<1>11. QED
    BY <1>2, <1>3, <1>4, <1>5, <1>6, <1>7, <1>8, <1>9, <1>10, StepIs

----------------------------------------------------------------------------
\* The theorems

\* A host starts agreed, attested and with nothing exported.
LEMMA InitEstablishes ==
    ASSUME Init
    PROVE  SessionInv
<1> DEFINE opening == IF host = "project" THEN <<0>> ELSE <<>>
<1>0. 0 \in Commands /\ JournalLimit \in Nat /\ 1 <= JournalLimit
    BY FramesAssumption, BoundsAssumption DEF Commands
<1>1. /\ opening \in Seq(Commands) /\ Len(opening) \in 0 .. 1
      /\ \A i \in 1 .. Len(opening) : opening[i] = 0
    BY <1>0
<1>2. opening \in Histories /\ <<>> \in Histories
    <2>1. /\ Len(opening) <= JournalLimit + 1
          /\ <<>> \in Seq(Commands) /\ Len(<<>>) <= JournalLimit + 1
        BY <1>0, <1>1
    <2> QED  BY <1>1, <2>1, HistoryIs
<1>3. /\ host \in Hosts /\ disk \in Sources /\ artifact = disk /\ candidate = disk
      /\ worker = [Fresh(disk) EXCEPT !.history = opening]
      /\ journal = [i \in 1 .. Len(opening) |->
                       [command |-> 0, source |-> disk, checkpoint |-> TRUE]]
      /\ acked = opening /\ generation = 1 /\ committed = 0
      /\ op = Nothing /\ step = "idle" /\ crashing = FALSE
      /\ incoming = <<>> /\ reuse = 0 /\ token = Nothing /\ saved = Nothing
      /\ edits = 0 /\ troubles = 0
    BY DEF Init
<1> HIDE DEF opening
<1>4. /\ worker \in Workers /\ worker.alive = TRUE /\ worker.source = disk
      /\ worker.history = opening
    BY <1>2, <1>3 DEF Fresh, Workers
<1>5. /\ journal \in Seq(Entries) /\ Len(journal) = Len(opening)
      /\ \A i \in 1 .. Len(opening) : journal[i].command = 0 /\ journal[i].source = disk
    <2>1. [command |-> 0, source |-> disk, checkpoint |-> TRUE] \in Entries
        BY <1>0, <1>3 DEF Entries
    <2>2. journal \in [1 .. Len(opening) -> Entries] /\ Len(opening) \in Nat
        BY <1>1, <1>3, <2>1
    <2>3. \A i \in 1 .. Len(opening) :
             journal[i] = [command |-> 0, source |-> disk, checkpoint |-> TRUE]
        BY <1>3
    <2> QED  BY <2>2, <2>3
<1>6. Typing
    <2>1. journal \in Journals /\ reuse \in 0 .. Len(journal)
        <3>1. Len(journal) \in Nat /\ Len(journal) <= JournalLimit
            BY <1>0, <1>1, <1>5
        <3>2. journal \in Journals
            BY <1>5, <3>1 DEF Journals
        <3>3. 0 \in 0 .. Len(journal)
            BY <3>1
        <3> QED  BY <1>3, <3>2, <3>3
    <2>2. step \in Steps /\ crashing \in BOOLEAN
        BY <1>3 DEF Steps
    <2> QED  BY <1>0, <1>1, <1>2, <1>3, <1>4, <2>1, <2>2 DEF Typing, Workers
<1>7. CommandsOf(journal) = acked
    <2>1. /\ CommandsOf(journal) \in Seq(Commands) /\ Len(CommandsOf(journal)) = Len(opening)
          /\ \A i \in 1 .. Len(opening) : CommandsOf(journal)[i] = 0
        BY <1>5, CommandsAre
    <2> QED  BY <1>1, <1>3, <2>1, SeqEqual
<1>8. Exchanges /\ Recovery /\ Asked
    <2>1. /\ step = "idle" /\ step \notin Recovering /\ op = Nothing /\ crashing = FALSE
          /\ reuse = 0
        BY <1>3 DEF Recovering
    <2> QED  BY <2>1 DEF Exchanges, Recovery, Asked, Recovering
<1>9. Agreement /\ Attestation
    <2>1. Agreement
        BY <1>1, <1>4, <1>5 DEF Agreement, OneSource, Position
    <2>2. Position >= Len(journal)
        BY <1>1, <1>4, <1>5 DEF Position
    <2>3. step = "idle" /\ step \notin Recovering
        BY <1>3 DEF Recovering
    <2>4. \A i \in 1 .. Len(journal) : journal[i].source = disk
        BY <1>5
    <2>5. Attestation
        BY <1>3, <1>4, <1>7, <2>2, <2>3, <2>4 DEF Attestation
    <2> QED  BY <2>1, <2>5
<1>10. Exported /\ Inspected
    <2>1. op.kind = "none"
        BY <1>3, Vocabulary
    <2>2. host = "live" => journal = <<>>
        BY <1>3 DEF opening
    <2> QED  BY <1>3, <2>1, <2>2 DEF Exported, Inspected
<1>11. QED
    BY <1>6, <1>8, <1>9, <1>10 DEF SessionInv

\* The inductive invariant: a running worker and the journal agree as far as
\* both go, whatever operation, recovery or fault is under way.
THEOREM SessionInvariant == Spec => []SessionInv
<1>1. Init => SessionInv
    BY InitEstablishes
<1>2. SessionInv /\ [Next]_vars => SessionInv'
    <2> SUFFICES ASSUME SessionInv, [Next]_vars PROVE SessionInv'
        OBVIOUS
    <2>1. Typing /\ Exchanges /\ Exported /\ Recovery
        BY DEF SessionInv
    <2>2. Typing'
        BY <2>1, TypingKept
    <2>3. Exchanges' /\ Recovery' /\ Asked' /\ Agreement'
        BY ExchangesKept, RecoveryKept, AskedKept, AgreementKept
    <2>4. Attestation' /\ Exported' /\ Inspected'
        BY AttestationKept, ExportedKept, InspectedKept
    <2> QED  BY <2>2, <2>3, <2>4 DEF SessionInv
<1>3. QED
    BY <1>1, <1>2, PTL DEF Spec

\* Type correctness, with the discipline of operations and exchanges.
THEOREM SessionTyping == Spec => []SessionTypeOK
<1>1. SessionInv => SessionTypeOK
    <2> SUFFICES ASSUME SessionInv PROVE SessionTypeOK
        OBVIOUS
    <2> USE DEF SessionInv
    <2>1. op.kind \in Operations
        BY DEF Typing, Requests, Nothing, Operations
    <2>2. (op.kind = "none") = (step \in {"idle", "down"})
        <3>1. CASE step \in {"idle", "down"}
            BY <3>1, Vocabulary DEF Exchanges
        <3>2. CASE step \notin {"idle", "down"}
            <4>1. step \in {"play", "show", "look", "reexecute", "rebuild", "launch"} \cup Recovering
                <5>1. step \in Steps
                    BY DEF Typing
                <5> QED  BY <3>2, <5>1 DEF Steps, Recovering
            <4>2. op.kind \in {"seek", "edit", "preview", "inspect", "restart", "resume"}
                BY <4>1 DEF Exchanges, Recovering
            <4> QED  BY <3>2, <4>2
        <3> QED  BY <3>1, <3>2
    <2>3. step \in {"replay", "coldreplay"} => worker.alive /\ Position <= reuse
        BY Types DEF Recovery, Recovering, Position
    <2> QED  BY <2>1, <2>2, <2>3, Types DEF Typing, SessionTypeOK
<1>2. QED
    BY <1>1, SessionInvariant, PTL

\* While the reads of the journal still verify, no crash, restart, refusal or
\* failed merge loses an acknowledged commit.
THEOREM SessionCommits == Spec => []AttestedCommitsSurvive
<1>1. SessionInv => AttestedCommitsSurvive
    BY DEF SessionInv, Attestation, AttestedCommitsSurvive
<1>2. QED
    BY <1>1, SessionInvariant, PTL

\* A history that goes on from another with as many edits has only other
\* commands in what it adds.
LEMMA SameEditsAdded ==
    ASSUME NEW from \in Seq(Commands), NEW to \in Seq(Commands), GoesOn(from, to),
           Cardinality(EditsIn(from)) = Cardinality(EditsIn(to))
    PROVE  \A i \in 1 .. Len(to) : ~(i <= Len(from)) => to[i] \notin Edits
<1>1. IsFiniteSet(EditsIn(to))
    <2>1. IsFiniteSet(1 .. Len(to))
        BY FS_Interval
    <2> QED  BY <2>1, FS_Subset DEF EditsIn
<1>2. EditsIn(from) \subseteq EditsIn(to)
    BY DEF EditsIn, GoesOn
<1>3. EditsIn(from) = EditsIn(to)
    BY <1>1, <1>2, FS_Subset
<1>4. QED
    BY <1>3 DEF EditsIn

\* A guarded edit runs on the scene its client inspected.
THEOREM SessionEdits == Spec => []EditsMeetTheSceneInspected
<1>1. SessionInv => EditsMeetTheSceneInspected
    <2> SUFFICES ASSUME SessionInv, step = "play", op.kind = "edit", worker.alive, RevisionFits
                 PROVE  /\ token.source = worker.source
                        /\ Len(token.history) <= Position
                        /\ \A i \in 1 .. Position :
                              IF i <= Len(token.history)
                              THEN worker.history[i] = token.history[i]
                              ELSE host = "capture" /\ worker.history[i] \notin Edits
        BY DEF EditsMeetTheSceneInspected
    <2>1. /\ token # Nothing /\ token.source = worker.source
          /\ GoesOn(token.history, worker.history)
          /\ RevisionOf(token.history) = RevisionOf(worker.history)
        BY DEF SessionInv, Inspected, RevisionFits, Revision
    <2>2. token.history \in Seq(Commands) /\ worker.history \in Seq(Commands)
        BY <2>1, Types, HistoryIs DEF SessionInv, Typing, Tokens
    <2>3. ASSUME NEW i \in 1 .. Position, ~(i <= Len(token.history))
          PROVE  host = "capture" /\ worker.history[i] \notin Edits
        <3>1. host = "capture"
            BY <2>1, <2>2, <2>3 DEF RevisionOf, Position
        <3>2. Cardinality(EditsIn(token.history)) = Cardinality(EditsIn(worker.history))
            BY <2>1, <3>1 DEF RevisionOf
        <3> QED  BY <2>1, <2>2, <2>3, <3>1, <3>2, SameEditsAdded DEF Position
    <2> QED  BY <2>1, <2>3 DEF GoesOn, Position
<1>2. QED
    BY <1>1, SessionInvariant, PTL

\* The journal a step writes is the running worker's execution, from one source.
THEOREM SessionJournal == Spec => JournalIsOneExecution
<1>1. ASSUME SessionInv, [Next]_vars, journal' # journal, op.kind # "none"
      PROVE  /\ CommandsOf(journal') = worker'.history
             /\ \A i \in 1 .. Len(journal') : journal'[i].source = worker'.source
    <2> USE <1>1, Types DEF SessionInv
    <2>1. ASSUME NEW c \in Commands, Admissible(Position), Position <= JournalLimit, worker.alive,
                 Executes(c), journal' = Merged(Position, Executed(c))
          PROVE  /\ CommandsOf(journal') = worker'.history
                 /\ \A i \in 1 .. Len(journal') : journal'[i].source = worker'.source
        <3>1. /\ worker'.alive /\ Len(worker'.history) = Position + 1
              /\ worker'.history \in Seq(Commands)
            BY <2>1, ExecutesTypes, TypingKept, <1>1, HistoryIs DEF Typing
        <3>2. journal' \in Seq(Entries) /\ Len(journal') = Position + 1
            BY <2>1, MergedJournal DEF Journals
        <3>3. \A i \in 1 .. Position + 1 :
                 journal'[i].command = worker'.history[i] /\ journal'[i].source = worker'.source
            BY <1>1, <3>1, <3>2, AgreementKept DEF Agreement, Position
        <3>4. /\ CommandsOf(journal') \in Seq(Commands) /\ Len(CommandsOf(journal')) = Position + 1
              /\ \A i \in 1 .. Position + 1 : CommandsOf(journal')[i] = journal'[i].command
            BY <3>2, CommandsAre
        <3>5. CommandsOf(journal') = worker'.history
            <4> DEFINE a == CommandsOf(journal')
                       b == worker'.history
            <4>1. a \in Seq(Commands) /\ b \in Seq(Commands) /\ Len(a) = Len(b)
                BY <3>1, <3>4
            <4>2. \A i \in 1 .. Len(a) : a[i] = b[i]
                BY <3>1, <3>3, <3>4
            <4> HIDE DEF a, b
            <4>3. a = b
                BY <4>1, <4>2, SeqEqual
            <4> QED  BY <4>3 DEF a, b
        <3> QED  BY <3>2, <3>3, <3>5
    <2>2. CASE Commit
        BY <2>1, <2>2, Requested DEF Commit, Exchanges
    <2>3. CASE Reexecute
        BY <2>1, <2>3, HeadTailProperties DEF Reexecute, Exchanges
    <2>4. CASE RestartRecovered
        <3>1. /\ host = "capture" /\ journal' = <<>> /\ worker' = worker /\ step = "recovered"
            BY <1>1, <2>4 DEF RestartRecovered, process
        <3>2. Position = 0
            BY <3>1 DEF Exchanges, Recovery
        <3>3. worker'.history = <<>>
            BY <3>1, <3>2 DEF Position
        <3>4. CommandsOf(journal') \in Seq(Commands) /\ Len(CommandsOf(journal')) = 0
            <4>1. journal' \in Seq(Entries) /\ Len(journal') = 0
                BY <3>1
            <4> QED  BY <4>1, CommandsAre
        <3> QED  BY <3>1, <3>3, <3>4
    <2>5. ~Resume
        BY <1>1, Vocabulary DEF Resume, Exchanges
    <2>6. ASSUME UNCHANGED journal
          PROVE  FALSE
        BY <1>1, <2>6
    <2>7. ~Begun /\ ~Crashed /\ ~Installed /\ ~Restored
        BY <2>6 DEF Begun, Crashed, Installed, Restored, Kept
    <2>8. ~\E outcome \in {"ok", "error"} : Ended(outcome)
        BY <2>6 DEF Ended
    <2>9. ~(SaveSession \/ Rebuild \/ PlanReplay \/ EditSource \/ UNCHANGED vars)
        BY <2>6 DEF SaveSession, Rebuild, PlanReplay, EditSource, vars, scene
    <2> QED  BY <1>1, <2>2, <2>3, <2>4, <2>5, <2>7, <2>8, <2>9, StepIs
<1>2. SessionInv /\ [Next]_vars =>
         [journal' # journal /\ op.kind # "none" =>
             /\ CommandsOf(journal') = worker'.history
             /\ \A i \in 1 .. Len(journal') : journal'[i].source = worker'.source]_vars
    BY <1>1
<1>3. QED
    BY <1>2, SessionInvariant, PTL DEF Spec, JournalIsOneExecution

\* An exported session is one a new host can resume, unless something fails
\* during the resume itself.
THEOREM SessionResumes == Spec => SavedSessionsResume
<1> DEFINE Resumes ==
        op.kind = "resume" =>
          /\ step' = "down" => troubles' > troubles
          /\ step' = "idle" =>
                /\ worker'.history = CommandsOf(saved.journal)
                /\ committed' = IF journal' = <<>> THEN 0 ELSE journal'[Len(journal')].command
<1>1. ASSUME SessionInv, [Next]_vars, op.kind = "resume"
      PROVE  Resumes
    <2> USE <1>1, Types DEF SessionInv
    <2>1. /\ saved # Nothing /\ journal = saved.journal /\ host = "live"
          /\ Attested /\ edits = 0 /\ crashing = FALSE
          /\ saved.committed = LastFrame(saved.journal)
          /\ op # Nothing
        <3>1. crashing = FALSE
            BY <1>1 DEF Exchanges, Typing
        <3>2. op # Nothing
            BY <1>1, Vocabulary
        <3> QED  BY <1>1, <3>1, <3>2 DEF Exported, Attestation, Attested
    <2>2. step \in {"rebuild", "launch"} \cup Recovering
        <3>1. op.kind \notin {"seek", "edit", "preview", "inspect", "restart"}
            BY <1>1
        <3>2. step \notin {"idle", "down", "play", "show", "look", "reexecute"}
            BY <2>1, <3>1 DEF Exchanges
        <3> QED  BY <3>2 DEF Typing, Steps, Recovering
    <2>3. step' \notin {"idle", "down"} => Resumes
        OBVIOUS
    <2>4. ASSUME Trouble, step' # "idle"
          PROVE  Resumes
        BY <2>4 DEF Trouble, Typing
    <2>5. ASSUME Abort
          PROVE  step' = "down"
        BY <1>1, <2>5, Returned DEF Abort
    <2>6. CASE RebuildFails \/ LaunchFails
        BY <2>4, <2>5, <2>6 DEF RebuildFails, LaunchFails
    <2>7. ~RecoveryRefused
        BY <2>1, AttestedRecoveries
    <2>8. CASE RecoveryLost
        <3>1. Abort /\ Lost /\ worker.alive
            BY <2>8 DEF RecoveryLost, Recovery, Recovering
        <3>2. Trouble
            BY <3>1 DEF Lost
        <3> QED  BY <2>4, <2>5, <3>1, <3>2
    <2>9. CASE ResumeRecovered
        <3>1. step = "recovered" /\ incoming = CommandsOf(journal)
            BY <2>1, <2>9 DEF ResumeRecovered, Asked, Recovering
        <3>2. reuse = Len(journal) /\ Position = Len(journal) /\ worker.alive
            BY <2>1, <3>1 DEF Attestation, Recovery, Recovering
        <3>3. Len(incoming) = Len(journal)
            BY <3>1, CommandsAre
        <3>4. committed' = saved.committed /\ worker' = worker /\ Return("ok")
              /\ journal' = journal
            BY <2>9, <3>2, <3>3 DEF ResumeRecovered
        <3>5. step' = "idle"
            <4>1. step' = IF op.kind = "resume" /\ "ok" = "error" THEN "down" ELSE "idle"
                BY <3>4, Returned
            <4>2. ~("ok" = "error")
                OBVIOUS
            <4> QED  BY <4>1, <4>2, Zenon
        <3>6. /\ CommandsOf(journal) \in Seq(Commands) /\ Len(CommandsOf(journal)) = Len(journal)
              /\ \A i \in 1 .. Len(journal) : CommandsOf(journal)[i] = journal[i].command
            BY CommandsAre
        <3>7. \A i \in 1 .. Len(journal) : journal[i].command = worker.history[i]
            BY <3>2 DEF Agreement
        <3>8. worker.history = CommandsOf(journal)
            BY <3>2, <3>6, <3>7, SeqEqual DEF Position
        <3> QED  BY <2>1, <3>4, <3>5, <3>8 DEF LastFrame
    <2>10. CASE \/ \E c \in Seeks : BeginSeek(c)
                \/ \E c \in Edits : BeginEdit(c)
                \/ \E kind \in {"preview", "inspect"} : BeginLook(kind)
                \/ BeginRestart \/ SaveSession \/ Resume
        BY <2>2, <2>10 DEF BeginSeek, BeginEdit, BeginLook, Begin, BeginRestart, SaveSession,
                           Resume, Idle, Recovering
    <2>11. CASE Rebuild \/ Launch \/ PlanReplay \/ ColdFallback \/ RestartRecovered
        BY <2>11 DEF Rebuild, Launch, PlanReplay, ColdFallback, Install, RestartRecovered
    <2>12. CASE Restore \/ Replay \/ ReplayDiverges
        BY <2>12 DEF Restore, Replay, ReplayDiverges, RestoreOrReplay, Goto
    <2>13. ~CrashRecovered
        BY <2>1 DEF CrashRecovered
    <2>14. ~(Commit \/ Reexecute \/ MergeRefused \/ PlayRefused \/ CaptureFails)
        BY <2>2 DEF Commit, Reexecute, MergeRefused, PlayRefused, CaptureFails, Playing, Recovering
    <2>15. ~(Show \/ Look \/ Reshow \/ ShowRefused \/ RequestLost)
        BY <2>2 DEF Show, Look, Reshow, ShowRefused, RequestLost, Recovering
    <2>16. CASE EditSource \/ UNCHANGED vars
        <3>1. step' = step
            BY <2>16 DEF EditSource, vars, operation
        <3> QED  BY <2>2, <2>3, <3>1 DEF Recovering
    <2> QED  BY <1>1, <2>6, <2>7, <2>8, <2>9, <2>10, <2>11, <2>12, <2>13, <2>14, <2>15, <2>16
             DEF Next
<1>2. SessionInv /\ [Next]_vars => [Resumes]_vars
    BY <1>1
<1>3. QED
    BY <1>2, SessionInvariant, PTL DEF Spec, SavedSessionsResume

=============================================================================
