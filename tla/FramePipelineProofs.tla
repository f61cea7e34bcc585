------------------------ MODULE FramePipelineProofs ------------------------
(***************************************************************************)
(* The safety of the frame pipeline, for every number of teams, limit on   *)
(* the frames in flight and choice of sequences.  The heart of it is a     *)
(* ledger: the frames outstanding are partitioned by the places a frame    *)
(* can be in, so every step of every thread moves one frame, adds one or   *)
(* takes one out.                                                          *)
(***************************************************************************)
EXTENDS FramePipeline, FiniteSetTheorems, SequenceTheorems, TLAPS

-----------------------------------------------------------------------------
(* The ledger: what is where. *)

\* What is in each place.
Queues == [w \in Workers |-> Range(inbox[w])]
Hands == [w \in Workers |-> IF InFlight(w) THEN {holding[w]} ELSE {}]
SequencesOf(reports) == {reports[i].sequence : i \in 1 .. Len(reports)}
Sending == IF coord = "send" THEN {previous} ELSE {}

\* Every frame of S is in exactly one queue, hand or coordinator's place, and
\* nothing else is.
Partition(queues, hands, reported, parked, sending, S) ==
  /\ \A w \in Workers : \A s \in queues[w] :
       /\ s \in S /\ s \notin reported \cup parked \cup sending
       /\ \A v \in Workers : s \notin hands[v] /\ (v # w => s \notin queues[v])
  /\ \A w \in Workers : \A s \in hands[w] :
       /\ s \in S /\ s \notin reported \cup parked \cup sending
       /\ \A v \in Workers : s \notin queues[v] /\ (v # w => s \notin hands[v])
  /\ \A s \in reported : s \in S /\ s \notin parked \cup sending
  /\ \A s \in parked : s \in S /\ s \notin sending
  /\ \A s \in sending : s \in S
  /\ \A s \in S : \/ s \in reported \cup parked \cup sending
                  \/ \E w \in Workers : s \in queues[w] \cup hands[w]

\* No two reports are about one frame.
Once(reports) ==
  \A i, j \in 1 .. Len(reports) : reports[i].sequence = reports[j].sequence => i = j

\* The queues hold a frame once, and no more frames than the limit.
QueuesAreSets ==
  /\ \A w \in Workers : IsInjective(inbox[w]) /\ Len(inbox[w]) <= Limit
  /\ Once(completions)

Ledger ==
  /\ slots = Cardinality(outstanding)
  /\ QueuesAreSets
  /\ Partition(Queues, Hands, SequencesOf(completions), outputs, Sending, outstanding)

-----------------------------------------------------------------------------
(* The threads' life: spawned in order, and gone in the order of the frames. *)

Threads ==
  /\ coord = "spawn" =>
       /\ spawned < NumTeams + 2
       /\ \A n \in 0 .. NumTeams + 1 :
            phase[SpawnOrder(n)] = IF n < spawned THEN "idle" ELSE "unspawned"
  /\ coord # "spawn" => \A w \in Workers : phase[w] # "unspawned"
  /\ inputClosed = (coord \in {"drain", "joining", "done"})
  /\ phase[Prepare] = "exited" => inputClosed
  /\ \A t \in Teams : phase[t] = "exited" => phase[Prepare] = "exited"
  /\ phase[Output] = "exited" => \A t \in Teams : phase[t] = "exited"
  /\ \A w \in Workers : phase[w] = "exited" => inbox[w] = <<>>
  /\ \A w \in Workers : phase[w] = "probing" => w = Prepare

-----------------------------------------------------------------------------
(* The coordinator's records. *)

Records ==
  /\ IsInjective(order)
  /\ Range(order) = outstanding \cup terminal
  /\ outstanding \cap terminal = {}
  /\ \A s \in outstanding \cup terminal : s <= previous
  /\ flushing => coord \in {"gate", "ready", "barrier", "drain"}
  /\ ~flushing => order = <<>> \/ Head(order) \notin terminal \cup outputs
  /\ coord \in {"spawn", "open", "joining", "done"} => outstanding = {}
  /\ coord = "barrier" => barriers < MaxBarriers

\* A frame ends early only after the token was raised, and the token comes
\* before every report of why.
Verdicts ==
  /\ failed => cancelled
  /\ \A w \in Workers : phase[w] = "failing" => cancelled
  /\ \A i \in 1 .. Len(completions) :
       /\ completions[i].kind # "Disconnected"
       /\ completions[i].kind # "Output" => cancelled
  /\ NoInternalError

\* Until the token is raised nothing is skipped.
Emission ==
  /\ EmissionFollowsSubmission
  /\ ~cancelled => terminal = {} /\ submitted = emitted \o order
  /\ coord = "pull" => ~failed /\ Cardinality(outstanding) < Limit
                       /\ Len(submitted) - Len(emitted) < Limit
  /\ coord \in {"joining", "done"} /\ error = "None" => emitted = submitted

PipelineInv == TypeOK /\ Ledger /\ Threads /\ Records /\ Verdicts /\ Emission

-----------------------------------------------------------------------------
(* Queues as sets. *)

\* An element appended to a queue joins its members, and keeps them distinct
\* when it is new.
LEMMA AppendMembers ==
    ASSUME NEW S, NEW q \in Seq(S), NEW e \in S
    PROVE  /\ Append(q, e) \in Seq(S)
           /\ Len(Append(q, e)) = Len(q) + 1
           /\ Range(Append(q, e)) = Range(q) \cup {e}
           /\ IsInjective(q) /\ e \notin Range(q) => IsInjective(Append(q, e))
  <1> DEFINE r == Append(q, e)
  <1>1. /\ r \in Seq(S) /\ Len(r) = Len(q) + 1
        /\ \A i \in 1 .. Len(q) : r[i] = q[i]
        /\ r[Len(q) + 1] = e
    OBVIOUS
  <1>2. DOMAIN q = 1 .. Len(q) /\ DOMAIN r = 1 .. Len(q) + 1 /\ Len(q) \in Nat
    BY <1>1
  <1> HIDE DEF r
  <1>3. Range(r) = Range(q) \cup {e}
    BY <1>1, <1>2 DEF Range
  <1>4. IsInjective(q) /\ e \notin Range(q) => IsInjective(r)
    BY <1>1, <1>2 DEF Range, IsInjective
  <1> QED
    BY <1>1, <1>3, <1>4 DEF r

\* The head of a queue is one of its members; the tail has the others.
LEMMA TailMembers ==
    ASSUME NEW S, NEW q \in Seq(S), q # <<>>
    PROVE  /\ Head(q) \in S /\ Head(q) \in Range(q)
           /\ Tail(q) \in Seq(S)
           /\ Len(Tail(q)) = Len(q) - 1
           /\ IsInjective(q) => /\ Range(Tail(q)) = Range(q) \ {Head(q)}
                                /\ IsInjective(Tail(q))
  <1> DEFINE r == Tail(q)
  <1>1. /\ r \in Seq(S) /\ Len(r) = Len(q) - 1 /\ Len(q) \in Nat \ {0}
        /\ \A i \in 1 .. Len(q) - 1 : r[i] = q[i + 1]
        /\ Head(q) = q[1] /\ q[1] \in S
    OBVIOUS
  <1>2. DOMAIN q = 1 .. Len(q) /\ DOMAIN r = 1 .. Len(q) - 1
    BY <1>1
  <1> HIDE DEF r
  <1>3. q[1] \in Range(q)
    BY <1>1, <1>2 DEF Range
  <1>4. ASSUME IsInjective(q)
        PROVE  Range(r) = Range(q) \ {q[1]} /\ IsInjective(r)
    <2>1. ASSUME NEW x \in Range(q), x # q[1] PROVE x \in Range(r)
      <3>1. PICK i \in 1 .. Len(q) : x = q[i]
        BY <1>2 DEF Range
      <3>2. i - 1 \in 1 .. Len(q) - 1 /\ r[i - 1] = x
        BY <1>1, <2>1, <3>1
      <3> QED
        BY <1>2, <3>2 DEF Range
    <2>2. ASSUME NEW x \in Range(r) PROVE x \in Range(q) \ {q[1]}
      <3>1. PICK i \in 1 .. Len(q) - 1 : x = r[i]
        BY <1>2 DEF Range
      <3>2. i + 1 \in 1 .. Len(q) /\ x = q[i + 1] /\ i + 1 # 1
        BY <1>1, <3>1
      <3> QED
        BY <1>1, <1>2, <1>4, <3>2 DEF Range, IsInjective
    <2>3. IsInjective(r)
      BY <1>1, <1>2, <1>4 DEF IsInjective
    <2> QED
      BY <2>1, <2>2, <2>3
  <1> QED
    BY <1>1, <1>3, <1>4 DEF r

\* A queue without repetition is as long as the set of its members.
LEMMA LengthIsCardinality ==
    ASSUME NEW S, NEW q \in Seq(S), IsInjective(q)
    PROVE  IsFiniteSet(Range(q)) /\ Cardinality(Range(q)) = Len(q)
  <1>1. Len(q) \in Nat /\ q \in [1 .. Len(q) -> Range(q)] /\ DOMAIN q = 1 .. Len(q)
    BY DEF Range
  <1>2. q \in Bijection(1 .. Len(q), Range(q))
    BY <1>1 DEF Bijection, Injection, Surjection, Range
  <1>3. IsFiniteSet(1 .. Len(q)) /\ Cardinality(1 .. Len(q)) = Len(q)
    BY <1>1, FS_Interval
  <1> QED
    BY <1>2, <1>3, FS_Bijection DEF ExistsBijection

\* A report appended adds its frame; the reports after the first are about the
\* other frames.
LEMMA AppendReport ==
    ASSUME NEW q \in Seq(Completion), NEW c \in Completion
    PROVE  /\ Append(q, c) \in Seq(Completion)
           /\ SequencesOf(Append(q, c)) = SequencesOf(q) \cup {c.sequence}
           /\ Once(q) /\ c.sequence \notin SequencesOf(q) => Once(Append(q, c))
  <1> DEFINE r == Append(q, c)
  <1>1. /\ r \in Seq(Completion) /\ Len(r) = Len(q) + 1 /\ Len(q) \in Nat
        /\ \A i \in 1 .. Len(q) : r[i] = q[i]
        /\ r[Len(q) + 1] = c
    OBVIOUS
  <1> HIDE DEF r
  <1>2. SequencesOf(r) = SequencesOf(q) \cup {c.sequence}
    BY <1>1 DEF SequencesOf
  <1>3. Once(q) /\ c.sequence \notin SequencesOf(q) => Once(r)
    BY <1>1 DEF SequencesOf, Once
  <1> QED
    BY <1>1, <1>2, <1>3 DEF r

\* Taking the head report leaves the others' sequences.
LEMMA TailReport ==
    ASSUME NEW q \in Seq(Completion), q # <<>>, Once(q)
    PROVE  /\ Head(q) \in Completion /\ Head(q).sequence \in SequencesOf(q)
           /\ Tail(q) \in Seq(Completion)
           /\ SequencesOf(Tail(q)) = SequencesOf(q) \ {Head(q).sequence}
           /\ Once(Tail(q))
  <1> DEFINE r == Tail(q)
  <1>1. /\ r \in Seq(Completion) /\ Len(r) = Len(q) - 1 /\ Len(q) \in Nat \ {0}
        /\ \A i \in 1 .. Len(q) - 1 : r[i] = q[i + 1]
        /\ Head(q) = q[1] /\ q[1] \in Completion
    OBVIOUS
  <1> HIDE DEF r
  <1>2. ASSUME NEW x \in SequencesOf(q), x # q[1].sequence PROVE x \in SequencesOf(r)
    <2>1. PICK i \in 1 .. Len(q) : x = q[i].sequence
      BY DEF SequencesOf
    <2>2. i - 1 \in 1 .. Len(r) /\ r[i - 1].sequence = x
      BY <1>1, <1>2, <2>1
    <2> QED
      BY <2>2 DEF SequencesOf
  <1>3. ASSUME NEW x \in SequencesOf(r) PROVE x \in SequencesOf(q) \ {q[1].sequence}
    <2>1. PICK i \in 1 .. Len(q) - 1 : x = r[i].sequence
      BY <1>1 DEF SequencesOf
    <2>2. i + 1 \in 1 .. Len(q) /\ x = q[i + 1].sequence /\ i + 1 # 1
      BY <1>1, <2>1
    <2> QED
      BY <1>1, <2>2 DEF SequencesOf, Once
  <1>4. Once(r)
    BY <1>1 DEF Once
  <1>5. q[1].sequence \in SequencesOf(q)
    BY <1>1 DEF SequencesOf
  <1> QED
    BY <1>1, <1>2, <1>3, <1>4, <1>5 DEF r

-----------------------------------------------------------------------------
(* The moves a frame makes keep it in one place. *)

USE PlanAssumption, BoundAssumption

\* f and g differ at w, where s is added or taken out.
Gains(f, g, w, s) == \A v \in Workers : g[v] = IF v = w THEN f[v] \cup {s} ELSE f[v]
Loses(f, g, w, s) == \A v \in Workers : g[v] = IF v = w THEN f[v] \ {s} ELSE f[v]

\* What a worker that gains s holds afterwards.
LEMMA GainsMember ==
    ASSUME NEW f, NEW g, NEW w, NEW s, Gains(f, g, w, s), NEW v \in Workers, NEW x
    PROVE  x \in g[v] <=> x \in f[v] \/ (v = w /\ x = s)
  BY DEF Gains

\* What a worker that loses s holds afterwards.
LEMMA LosesMember ==
    ASSUME NEW f, NEW g, NEW w, NEW s, Loses(f, g, w, s), NEW v \in Workers, NEW x
    PROVE  x \in g[v] <=> x \in f[v] /\ ~(v = w /\ x = s)
  BY DEF Loses

\* A worker receives the head of its queue.
LEMMA QueueToHand ==
    ASSUME NEW qs, NEW hs, NEW rs, NEW ps, NEW ss, NEW S, NEW qn, NEW hn,
           Partition(qs, hs, rs, ps, ss, S),
           NEW w \in Workers, NEW s \in qs[w],
           Loses(qs, qn, w, s), Gains(hs, hn, w, s)
    PROVE  Partition(qn, hn, rs, ps, ss, S)
  <1> USE GainsMember, LosesMember DEF Partition
  <1>1. \A u \in Workers : \A x \in qn[u] :
          /\ x \in S /\ x \notin rs \cup ps \cup ss
          /\ \A t \in Workers : x \notin hn[t] /\ (t # u => x \notin qn[t])
    OBVIOUS
  <1>2. \A u \in Workers : \A x \in hn[u] :
          /\ x \in S /\ x \notin rs \cup ps \cup ss
          /\ \A t \in Workers : x \notin qn[t] /\ (t # u => x \notin hn[t])
    OBVIOUS
  <1>3. \A x \in S : x \in rs \cup ps \cup ss \/ \E u \in Workers : x \in qn[u] \cup hn[u]
    OBVIOUS
  <1> QED
    BY <1>1, <1>2, <1>3

\* A worker reports a frame it received while the token was raised.
LEMMA QueueToReport ==
    ASSUME NEW qs, NEW hs, NEW rs, NEW ps, NEW ss, NEW S, NEW qn,
           Partition(qs, hs, rs, ps, ss, S),
           NEW w \in Workers, NEW s \in qs[w],
           Loses(qs, qn, w, s)
    PROVE  Partition(qn, hs, rs \cup {s}, ps, ss, S)
  <1> USE LosesMember DEF Partition
  <1>1. \A u \in Workers : \A x \in qn[u] :
          /\ x \in S /\ x \notin (rs \cup {s}) \cup ps \cup ss
          /\ \A t \in Workers : x \notin hs[t] /\ (t # u => x \notin qn[t])
    OBVIOUS
  <1>2. \A u \in Workers : \A x \in hs[u] :
          /\ x \in S /\ x \notin (rs \cup {s}) \cup ps \cup ss
          /\ \A t \in Workers : x \notin qn[t] /\ (t # u => x \notin hs[t])
    OBVIOUS
  <1>3. \A x \in S : x \in (rs \cup {s}) \cup ps \cup ss \/ \E u \in Workers : x \in qn[u] \cup hs[u]
    OBVIOUS
  <1> QED
    BY <1>1, <1>2, <1>3

\* A worker reports the frame it holds.
LEMMA HandToReport ==
    ASSUME NEW qs, NEW hs, NEW rs, NEW ps, NEW ss, NEW S, NEW hn,
           Partition(qs, hs, rs, ps, ss, S),
           NEW w \in Workers, NEW s \in hs[w],
           Loses(hs, hn, w, s)
    PROVE  Partition(qs, hn, rs \cup {s}, ps, ss, S)
  <1> USE LosesMember DEF Partition
  <1>1. \A u \in Workers : \A x \in qs[u] :
          /\ x \in S /\ x \notin (rs \cup {s}) \cup ps \cup ss
          /\ \A t \in Workers : x \notin hn[t] /\ (t # u => x \notin qs[t])
    OBVIOUS
  <1>2. \A u \in Workers : \A x \in hn[u] :
          /\ x \in S /\ x \notin (rs \cup {s}) \cup ps \cup ss
          /\ \A t \in Workers : x \notin qs[t] /\ (t # u => x \notin hn[t])
    OBVIOUS
  <1>3. \A x \in S : x \in (rs \cup {s}) \cup ps \cup ss \/ \E u \in Workers : x \in qs[u] \cup hn[u]
    OBVIOUS
  <1> QED
    BY <1>1, <1>2, <1>3

\* A worker hands its frame on to another.
LEMMA HandToQueue ==
    ASSUME NEW qs, NEW hs, NEW rs, NEW ps, NEW ss, NEW S, NEW qn, NEW hn,
           Partition(qs, hs, rs, ps, ss, S),
           NEW w \in Workers, NEW s \in hs[w], NEW v \in Workers,
           Loses(hs, hn, w, s), Gains(qs, qn, v, s)
    PROVE  Partition(qn, hn, rs, ps, ss, S)
  <1> USE GainsMember, LosesMember DEF Partition
  <1>1. \A u \in Workers : \A x \in qn[u] :
          /\ x \in S /\ x \notin rs \cup ps \cup ss
          /\ \A t \in Workers : x \notin hn[t] /\ (t # u => x \notin qn[t])
    OBVIOUS
  <1>2. \A u \in Workers : \A x \in hn[u] :
          /\ x \in S /\ x \notin rs \cup ps \cup ss
          /\ \A t \in Workers : x \notin qn[t] /\ (t # u => x \notin hn[t])
    OBVIOUS
  <1>3. \A x \in S : x \in rs \cup ps \cup ss \/ \E u \in Workers : x \in qn[u] \cup hn[u]
    OBVIOUS
  <1> QED
    BY <1>1, <1>2, <1>3

\* The coordinator sends the frame it has submitted.
LEMMA SendingToQueue ==
    ASSUME NEW qs, NEW hs, NEW rs, NEW ps, NEW ss, NEW S, NEW qn,
           Partition(qs, hs, rs, ps, ss, S),
           NEW w \in Workers, NEW s, ss = {s},
           Gains(qs, qn, w, s)
    PROVE  Partition(qn, hs, rs, ps, {}, S)
  <1> USE GainsMember DEF Partition
  <1>1. \A u \in Workers : \A x \in qn[u] :
          /\ x \in S /\ x \notin rs \cup ps \cup {}
          /\ \A t \in Workers : x \notin hs[t] /\ (t # u => x \notin qn[t])
    OBVIOUS
  <1>2. \A u \in Workers : \A x \in hs[u] :
          /\ x \in S /\ x \notin rs \cup ps \cup {}
          /\ \A t \in Workers : x \notin qn[t] /\ (t # u => x \notin hs[t])
    OBVIOUS
  <1>3. \A x \in S : x \in rs \cup ps \cup {} \/ \E u \in Workers : x \in qn[u] \cup hs[u]
    OBVIOUS
  <1> QED
    BY <1>1, <1>2, <1>3

\* The coordinator parks a finished frame.
LEMMA ReportToParked ==
    ASSUME NEW qs, NEW hs, NEW rs, NEW ps, NEW ss, NEW S,
           Partition(qs, hs, rs, ps, ss, S),
           NEW s \in rs
    PROVE  Partition(qs, hs, rs \ {s}, ps \cup {s}, ss, S)
  BY DEF Partition

\* A frame that ended early leaves with its report.
LEMMA ReportLeaves ==
    ASSUME NEW qs, NEW hs, NEW rs, NEW ps, NEW ss, NEW S,
           Partition(qs, hs, rs, ps, ss, S),
           NEW s \in rs
    PROVE  Partition(qs, hs, rs \ {s}, ps, ss, S \ {s})
  BY DEF Partition

\* A parked frame leaves when it is at the head of the order.
LEMMA ParkedLeaves ==
    ASSUME NEW qs, NEW hs, NEW rs, NEW ps, NEW ss, NEW S,
           Partition(qs, hs, rs, ps, ss, S),
           NEW s \in ps
    PROVE  Partition(qs, hs, rs, ps \ {s}, ss, S \ {s})
  BY DEF Partition

\* A new frame is submitted.
LEMMA FrameEnters ==
    ASSUME NEW qs, NEW hs, NEW rs, NEW ps, NEW S,
           Partition(qs, hs, rs, ps, {}, S),
           NEW s, s \notin S
    PROVE  Partition(qs, hs, rs, ps, {s}, S \cup {s})
  BY DEF Partition

-----------------------------------------------------------------------------
(* What receive_one does, and that it never finds everybody gone. *)

\* Outstanding frames are finitely many.
LEMMA FiniteWindow ==
    ASSUME TypeOK
    PROVE  /\ IsFiniteSet(FrameIds) /\ IsFiniteSet(outstanding)
           /\ Cardinality(outstanding) \in Nat
           /\ outstanding = {} <=> Cardinality(outstanding) = 0
  <1>1. IsFiniteSet(FrameIds)
    BY FS_Interval DEF FrameIds
  <1>2. IsFiniteSet(outstanding)
    BY <1>1, FS_Subset DEF TypeOK
  <1> QED
    BY <1>1, <1>2, FS_CardinalityType, FS_EmptySet

\* The senders outlive the frames: while one is outstanding and the flush is
\* over, either some worker runs or there is a report to receive.
LEMMA ReportsOutliveSenders ==
    ASSUME PipelineInv, ~flushing, coord # "send", outstanding # {}, NoSenders
    PROVE  completions # <<>>
  <1> SUFFICES ASSUME completions = <<>> PROVE FALSE
    OBVIOUS
  <1> USE DEF PipelineInv
  <1>1. order # <<>>
    BY DEF Records, Range
  <1>2. Head(order) \in Range(order)
    BY <1>1, TailMembers DEF TypeOK
  <1>3. Head(order) \in outstanding /\ Head(order) \notin outputs
    BY <1>1, <1>2 DEF Records
  <1>4. \A w \in Workers : Queues[w] = {} /\ Hands[w] = {}
    BY DEF Threads, NoSenders, Queues, Hands, InFlight, Range
  <1>5. SequencesOf(completions) = {} /\ Sending = {}
    BY DEF SequencesOf, Sending
  <1> QED
    BY <1>3, <1>4, <1>5 DEF Ledger, Partition

\* A finished frame is parked.
Parks(s) ==
  /\ outputs' = outputs \cup {s} /\ ~Stopped
  /\ UNCHANGED <<order, outstanding, terminal, error, cancelled, slots>>

\* A frame ends early; by then the token is raised.
Ends(s) ==
  /\ Terminate(s) /\ cancelled'
  /\ error' \in CallbackErrors \cup {error} /\ (failed => error' = error)
  /\ UNCHANGED <<order, outputs>>

Receives ==
  /\ completions # <<>> /\ completions' = Tail(completions)
  /\ flushing'
  /\ Parks(Head(completions).sequence) \/ Ends(Head(completions).sequence)

\* Receiving the head report parks its frame or ends it.
LEMMA ReceiveEffect ==
    ASSUME PipelineInv, ~flushing, coord # "send", outstanding # {}, ReceiveOne
    PROVE  Receives
  <1> USE DEF PipelineInv
  <1>1. completions # <<>> /\ completions' = Tail(completions) /\ Accept(Head(completions))
    BY ReportsOutliveSenders DEF ReceiveOne
  <1> DEFINE c == Head(completions)
  <1>2. c \in Completion /\ c = completions[1] /\ 1 \in 1 .. Len(completions)
    BY <1>1 DEF TypeOK
  <1>3. c.kind # "Disconnected" /\ (c.kind # "Output" => cancelled)
    BY <1>2 DEF Verdicts
  <1>4. flushing'
    BY <1>1 DEF Accept
  <1>5. ASSUME c.kind = "Output" PROVE Parks(c.sequence) \/ Ends(c.sequence)
    <2>1. AcceptOutput(c.sequence)
      BY <1>1, <1>5 DEF Accept
    <2>2. CASE Stopped
      BY <2>1, <2>2 DEF AcceptOutput, Ends, Stopped, Verdicts, Terminate
    <2>3. CASE ~Stopped
      BY <2>1, <2>3 DEF AcceptOutput, Parks, Stopped
    <2> QED
      BY <2>2, <2>3
  <1>6. ASSUME c.kind = "Cancelled" PROVE Ends(c.sequence)
    <2>1. AcceptCancelled(c.sequence)
      BY <1>1, <1>6 DEF Accept
    <2> QED
      BY <1>3, <1>6, <2>1 DEF AcceptCancelled, Ends, Terminate
  <1>7. ASSUME c.kind = "Failed" PROVE Ends(c.sequence)
    <2>1. PICK e \in CallbackErrors : AcceptFailure(c.sequence, e)
      BY <1>1, <1>7 DEF Accept, ErrorsOf
    <2> QED
      BY <1>3, <1>7, <2>1 DEF AcceptFailure, Ends, Fail, failed
  <1>8. c.kind \in {"Output", "Failed", "Cancelled"}
    BY <1>2, <1>3 DEF Completion
  <1> HIDE DEF c, PipelineInv
  <1>9. Parks(c.sequence) \/ Ends(c.sequence)
    BY <1>5, <1>6, <1>7, <1>8
  <1> QED
    BY <1>1, <1>4, <1>9 DEF Receives, c

-----------------------------------------------------------------------------
(* What the workers' steps do to the queues and the hands. *)

\* A frame joins the end of a worker's queue.
LEMMA QueueGains ==
    ASSUME TypeOK, NEW w \in Workers, NEW s \in FrameIds,
           inbox' = [inbox EXCEPT ![w] = Append(@, s)]
    PROVE  /\ inbox' \in [Workers -> Seq(FrameIds)]
           /\ Gains(Queues, Queues', w, s)
           /\ \A v \in Workers : v # w => inbox'[v] = inbox[v]
           /\ Len(inbox'[w]) = Len(inbox[w]) + 1
           /\ IsInjective(inbox[w]) /\ s \notin Queues[w] => IsInjective(inbox'[w])
  <1> inbox \in [Workers -> Seq(FrameIds)] /\ inbox[w] \in Seq(FrameIds)
    BY DEF TypeOK
  <1>1. /\ Append(inbox[w], s) \in Seq(FrameIds)
        /\ Len(Append(inbox[w], s)) = Len(inbox[w]) + 1
        /\ Range(Append(inbox[w], s)) = Range(inbox[w]) \cup {s}
        /\ IsInjective(inbox[w]) /\ s \notin Range(inbox[w]) => IsInjective(Append(inbox[w], s))
    BY AppendMembers
  <1>2. /\ inbox' \in [Workers -> Seq(FrameIds)] /\ inbox'[w] = Append(inbox[w], s)
        /\ \A v \in Workers : v # w => inbox'[v] = inbox[v]
    BY <1>1
  <1>3. \A v \in Workers : Queues[v] = Range(inbox[v]) /\ Queues'[v] = Range(inbox'[v])
    BY DEF Queues
  <1>4. Gains(Queues, Queues', w, s)
    BY <1>1, <1>2, <1>3 DEF Gains
  <1> QED
    BY <1>1, <1>2, <1>3, <1>4

\* A worker receives the head of its queue.
LEMMA QueueLoses ==
    ASSUME TypeOK, QueuesAreSets, NEW w \in Workers, inbox[w] # <<>>,
           inbox' = [inbox EXCEPT ![w] = Tail(@)]
    PROVE  /\ inbox' \in [Workers -> Seq(FrameIds)]
           /\ Head(inbox[w]) \in FrameIds /\ Head(inbox[w]) \in Queues[w]
           /\ Loses(Queues, Queues', w, Head(inbox[w]))
           /\ \A v \in Workers : v # w => inbox'[v] = inbox[v]
           /\ Len(inbox'[w]) = Len(inbox[w]) - 1
           /\ IsInjective(inbox'[w])
  <1> inbox \in [Workers -> Seq(FrameIds)] /\ inbox[w] \in Seq(FrameIds) /\ IsInjective(inbox[w])
    BY DEF TypeOK, QueuesAreSets
  <1>1. /\ Tail(inbox[w]) \in Seq(FrameIds)
        /\ Len(Tail(inbox[w])) = Len(inbox[w]) - 1
        /\ Range(Tail(inbox[w])) = Range(inbox[w]) \ {Head(inbox[w])}
        /\ IsInjective(Tail(inbox[w]))
        /\ Head(inbox[w]) \in FrameIds /\ Head(inbox[w]) \in Range(inbox[w])
    BY TailMembers
  <1>2. /\ inbox' \in [Workers -> Seq(FrameIds)] /\ inbox'[w] = Tail(inbox[w])
        /\ \A v \in Workers : v # w => inbox'[v] = inbox[v]
    BY <1>1
  <1>3. \A v \in Workers : Queues[v] = Range(inbox[v]) /\ Queues'[v] = Range(inbox'[v])
    BY DEF Queues
  <1>4. Loses(Queues, Queues', w, Head(inbox[w]))
    BY <1>1, <1>2, <1>3 DEF Loses
  <1> QED
    BY <1>1, <1>2, <1>3, <1>4

\* A worker that takes a frame has it in hand; one that releases it does not.
LEMMA HandGains ==
    ASSUME TypeOK, NEW w \in Workers, phase[w] = "idle", NEW s \in FrameIds,
           phase' = [phase EXCEPT ![w] = "busy"], holding' = [holding EXCEPT ![w] = s]
    PROVE  Gains(Hands, Hands', w, s)
  BY DEF TypeOK, Gains, Hands, InFlight

\* A worker that lets its frame go holds it no longer.
LEMMA HandLoses ==
    ASSUME TypeOK, NEW w \in Workers, InFlight(w), Release(w)
    PROVE  /\ Loses(Hands, Hands', w, holding[w]) /\ holding[w] \in Hands[w]
           /\ phase' \in [Workers -> {"unspawned", "idle", "busy", "forward", "sending",
                                      "probing", "failing", "exited"}]
           /\ phase'[w] = "idle" /\ \A v \in Workers : v # w => phase'[v] = phase[v]
           /\ holding' \in [Workers -> 0 .. MaxSequence]
  <1>1. /\ phase' \in [Workers -> {"unspawned", "idle", "busy", "forward", "sending",
                                  "probing", "failing", "exited"}]
        /\ phase'[w] = "idle" /\ \A v \in Workers : v # w => phase'[v] = phase[v]
        /\ holding' \in [Workers -> 0 .. MaxSequence]
        /\ \A v \in Workers : v # w => holding'[v] = holding[v]
    BY DEF TypeOK, Release
  <1>2. \A v \in Workers : v # w => Hands'[v] = Hands[v]
    BY <1>1 DEF Hands, InFlight
  <1>3. Hands'[w] = {} /\ Hands[w] = {holding[w]}
    BY <1>1 DEF Hands, InFlight
  <1> QED
    BY <1>1, <1>2, <1>3 DEF Loses

\* A worker that keeps its frame and stays in flight changes no hand.
LEMMA HandsKept ==
    ASSUME NEW w \in Workers, InFlight(w), InFlight(w)',
           \A v \in Workers : v # w => phase'[v] = phase[v], UNCHANGED holding
    PROVE  Hands' = Hands
  <1>1. \A v \in Workers : InFlight(v)' <=> InFlight(v)
    BY DEF InFlight
  <1> QED
    BY <1>1 DEF Hands

\* A frame in hand is outstanding, so it is a sequence of the scene's.
LEMMA HeldIsFrame ==
    ASSUME PipelineInv, NEW w \in Workers, InFlight(w)
    PROVE  holding[w] \in FrameIds /\ holding[w] \in Hands[w]
  BY DEF PipelineInv, Ledger, Partition, Hands, TypeOK

-----------------------------------------------------------------------------
(* The workers keep the invariant. *)

WorkerFrame ==
  UNCHANGED <<coord, flushing, spawned, previous, coordVars, slots, inputClosed, logVars>>

\* No step of a worker touches the coordinator's books, and raising the token
\* only weakens what they promise.
LEMMA WorkersLeaveTheBooks ==
    ASSUME PipelineInv, WorkerFrame, cancelled => cancelled'
    PROVE  Records' /\ Emission' /\ NoInternalError' /\ Sending' = Sending
           /\ (failed' => cancelled')
  BY DEF PipelineInv, WorkerFrame, Records, Verdicts, Emission, NoInternalError, Sending,
         EmissionFollowsSubmission, failed, coordVars, logVars

\* While threads are being spawned there is nothing for them to do, and their
\* senders are there.
LEMMA WorkersAwaitTheSpawning ==
    ASSUME PipelineInv, coord = "spawn", NEW w \in Workers
    PROVE  ~WorkerStep(w)
  <1> USE DEF PipelineInv
  <1>1. \A v \in Workers : phase[v] \in {"idle", "unspawned"}
    <2> SUFFICES ASSUME NEW v \in Workers PROVE phase[v] \in {"idle", "unspawned"}
      OBVIOUS
    <2>1. PICK n \in 0 .. NumTeams + 1 : v = SpawnOrder(n)
      <3>1. CASE v = Output
        BY <3>1 DEF SpawnOrder
      <3>2. CASE v = Prepare
        BY <3>2 DEF SpawnOrder, Prepare
      <3>3. CASE v # Output /\ v # Prepare
        BY <3>3 DEF SpawnOrder, Prepare, Output, Workers
      <3> QED
        BY <3>1, <3>2, <3>3
    <2> QED
      BY <2>1 DEF Threads
  <1>2. inbox[w] = <<>>
    <2>1. outstanding = {}
      BY DEF Records
    <2>2. Range(inbox[w]) = {}
      BY <2>1 DEF Ledger, Partition, Queues
    <2>3. inbox[w] \in Seq(FrameIds)
      BY DEF TypeOK
    <2> QED
      BY <2>2, <2>3, TailMembers
  <1>3. ~SendersGone(w)
    <2>1. Prepare \in Workers /\ 1 \in Teams /\ 1 \in Workers
      BY DEF Prepare, Teams, Workers
    <2>2. ~inputClosed
      BY DEF Threads
    <2> QED
      BY <1>1, <2>1, <2>2 DEF SendersGone
  <1> QED
    BY <1>1, <1>2, <1>3 DEF WorkerStep, Take, CallbackOk, CallbackFails, ReportFailure,
       ForwardCancelled, ForwardChecks, ForwardOutput, ForwardRaster, Dispatch, ProbeAccepted,
       ProbeNext, ProbeExhausted, Exit, Output, Prepare, Teams

\* A report sent by a worker adds its frame to those reported, and says no more
\* than the verdicts allow.
Honest(reports, raised) ==
  \A i \in 1 .. Len(reports) :
    reports[i].kind # "Disconnected" /\ (reports[i].kind # "Output" => raised)

\* A report sent joins the others, and is honest.
LEMMA ReportJoins ==
    ASSUME TypeOK, NEW kind \in {"Output", "Failed", "Cancelled"}, NEW s \in FrameIds,
           Once(completions), s \notin SequencesOf(completions), Send(kind, s),
           Honest(completions, cancelled), cancelled => cancelled',
           kind # "Output" => cancelled'
    PROVE  /\ completions' \in Seq(Completion) /\ Once(completions')
           /\ SequencesOf(completions') = SequencesOf(completions) \cup {s}
           /\ Honest(completions', cancelled')
  <1> DEFINE c == [kind |-> kind, sequence |-> s]
  <1>1. c \in Completion /\ c.sequence = s /\ c.kind = kind
    BY DEF Completion
  <1>2. completions \in Seq(Completion) /\ completions' = Append(completions, c)
    BY DEF TypeOK, Send
  <1> HIDE DEF c
  <1>3. /\ completions' \in Seq(Completion) /\ Once(completions')
        /\ SequencesOf(completions') = SequencesOf(completions) \cup {s}
    BY <1>1, <1>2, AppendReport
  <1>4. /\ Len(completions') = Len(completions) + 1 /\ Len(completions) \in Nat
        /\ \A i \in 1 .. Len(completions) : completions'[i] = completions[i]
        /\ completions'[Len(completions) + 1] = c
    BY <1>1, <1>2
  <1>5. Honest(completions', cancelled')
    BY <1>1, <1>4 DEF Honest
  <1> QED
    BY <1>3, <1>5

\* A live worker that moves to another live place leaves the order of exits as
\* it was.
LEMMA LiveWorkerMoves ==
    ASSUME PipelineInv, WorkerFrame, coord # "spawn", NEW w \in Workers,
           phase[w] # "exited", phase'[w] \notin {"exited", "unspawned"},
           phase'[w] = "probing" => w = Prepare,
           \A v \in Workers : v # w => phase'[v] = phase[v],
           \A v \in Workers : phase[v] = "exited" => inbox'[v] = inbox[v]
    PROVE  Threads'
  <1>1. Prepare \in Workers /\ Output \in Workers /\ Teams \subseteq Workers
    BY DEF Prepare, Output, Teams, Workers
  <1> QED
    BY <1>1 DEF PipelineInv, Threads, WorkerFrame

\* A worker receives a frame: it keeps it or, when the token is raised, reports
\* it cancelled and receives again.
LEMMA TakeKeeps ==
    ASSUME PipelineInv, WorkerFrame, coord # "spawn", NEW w \in Workers, Take(w)
    PROVE  PipelineInv'
  <1> DEFINE s == Head(inbox[w])
  <1> TypeOK /\ QueuesAreSets /\ Once(completions) /\ Honest(completions, cancelled)
    BY DEF PipelineInv, Ledger, QueuesAreSets, Verdicts, Honest
  <1>1. /\ inbox' \in [Workers -> Seq(FrameIds)]
        /\ s \in FrameIds /\ s \in Queues[w] /\ Loses(Queues, Queues', w, s)
        /\ \A v \in Workers : v # w => inbox'[v] = inbox[v]
        /\ Len(inbox'[w]) = Len(inbox[w]) - 1 /\ IsInjective(inbox'[w])
    BY QueueLoses DEF Take
  <1>2. phase[w] = "idle" /\ cancelled' = cancelled /\ UNCHANGED <<nextTeam, probe>>
    BY DEF Take
  <1>a. ASSUME NEW v \in Workers, phase[v] = "exited" PROVE inbox'[v] = inbox[v]
    <2>1. v # w
       BY <1>2, <1>a
    <2> QED
      BY <1>1, <2>1
  <1>3. /\ Records' /\ Emission' /\ NoInternalError' /\ Sending' = Sending
        /\ (failed' => cancelled')
    BY <1>2, WorkersLeaveTheBooks
  <1>4. \A v \in Workers : IsInjective(inbox'[v]) /\ Len(inbox'[v]) <= Limit
    <2>1. Len(inbox[w]) \in Nat /\ Len(inbox[w]) <= Limit
      BY DEF QueuesAreSets, TypeOK
    <2>2. Len(inbox'[w]) <= Limit
      BY <1>1, <2>1
    <2> QED
      BY <1>1, <2>2 DEF QueuesAreSets
  <1>5. Partition(Queues, Hands, SequencesOf(completions), outputs, Sending, outstanding)
    BY DEF PipelineInv, Ledger
  <1>6. CASE cancelled
    <2>1. Send("Cancelled", s) /\ phase' = phase /\ holding' = holding
      BY <1>6 DEF Take
    <2>2. s \notin SequencesOf(completions)
      BY <1>1, <1>5 DEF Partition
    <2>3. /\ completions' \in Seq(Completion) /\ Once(completions')
          /\ SequencesOf(completions') = SequencesOf(completions) \cup {s}
          /\ Honest(completions', cancelled')
      BY <1>1, <1>2, <1>6, <2>1, <2>2, ReportJoins
    <2>4. Hands' = Hands
      BY <2>1 DEF Hands, InFlight
    <2>5. Partition(Queues', Hands', SequencesOf(completions'), outputs', Sending', outstanding')
      <3>1. Partition(Queues', Hands, SequencesOf(completions) \cup {s}, outputs, Sending,
                      outstanding)
        BY <1>1, <1>5, QueueToReport
      <3> QED
        BY <1>3, <2>3, <2>4, <3>1 DEF WorkerFrame, coordVars
    <2>6. Ledger'
      BY <1>4, <2>3, <2>5 DEF PipelineInv, Ledger, QueuesAreSets, WorkerFrame, coordVars
    <2>7. Threads'
      BY <1>2, <1>a, <2>1 DEF PipelineInv, Threads, WorkerFrame
    <2>8. Verdicts'
      BY <1>2, <1>3, <2>1, <2>3 DEF PipelineInv, Verdicts, Honest
    <2>9. TypeOK'
      BY <1>1, <1>2, <2>1, <2>3 DEF TypeOK, WorkerFrame, coordVars, logVars
    <2> QED
      BY <1>3, <2>6, <2>7, <2>8, <2>9 DEF PipelineInv
  <1>7. CASE ~cancelled
    <2>1. /\ phase' = [phase EXCEPT ![w] = "busy"] /\ holding' = [holding EXCEPT ![w] = s]
          /\ completions' = completions
      BY <1>7 DEF Take
    <2>2. Gains(Hands, Hands', w, s)
      BY <1>1, <1>2, <2>1, HandGains
    <2>3. Partition(Queues', Hands', SequencesOf(completions'), outputs', Sending', outstanding')
      <3>1. Partition(Queues', Hands', SequencesOf(completions), outputs, Sending, outstanding)
        BY <1>1, <1>5, <2>2, QueueToHand
      <3> QED
        BY <1>3, <2>1, <3>1 DEF WorkerFrame, coordVars
    <2>4. Ledger'
      BY <1>4, <2>1, <2>3 DEF PipelineInv, Ledger, QueuesAreSets, WorkerFrame, coordVars
    <2>5. Threads'
      <3>1. phase'[w] = "busy" /\ \A v \in Workers : v # w => phase'[v] = phase[v]
        BY <2>1 DEF TypeOK
      <3> QED
        BY <1>2, <1>a, <3>1, LiveWorkerMoves
    <2>6. TypeOK'
      BY <1>1, <1>2, <2>1 DEF TypeOK, WorkerFrame, coordVars, logVars, FrameIds
    <2>7. Verdicts'
      BY <1>2, <1>3, <2>1 DEF PipelineInv, Verdicts, TypeOK
    <2> QED
      BY <1>3, <2>4, <2>5, <2>6, <2>7 DEF PipelineInv
  <1> QED
    BY <1>6, <1>7

\* A worker reports the frame it holds and receives again.
LEMMA ReportKeeps ==
    ASSUME PipelineInv, WorkerFrame, coord # "spawn", NEW w \in Workers, InFlight(w),
           NEW kind \in {"Output", "Failed", "Cancelled"}, Send(kind, holding[w]), Release(w),
           UNCHANGED <<inbox, nextTeam, probe, cancelled>>, kind # "Output" => cancelled
    PROVE  PipelineInv'
  <1> DEFINE s == holding[w]
  <1> TypeOK /\ Once(completions) /\ Honest(completions, cancelled)
    BY DEF PipelineInv, Ledger, QueuesAreSets, Verdicts, Honest
  <1>1. s \in FrameIds
    BY HeldIsFrame
  <1>2. /\ Loses(Hands, Hands', w, s) /\ s \in Hands[w]
        /\ phase' \in [Workers -> {"unspawned", "idle", "busy", "forward", "sending",
                                   "probing", "failing", "exited"}]
        /\ phase'[w] = "idle" /\ \A v \in Workers : v # w => phase'[v] = phase[v]
        /\ holding' \in [Workers -> 0 .. MaxSequence]
    BY HandLoses
  <1>3. /\ Records' /\ Emission' /\ NoInternalError' /\ Sending' = Sending
        /\ (failed' => cancelled')
    BY WorkersLeaveTheBooks
  <1>4. Partition(Queues, Hands, SequencesOf(completions), outputs, Sending, outstanding)
    BY DEF PipelineInv, Ledger
  <1>5. s \notin SequencesOf(completions)
    BY <1>2, <1>4 DEF Partition
  <1> HIDE DEF s
  <1>6. /\ completions' \in Seq(Completion) /\ Once(completions')
        /\ SequencesOf(completions') = SequencesOf(completions) \cup {s}
        /\ Honest(completions', cancelled')
    BY <1>1, <1>5, ReportJoins DEF s
  <1>7. Partition(Queues', Hands', SequencesOf(completions'), outputs', Sending', outstanding')
    <2>1. Partition(Queues, Hands', SequencesOf(completions) \cup {s}, outputs, Sending,
                    outstanding)
      BY <1>2, <1>4, HandToReport
    <2>2. Queues' = Queues
      BY DEF Queues
    <2> QED
      BY <1>3, <1>6, <2>1, <2>2 DEF WorkerFrame, coordVars
  <1>8. Ledger'
    BY <1>6, <1>7 DEF PipelineInv, Ledger, QueuesAreSets, WorkerFrame, coordVars
  <1>9. Threads'
    BY <1>2, LiveWorkerMoves DEF InFlight
  <1>10. Verdicts'
    BY <1>2, <1>3, <1>6 DEF PipelineInv, Verdicts, Honest
  <1>11. TypeOK'
    BY <1>2, <1>6 DEF TypeOK, WorkerFrame, coordVars, logVars
  <1> QED
    BY <1>3, <1>8, <1>9, <1>10, <1>11 DEF PipelineInv

\* A worker hands the frame it holds to a worker with room.
LEMMA HandOverKeeps ==
    ASSUME PipelineInv, WorkerFrame, coord # "spawn", NEW w \in Workers, InFlight(w),
           NEW v \in Workers, phase[v] # "exited", Len(inbox[v]) < Limit,
           inbox' = [inbox EXCEPT ![v] = Append(@, holding[w])], Release(w),
           UNCHANGED <<completions, cancelled, probe>>, nextTeam' \in 0 .. NumTeams - 1
    PROVE  PipelineInv'
  <1> DEFINE s == holding[w]
  <1> TypeOK /\ QueuesAreSets
    BY DEF PipelineInv, Ledger
  <1>1. s \in FrameIds
    BY HeldIsFrame
  <1>2. /\ Loses(Hands, Hands', w, s) /\ s \in Hands[w]
        /\ phase' \in [Workers -> {"unspawned", "idle", "busy", "forward", "sending",
                                   "probing", "failing", "exited"}]
        /\ phase'[w] = "idle" /\ \A u \in Workers : u # w => phase'[u] = phase[u]
        /\ holding' \in [Workers -> 0 .. MaxSequence]
    BY HandLoses
  <1>3. /\ Records' /\ Emission' /\ NoInternalError' /\ Sending' = Sending
        /\ (failed' => cancelled')
    BY WorkersLeaveTheBooks
  <1>4. Partition(Queues, Hands, SequencesOf(completions), outputs, Sending, outstanding)
    BY DEF PipelineInv, Ledger
  <1>5. s \notin Queues[v]
    BY <1>2, <1>4 DEF Partition
  <1>6. /\ inbox' \in [Workers -> Seq(FrameIds)]
        /\ Gains(Queues, Queues', v, s)
        /\ \A u \in Workers : u # v => inbox'[u] = inbox[u]
        /\ Len(inbox'[v]) = Len(inbox[v]) + 1
        /\ IsInjective(inbox'[v])
    BY <1>1, <1>5, QueueGains DEF QueuesAreSets
  <1> HIDE DEF s
  <1>7. Partition(Queues', Hands', SequencesOf(completions'), outputs', Sending', outstanding')
    <2>1. Partition(Queues', Hands', SequencesOf(completions), outputs, Sending, outstanding)
      BY <1>2, <1>4, <1>6, HandToQueue
    <2> QED
      BY <1>3, <2>1 DEF WorkerFrame, coordVars
  <1>8. \A u \in Workers : IsInjective(inbox'[u]) /\ Len(inbox'[u]) <= Limit
    <2>1. Len(inbox'[v]) <= Limit
      BY <1>6 DEF TypeOK
    <2> QED
      BY <1>6, <2>1 DEF QueuesAreSets
  <1>9. Ledger'
    BY <1>7, <1>8 DEF PipelineInv, Ledger, QueuesAreSets, WorkerFrame, coordVars
  <1>10. Threads'
    <2>1. ASSUME NEW u \in Workers, phase[u] = "exited" PROVE inbox'[u] = inbox[u]
      <3>1. u # v
        BY <2>1
      <3> QED
        BY <1>6, <3>1
    <2> QED
      BY <1>2, <2>1, LiveWorkerMoves DEF InFlight
  <1>11. Verdicts'
    BY <1>2, <1>3 DEF PipelineInv, Verdicts
  <1>12. TypeOK'
    BY <1>2, <1>6 DEF TypeOK, WorkerFrame, coordVars, logVars
  <1> QED
    BY <1>3, <1>9, <1>10, <1>11, <1>12 DEF PipelineInv

\* A worker goes on with the frame it holds.
LEMMA StayInHandKeeps ==
    ASSUME PipelineInv, WorkerFrame, coord # "spawn", NEW w \in Workers, InFlight(w),
           phase' \in [Workers -> {"unspawned", "idle", "busy", "forward", "sending",
                                   "probing", "failing", "exited"}],
           InFlight(w)', phase'[w] = "probing" => w = Prepare,
           phase'[w] = "failing" => cancelled',
           \A v \in Workers : v # w => phase'[v] = phase[v],
           UNCHANGED <<inbox, holding, completions, nextTeam>>, probe' \in 0 .. NumTeams - 1,
           cancelled' \in BOOLEAN, cancelled => cancelled'
    PROVE  PipelineInv'
  <1>1. /\ Records' /\ Emission' /\ NoInternalError' /\ Sending' = Sending
        /\ (failed' => cancelled')
    BY WorkersLeaveTheBooks
  <1>2. Hands' = Hands /\ Queues' = Queues
    BY HandsKept DEF Queues
  <1>3. Ledger'
    BY <1>1, <1>2 DEF PipelineInv, Ledger, QueuesAreSets, WorkerFrame, coordVars
  <1>4. Threads'
    BY LiveWorkerMoves DEF InFlight
  <1>5. Verdicts'
    BY <1>1 DEF PipelineInv, Verdicts
  <1>6. TypeOK'
    BY DEF PipelineInv, TypeOK, WorkerFrame, coordVars, logVars
  <1> QED
    BY <1>1, <1>3, <1>4, <1>5, <1>6 DEF PipelineInv

\* A worker leaves once its senders are gone.
LEMMA ExitKeeps ==
    ASSUME PipelineInv, WorkerFrame, coord # "spawn", NEW w \in Workers, Exit(w)
    PROVE  PipelineInv'
  <1>1. /\ Records' /\ Emission' /\ NoInternalError' /\ Sending' = Sending
        /\ (failed' => cancelled')
    BY WorkersLeaveTheBooks DEF Exit
  <1>2. /\ phase[w] = "idle" /\ inbox[w] = <<>> /\ SendersGone(w)
        /\ phase'[w] = "exited" /\ \A v \in Workers : v # w => phase'[v] = phase[v]
        /\ UNCHANGED <<inbox, holding, nextTeam, probe, completions, cancelled>>
        /\ phase' \in [Workers -> {"unspawned", "idle", "busy", "forward", "sending",
                                   "probing", "failing", "exited"}]
    BY DEF PipelineInv, TypeOK, Exit
  <1>3. Hands' = Hands /\ Queues' = Queues
    <2>1. \A v \in Workers : InFlight(v)' <=> InFlight(v)
      BY <1>2 DEF InFlight
    <2> QED
      BY <1>2, <2>1 DEF Hands, Queues
  <1>4. Ledger'
    BY <1>1, <1>2, <1>3 DEF PipelineInv, Ledger, QueuesAreSets, WorkerFrame, coordVars
  <1>5. Threads'
    <2>1. Prepare \in Workers /\ Output \in Workers /\ Teams \subseteq Workers /\ Output # Prepare
          /\ Prepare \notin Teams /\ Output \notin Teams
      BY DEF Prepare, Output, Teams, Workers
    <2>2. Threads /\ coord' = coord /\ inputClosed' = inputClosed /\ spawned' = spawned
      BY DEF PipelineInv, WorkerFrame
    <2>3. (coord # "spawn" => \A v \in Workers : phase[v] # "unspawned")'
      BY <1>2, <2>2 DEF Threads
    <2>4. phase'[Prepare] = "exited" => inputClosed'
      BY <1>2, <2>1, <2>2 DEF Threads, SendersGone
    <2>5. ASSUME NEW t \in Teams, phase'[t] = "exited" PROVE phase'[Prepare] = "exited"
      BY <1>2, <2>1, <2>2, <2>5 DEF Threads, SendersGone
    <2>6. ASSUME phase'[Output] = "exited", NEW t \in Teams PROVE phase'[t] = "exited"
      BY <1>2, <2>1, <2>2, <2>6 DEF Threads, SendersGone
    <2>7. ASSUME NEW v \in Workers
          PROVE  /\ phase'[v] = "exited" => inbox'[v] = <<>>
                 /\ phase'[v] = "probing" => v = Prepare
      BY <1>2, <2>2 DEF Threads
    <2>8. inputClosed' = (coord' \in {"drain", "joining", "done"})
      BY <2>2 DEF Threads
    <2> QED
      BY <2>2, <2>3, <2>4, <2>5, <2>6, <2>7, <2>8 DEF Threads
  <1>6. Verdicts'
    BY <1>1, <1>2 DEF PipelineInv, Verdicts
  <1>7. TypeOK'
    BY <1>2 DEF PipelineInv, TypeOK, WorkerFrame, coordVars, logVars
  <1> QED
    BY <1>1, <1>4, <1>5, <1>6, <1>7 DEF PipelineInv

\* Every step of a worker keeps the invariant.  No worker finds its receivers
\* gone: they leave after it.
LEMMA WorkersKeep ==
    ASSUME PipelineInv, NEW w \in Workers, WorkerStep(w)
    PROVE  PipelineInv'
  <1>1. WorkerFrame /\ coord # "spawn" /\ TypeOK
    BY WorkersAwaitTheSpawning DEF WorkerStep, WorkerFrame, PipelineInv
  <1>2. /\ Prepare \in Workers /\ Output \in Workers /\ Teams \subseteq Workers
        /\ Output # Prepare /\ Prepare \notin Teams /\ Output \notin Teams
    BY DEF Prepare, Output, Teams, Workers
  <1>3. CASE Take(w)
    BY <1>1, <1>3, TakeKeeps
  <1>4. CASE CallbackOk(w)
    BY <1>1, <1>4, StayInHandKeeps DEF CallbackOk, InFlight, TypeOK
  <1>5. CASE CallbackFails(w)
    BY <1>1, <1>5, StayInHandKeeps DEF CallbackFails, InFlight, TypeOK
  <1>6. CASE ReportFailure(w)
    <2>1. InFlight(w) /\ cancelled
      BY <1>6 DEF ReportFailure, InFlight, PipelineInv, Verdicts
    <2> QED
      BY <1>1, <1>6, <2>1, ReportKeeps DEF ReportFailure
  <1>7. CASE ForwardCancelled(w)
    BY <1>1, <1>7, ReportKeeps DEF ForwardCancelled, InFlight
  <1>8. CASE ForwardChecks(w)
    <2>1. /\ InFlight(w) /\ InFlight(w)' /\ (phase'[w] = "probing" => w = Prepare)
          /\ phase'[w] # "failing"
          /\ \A v \in Workers : v # w => phase'[v] = phase[v]
          /\ phase' \in [Workers -> {"unspawned", "idle", "busy", "forward", "sending",
                                     "probing", "failing", "exited"}]
      BY <1>1, <1>8 DEF ForwardChecks, InFlight, TypeOK
    <2>2. /\ UNCHANGED <<inbox, holding, completions, nextTeam, cancelled>>
          /\ probe' \in 0 .. NumTeams - 1 /\ cancelled' \in BOOLEAN
      BY <1>1, <1>8 DEF ForwardChecks, TypeOK
    <2> QED
      BY <1>1, <2>1, <2>2, StayInHandKeeps
  <1>9. CASE w = Output /\ ForwardOutput
    BY <1>1, <1>9, ReportKeeps DEF ForwardOutput, InFlight
  <1>10. CASE w \in Teams /\ ForwardRaster(w)
    <2>1. phase[Output] # "exited"
      BY <1>10 DEF ForwardRaster, PipelineInv, Threads
    <2>2. /\ Len(inbox[Output]) < Limit /\ Release(w) /\ InFlight(w)
          /\ inbox' = [inbox EXCEPT ![Output] = Append(@, holding[w])]
          /\ UNCHANGED <<completions, cancelled, probe, nextTeam>>
      BY <1>10, <2>1 DEF ForwardRaster, InFlight
    <2>3. nextTeam' \in 0 .. NumTeams - 1
      BY <1>1, <2>2 DEF TypeOK
    <2> QED
      BY <1>1, <1>2, <2>1, <2>2, <2>3, HandOverKeeps
  <1>11. CASE w = Prepare /\ ProbeAccepted
    <2>1. TeamIndex \in 0 .. NumTeams - 1 /\ (TeamIndex + 1) % NumTeams \in 0 .. NumTeams - 1
      BY <1>1 DEF TeamIndex, TypeOK
    <2>2. ProbedTeam \in Workers
      BY <2>1 DEF ProbedTeam, Workers
    <2>3. phase[ProbedTeam] # "exited" /\ Len(inbox[ProbedTeam]) < Limit
      BY <1>11 DEF ProbeAccepted, HasRoom
    <2>4. /\ Release(w) /\ InFlight(w) /\ nextTeam' \in 0 .. NumTeams - 1
          /\ inbox' = [inbox EXCEPT ![ProbedTeam] = Append(@, holding[w])]
          /\ UNCHANGED <<completions, cancelled, probe>>
      BY <1>11, <2>1 DEF ProbeAccepted, InFlight
    <2> QED
      BY <1>1, <2>2, <2>3, <2>4, HandOverKeeps
  <1>12. CASE w = Prepare /\ ProbeNext
    <2>1. /\ phase[w] = "probing" /\ probe' \in 0 .. NumTeams - 1
          /\ UNCHANGED <<inbox, phase, holding, nextTeam, completions, cancelled>>
      BY <1>1, <1>12 DEF ProbeNext, TypeOK
    <2>2. InFlight(w) /\ InFlight(w)' /\ phase'[w] # "failing"
      BY <2>1 DEF InFlight
    <2> QED
      BY <1>1, <1>12, <2>1, <2>2, StayInHandKeeps DEF TypeOK
  <1>13. CASE w = Prepare /\ ProbeExhausted
    <2>1. ~ \A t \in Teams : phase[t] = "exited"
      <3>1. 1 \in Teams
        BY DEF Teams
      <3> QED
        BY <1>13, <3>1 DEF ProbeExhausted, PipelineInv, Threads
    <2>2. /\ phase[w] = "probing" /\ phase' = [phase EXCEPT ![w] = "forward"]
          /\ UNCHANGED <<inbox, holding, nextTeam, probe, completions, cancelled>>
      BY <1>13, <2>1 DEF ProbeExhausted
    <2>3. /\ InFlight(w) /\ InFlight(w)' /\ phase'[w] = "forward"
          /\ \A v \in Workers : v # w => phase'[v] = phase[v]
          /\ phase' \in [Workers -> {"unspawned", "idle", "busy", "forward", "sending",
                                     "probing", "failing", "exited"}]
      BY <1>1, <2>2 DEF InFlight, TypeOK
    <2> QED
      BY <1>1, <2>2, <2>3, StayInHandKeeps DEF TypeOK
  <1>14. CASE Exit(w)
    BY <1>1, <1>14, ExitKeeps
  <1> QED
    BY <1>3, <1>4, <1>5, <1>6, <1>7, <1>8, <1>9, <1>10, <1>11, <1>12, <1>13, <1>14
       DEF WorkerStep, Dispatch

-----------------------------------------------------------------------------
(* The coordinator keeps the invariant: receive_one. *)

\* The reports left after the first are as honest.
LEMMA TailHonest ==
    ASSUME NEW q \in Seq(Completion), q # <<>>, NEW raised, NEW now, Honest(q, raised),
           raised => now
    PROVE  Honest(Tail(q), now)
  <1> DEFINE r == Tail(q)
  <1>1. /\ Len(r) = Len(q) - 1 /\ Len(q) \in Nat \ {0}
        /\ \A i \in 1 .. Len(q) - 1 : r[i] = q[i + 1]
    OBVIOUS
  <1> HIDE DEF r
  <1>2. \A i \in 1 .. Len(r) : r[i] = q[i + 1] /\ i + 1 \in 1 .. Len(q)
    BY <1>1
  <1>3. Honest(r, now)
    BY <1>2 DEF Honest
  <1> QED
    BY <1>3 DEF r

\* The coordinator receives at the gate, when polling, at a barrier and in the
\* final drain, and stays there.
ReceiveFrame ==
  /\ coord \in {"gate", "ready", "barrier", "drain"}
  /\ UNCHANGED <<coord, spawned, previous, inputClosed, workerVars, logVars>>

\* Receiving a report keeps the invariant.
LEMMA ReceivesKeep ==
    ASSUME PipelineInv, ReceiveFrame, Receives
    PROVE  PipelineInv'
  <1> DEFINE s == Head(completions).sequence
  <1>1. /\ TypeOK /\ Once(completions) /\ Honest(completions, cancelled)
        /\ completions \in Seq(Completion) /\ completions # <<>>
        /\ completions' = Tail(completions) /\ flushing' \in BOOLEAN /\ flushing'
        /\ UNCHANGED <<coord, spawned, previous, inputClosed, inbox, phase, holding, nextTeam,
                       probe, submitted, emitted, barriers>>
    BY DEF PipelineInv, Ledger, QueuesAreSets, Verdicts, Honest, TypeOK, Receives,
           ReceiveFrame, workerVars, logVars, Parks, Ends
  <1>2. /\ s \in SequencesOf(completions) /\ completions' \in Seq(Completion)
        /\ SequencesOf(completions') = SequencesOf(completions) \ {s} /\ Once(completions')
    BY <1>1, TailReport
  <1>3. Parks(s) \/ Ends(s)
    BY DEF Receives
  <1>4. Partition(Queues, Hands, SequencesOf(completions), outputs, Sending, outstanding)
    BY DEF PipelineInv, Ledger
  <1>5. s \in outstanding /\ s \in FrameIds
    BY <1>1, <1>2, <1>4 DEF Partition, TypeOK
  <1>6. Queues' = Queues /\ Hands' = Hands /\ Sending' = Sending
    BY <1>1 DEF Queues, Hands, InFlight, Sending
  <1>7. QueuesAreSets'
    BY <1>1, <1>2 DEF PipelineInv, Ledger, QueuesAreSets
  <1>8. Threads'
    BY <1>1 DEF PipelineInv, Threads
  <1>9. coord \in {"gate", "ready", "barrier", "drain"}
    BY DEF ReceiveFrame
  <1> HIDE DEF s
  <1>10. CASE Parks(s)
    <2>1. /\ outputs' = outputs \cup {s} /\ ~cancelled
          /\ UNCHANGED <<order, outstanding, terminal, error, cancelled, slots>>
      BY <1>10 DEF Parks, Stopped
    <2>2. Partition(Queues', Hands', SequencesOf(completions'), outputs', Sending', outstanding')
      BY <1>2, <1>4, <1>6, <2>1, ReportToParked
    <2>3. Ledger'
      BY <1>7, <2>1, <2>2 DEF PipelineInv, Ledger
    <2>4. Records'
      BY <1>1, <1>9, <2>1 DEF PipelineInv, Records
    <2>5. Verdicts'
      <3>1. Honest(completions', cancelled')
        BY <1>1, <2>1, TailHonest
      <3> QED
        BY <1>1, <2>1, <3>1 DEF PipelineInv, Verdicts, Honest, failed, NoInternalError
    <2>6. Emission'
      BY <1>1, <2>1 DEF failed, PipelineInv, Emission, EmissionFollowsSubmission
    <2>7. TypeOK'
      BY <1>1, <1>2, <1>5, <2>1 DEF TypeOK
    <2> QED
      BY <1>8, <2>3, <2>4, <2>5, <2>6, <2>7 DEF PipelineInv
  <1>11. CASE Ends(s)
    <2>1. /\ terminal' = terminal \cup {s} /\ outstanding' = outstanding \ {s}
          /\ slots' = slots - 1 /\ cancelled' /\ cancelled' \in BOOLEAN
          /\ error' \in CallbackErrors \cup {error} /\ (failed => error' = error)
          /\ UNCHANGED <<order, outputs>>
      BY <1>11 DEF Ends, Terminate
    <2>2. Partition(Queues', Hands', SequencesOf(completions'), outputs', Sending', outstanding')
      BY <1>2, <1>4, <1>6, <2>1, ReportLeaves
    <2>3. slots' = Cardinality(outstanding') /\ slots' \in 0 .. Limit
      <3>1. IsFiniteSet(outstanding) /\ Cardinality(outstanding) \in Nat
        BY <1>1, FiniteWindow
      <3>2. Cardinality(outstanding') = Cardinality(outstanding) - 1
        BY <1>5, <2>1, <3>1, FS_RemoveElement
      <3>3. IsFiniteSet(outstanding') /\ Cardinality(outstanding') \in Nat
        BY <2>1, <3>1, FS_Subset, FS_CardinalityType
      <3> QED
        BY <1>1, <2>1, <3>1, <3>2, <3>3 DEF PipelineInv, Ledger, TypeOK
    <2>4. Ledger'
      BY <1>7, <2>2, <2>3 DEF Ledger
    <2>5. Records'
      BY <1>1, <1>5, <1>9, <2>1 DEF PipelineInv, Records
    <2>6. Verdicts'
      <3>1. Honest(completions', cancelled')
        BY <1>1, <2>1, TailHonest
      <3>2. NoInternalError'
        BY <2>1 DEF PipelineInv, Verdicts, NoInternalError, CallbackErrors
      <3> QED
        BY <2>1, <3>1, <3>2 DEF Verdicts, Honest
    <2>7. Emission'
      BY <1>1, <1>9, <2>1 DEF PipelineInv, Emission, EmissionFollowsSubmission
    <2>8. TypeOK'
      BY <1>1, <1>2, <1>5, <2>1, <2>3 DEF TypeOK, Errors
    <2> QED
      BY <1>8, <2>4, <2>5, <2>6, <2>7, <2>8 DEF PipelineInv
  <1> QED
    BY <1>3, <1>10, <1>11

-----------------------------------------------------------------------------
(* The coordinator keeps the invariant: emit_ready. *)

\* Handing over the head of what is left keeps the whole.
LEMMA HandOverTheHead ==
    ASSUME NEW S, NEW a \in Seq(S), NEW b \in Seq(S), b # <<>>
    PROVE  /\ Append(a, Head(b)) \in Seq(S)
           /\ Append(a, Head(b)) \o Tail(b) = a \o b
           /\ Len(Append(a, Head(b))) <= Len(a \o b)
           /\ \A i \in 1 .. Len(Append(a, Head(b))) : Append(a, Head(b))[i] = (a \o b)[i]
  <1> DEFINE c == Append(a, Head(b))
             t == Tail(b)
             d == a \o b
             e == c \o t
  <1>1. /\ Len(b) \in Nat \ {0} /\ Head(b) = b[1] /\ b[1] \in S /\ Len(a) \in Nat
        /\ c \in Seq(S) /\ Len(c) = Len(a) + 1 /\ c[Len(a) + 1] = b[1]
        /\ \A i \in 1 .. Len(a) : c[i] = a[i]
        /\ t \in Seq(S) /\ Len(t) = Len(b) - 1
        /\ \A i \in 1 .. Len(b) - 1 : t[i] = b[i + 1]
    OBVIOUS
  <1>2. /\ d \in Seq(S) /\ Len(d) = Len(a) + Len(b)
        /\ \A i \in 1 .. Len(a) + Len(b) : d[i] = IF i <= Len(a) THEN a[i] ELSE b[i - Len(a)]
    BY ConcatProperties
  <1> HIDE DEF c, t
  <1>3. /\ e \in Seq(S) /\ Len(e) = Len(c) + Len(t)
        /\ \A i \in 1 .. Len(c) + Len(t) : e[i] = IF i <= Len(c) THEN c[i] ELSE t[i - Len(c)]
    BY <1>1, ConcatProperties
  <1> HIDE DEF d, e
  <1>4. ASSUME NEW i \in 1 .. Len(c) PROVE c[i] = d[i]
    <2>1. CASE i <= Len(a)
      BY <1>1, <1>2, <2>1
    <2>2. CASE i = Len(a) + 1
      <3>1. i \in 1 .. Len(a) + Len(b) /\ ~(i <= Len(a)) /\ i - Len(a) = 1
        BY <1>1, <2>2
      <3>2. d[i] = b[i - Len(a)]
        BY <1>2, <3>1
      <3> QED
        BY <1>1, <2>2, <3>1, <3>2
    <2> QED
      BY <1>1, <2>1, <2>2
  <1>5. Len(e) = Len(d)
    BY <1>1, <1>2, <1>3
  <1>6. ASSUME NEW i \in 1 .. Len(d) PROVE e[i] = d[i]
    <2>1. CASE i <= Len(c)
      BY <1>1, <1>2, <1>3, <1>4, <2>1
    <2>2. CASE i > Len(c)
      <3>0. /\ i - Len(c) \in 1 .. Len(b) - 1
            /\ i \in 1 .. Len(c) + Len(t) /\ ~(i <= Len(c))
        BY <1>1, <1>2, <2>2
      <3>1. e[i] = t[i - Len(c)] /\ i - Len(c) \in 1 .. Len(b) - 1
        BY <1>3, <3>0
      <3>2. t[i - Len(c)] = b[i - Len(a)]
        BY <1>1, <3>1
      <3> QED
        BY <1>1, <1>2, <2>2, <3>1, <3>2
    <2> QED
      BY <1>1, <1>2, <2>1, <2>2
  <1>7. e = d
    BY <1>2, <1>3, <1>5, <1>6, SeqEqual
  <1>8. Len(c) <= Len(d)
    BY <1>1, <1>2
  <1> QED
    BY <1>1, <1>4, <1>7, <1>8 DEF c, d, e, t

EmitFrame ==
  UNCHANGED <<coord, spawned, previous, completions, inputClosed, workerVars, submitted, barriers>>

\* What emit_ready leaves alone stays right.
LEMMA EmitLeaves ==
    ASSUME PipelineInv, EmitFrame
    PROVE  /\ Queues' = Queues /\ Hands' = Hands /\ Sending' = Sending
           /\ QueuesAreSets' /\ Threads'
  <1>1. UNCHANGED <<coord, spawned, previous, completions, inputClosed, inbox, phase, holding>>
    BY DEF EmitFrame, workerVars
  <1> QED
    BY <1>1 DEF PipelineInv, Ledger, QueuesAreSets, Threads, Queues, Hands, InFlight, Sending

\* The head of the order is outstanding or terminal, and leaves the rest distinct.
LEMMA OrderHead ==
    ASSUME PipelineInv, order # <<>>
    PROVE  /\ Head(order) \in FrameIds /\ Head(order) \in outstanding \cup terminal
           /\ Tail(order) \in Seq(FrameIds) /\ IsInjective(Tail(order))
           /\ Range(Tail(order)) = (outstanding \cup terminal) \ {Head(order)}
  BY TailMembers DEF PipelineInv, Records, TypeOK

\* A frame that ended early is skipped at the head.
LEMMA SkipKeeps ==
    ASSUME PipelineInv, flushing, EmitFrame, order # <<>>, SkipTerminal
    PROVE  PipelineInv'
  <1> DEFINE h == Head(order)
  <1>1. /\ h \in terminal /\ order' = Tail(order) /\ terminal' = terminal \ {h}
        /\ UNCHANGED <<flushing, outstanding, outputs, error, cancelled, slots, emitted>>
        /\ UNCHANGED <<coord, spawned, previous, completions, inputClosed, inbox, phase, holding,
                       nextTeam, probe, submitted, barriers>>
    BY DEF SkipTerminal, PopHead, EmitFrame, workerVars
  <1>2. /\ Tail(order) \in Seq(FrameIds) /\ IsInjective(Tail(order))
        /\ Range(Tail(order)) = (outstanding \cup terminal) \ {h}
    BY OrderHead
  <1> HIDE DEF h
  <1>3. h \notin outstanding /\ cancelled
    BY <1>1 DEF PipelineInv, Records, Emission
  <1>4. Records'
    BY <1>1, <1>2, <1>3 DEF PipelineInv, Records
  <1>5. Ledger' /\ Threads'
    BY <1>1, EmitLeaves DEF PipelineInv, Ledger
  <1>6. Verdicts'
    BY <1>1 DEF PipelineInv, Verdicts, failed, NoInternalError
  <1>7. Emission'
    BY <1>1, <1>3 DEF failed, PipelineInv, Emission, EmissionFollowsSubmission
  <1>8. TypeOK'
    BY <1>1, <1>2 DEF PipelineInv, TypeOK
  <1> QED
    BY <1>4, <1>5, <1>6, <1>7, <1>8 DEF PipelineInv

\* A finished frame at the head is released, and emitted unless the run has
\* stopped or the callback fails.
LEMMA ReleaseKeeps ==
    ASSUME PipelineInv, flushing, EmitFrame, order # <<>>, HeadIsParked, ReleaseHead,
           \/ cancelled /\ UNCHANGED <<error, cancelled, emitted>>
           \/ ~cancelled /\ emitted' = Append(emitted, Head(order)) /\ UNCHANGED <<error, cancelled>>
           \/ error' \in CallbackErrors /\ cancelled' /\ cancelled' \in BOOLEAN /\ UNCHANGED emitted
    PROVE  PipelineInv'
  <1> DEFINE h == Head(order)
  <1>1. /\ h \in outputs /\ order' = Tail(order)
        /\ outputs' = outputs \ {h} /\ outstanding' = outstanding \ {h} /\ slots' = slots - 1
        /\ UNCHANGED <<flushing, terminal>>
        /\ UNCHANGED <<coord, spawned, previous, completions, inputClosed, inbox, phase, holding,
                       nextTeam, probe, submitted, barriers>>
    BY DEF HeadIsParked, ReleaseHead, PopHead, EmitFrame, workerVars
  <1>2. /\ Tail(order) \in Seq(FrameIds) /\ IsInjective(Tail(order))
        /\ Range(Tail(order)) = (outstanding \cup terminal) \ {h}
        /\ h \in FrameIds
    BY OrderHead
  <1>3. Partition(Queues, Hands, SequencesOf(completions), outputs, Sending, outstanding)
    BY DEF PipelineInv, Ledger
  <1>4. h \in outstanding
    BY <1>1, <1>3 DEF Partition
  <1>5. /\ Queues' = Queues /\ Hands' = Hands /\ Sending' = Sending
        /\ QueuesAreSets' /\ Threads'
    BY EmitLeaves
  <1>6. coord \in {"gate", "ready", "barrier", "drain"}
    BY DEF PipelineInv, Records
  <1>7. cancelled' \/ (~cancelled /\ ~cancelled' /\ emitted' = Append(emitted, h))
    BY DEF PipelineInv, TypeOK
  <1>8. /\ emitted' \in Seq(FrameIds) /\ cancelled' \in BOOLEAN
        /\ error' \in CallbackErrors \cup {error} /\ (failed' => cancelled')
        /\ (cancelled => cancelled')
    <2>1. emitted' \in Seq(FrameIds)
      <3>1. emitted \in Seq(FrameIds) /\ Append(emitted, Head(order)) \in Seq(FrameIds)
        BY <1>2 DEF PipelineInv, TypeOK
      <3> QED
        BY <3>1
    <2>2. cancelled \in BOOLEAN /\ (failed => cancelled)
      BY DEF PipelineInv, TypeOK, Verdicts
    <2> QED
      BY <2>1, <2>2 DEF failed
  <1>9. emitted' = emitted \/ (~cancelled /\ emitted' = Append(emitted, h))
    OBVIOUS
  <1> HIDE DEF h
  <1>10. slots' = Cardinality(outstanding') /\ slots' \in 0 .. Limit
    <2>1. IsFiniteSet(outstanding) /\ Cardinality(outstanding) \in Nat
      BY FiniteWindow DEF PipelineInv
    <2>2. Cardinality(outstanding') = Cardinality(outstanding) - 1
      BY <1>1, <1>4, <2>1, FS_RemoveElement
    <2>3. IsFiniteSet(outstanding') /\ Cardinality(outstanding') \in Nat
      BY <1>1, <2>1, FS_Subset, FS_CardinalityType
    <2> QED
      BY <1>1, <2>1, <2>2, <2>3 DEF PipelineInv, Ledger, TypeOK
  <1>11. Ledger'
    <2>1. Partition(Queues', Hands', SequencesOf(completions'), outputs', Sending', outstanding')
      BY <1>1, <1>3, <1>5, ParkedLeaves
    <2> QED
      BY <1>5, <1>10, <2>1 DEF Ledger
  <1>12. Records'
    BY <1>1, <1>2, <1>4, <1>6 DEF PipelineInv, Records
  <1>13. Verdicts'
    <2>1. NoInternalError'
      BY <1>8 DEF PipelineInv, Verdicts, NoInternalError, CallbackErrors
    <2> QED
      BY <1>1, <1>8, <2>1 DEF PipelineInv, Verdicts
  <1>14. Emission'
    <2>1. CASE emitted' = Append(emitted, h) /\ ~cancelled
      <3>1. /\ submitted = emitted \o order /\ terminal = {}
            /\ emitted \in Seq(FrameIds) /\ order \in Seq(FrameIds)
        BY <2>1 DEF PipelineInv, Emission, TypeOK
      <3>2. /\ emitted' \o order' = submitted /\ Len(emitted') <= Len(submitted)
            /\ \A i \in 1 .. Len(emitted') : emitted'[i] = submitted[i]
        BY <1>1, <2>1, <3>1, HandOverTheHead DEF h
      <3> QED
        BY <1>1, <1>6, <3>1, <3>2 DEF Emission, EmissionFollowsSubmission
    <2>2. CASE emitted' = emitted /\ cancelled'
      BY <1>1, <1>6, <2>2 DEF PipelineInv, Emission, EmissionFollowsSubmission
    <2> QED
      BY <1>7, <1>9, <2>1, <2>2 DEF PipelineInv, TypeOK
  <1>15. TypeOK'
    BY <1>1, <1>2, <1>8, <1>10 DEF PipelineInv, TypeOK, Errors
  <1> QED
    BY <1>5, <1>11, <1>12, <1>13, <1>14, <1>15 DEF PipelineInv

\* A step of flush_ready keeps the invariant.
LEMMA EmitReadyKeeps ==
    ASSUME PipelineInv, EmitReady
    PROVE  PipelineInv'
  <1>1. flushing /\ EmitFrame
    BY DEF EmitReady, EmitFrame
  <1>2. CASE order # <<>> /\ SkipTerminal
    BY <1>1, <1>2, SkipKeeps
  <1>3. CASE order # <<>> /\ DiscardHead
    <2>1. HeadIsParked /\ ReleaseHead /\ cancelled /\ UNCHANGED <<error, cancelled, emitted>>
      BY <1>3 DEF DiscardHead, Stopped, PipelineInv, Verdicts
    <2> QED
      BY <1>1, <1>3, <2>1, ReleaseKeeps
  <1>4. CASE order # <<>> /\ EmitHead
    <2>1. /\ HeadIsParked /\ ReleaseHead /\ ~cancelled
          /\ emitted' = Append(emitted, Head(order)) /\ UNCHANGED <<error, cancelled>>
      BY <1>4 DEF EmitHead, Stopped
    <2> QED
      BY <1>1, <1>4, <2>1, ReleaseKeeps
  <1>5. CASE order # <<>> /\ EmitHeadFails
    <2>1. /\ HeadIsParked /\ ReleaseHead /\ UNCHANGED emitted
          /\ error' \in CallbackErrors /\ cancelled' /\ cancelled' \in BOOLEAN
      BY <1>5 DEF EmitHeadFails, Stopped, Fail
    <2> QED
      BY <1>1, <1>5, <2>1, ReleaseKeeps
  <1>6. CASE FlushEnds
    <2>1. /\ UNCHANGED <<order, outstanding, outputs, terminal, error, cancelled, slots, emitted>>
          /\ UNCHANGED <<coord, spawned, previous, completions, inputClosed, inbox, phase, holding,
                         nextTeam, probe, submitted, barriers>>
          /\ ~flushing' /\ flushing' \in BOOLEAN
          /\ order = <<>> \/ Head(order) \notin terminal \cup outputs
      BY <1>1, <1>6 DEF FlushEnds, EmitFrame, coordVars, workerVars
    <2>2. Ledger' /\ Threads'
      BY <1>1, <2>1, EmitLeaves DEF PipelineInv, Ledger
    <2>3. Records' /\ Verdicts' /\ Emission' /\ TypeOK'
      BY <2>1 DEF PipelineInv, Records, Verdicts, Emission, TypeOK, failed, NoInternalError,
         EmissionFollowsSubmission
    <2> QED
      BY <2>2, <2>3 DEF PipelineInv
  <1> QED
    BY <1>2, <1>3, <1>4, <1>5, <1>6 DEF EmitReady

-----------------------------------------------------------------------------
(* The coordinator keeps the invariant: its loop. *)

\* Before the token is raised the coordinator is behind by the frames
\* outstanding; with none it has emitted everything.
LEMMA BehindByTheWindow ==
    ASSUME PipelineInv, ~cancelled
    PROVE  /\ Len(submitted) - Len(emitted) = Cardinality(outstanding)
           /\ outstanding = {} => emitted = submitted
  <1> USE DEF PipelineInv
  <1>1. /\ submitted = emitted \o order /\ Range(order) = outstanding
        /\ emitted \in Seq(FrameIds) /\ order \in Seq(FrameIds) /\ IsInjective(order)
    BY DEF Emission, Records, TypeOK
  <1>2. Len(submitted) = Len(emitted) + Len(order)
    BY <1>1, ConcatProperties
  <1>3. Cardinality(outstanding) = Len(order)
    BY <1>1, LengthIsCardinality
  <1>4. outstanding = {} => emitted = submitted
    <2>1. outstanding = {} => order = <<>>
      BY <1>1, TailMembers
    <2>2. emitted \o <<>> = emitted
      BY <1>1, ConcatEmptySeq
    <2> QED
      BY <1>1, <2>1, <2>2
  <1> QED
    BY <1>1, <1>2, <1>3, <1>4

\* Steps that move the coordinator and may record an error, and touch no frame.
ControlFrame ==
  UNCHANGED <<flushing, spawned, previous, order, outstanding, outputs, terminal, slots,
              completions, workerVars, submitted, emitted>>

\* A step that only moves the coordinator keeps the invariant.
LEMMA ControlKeeps ==
    ASSUME PipelineInv, ControlFrame, ~flushing, coord \notin {"spawn", "send"},
           coord' \in {"open", "head", "gate", "pull", "ready", "barrier", "drain", "joining",
                       "done"},
           inputClosed' = (coord' \in {"drain", "joining", "done"}), inputClosed => inputClosed',
           barriers' \in 0 .. MaxBarriers, coord' = "barrier" => barriers' < MaxBarriers,
           error' \in (Errors \ {"StageDisconnected", "LeakedSlots"}) \cup {error},
           failed' => cancelled', cancelled => cancelled', cancelled' \in BOOLEAN,
           coord' = "pull" => /\ ~failed' /\ Cardinality(outstanding) < Limit
                              /\ Len(submitted) - Len(emitted) < Limit,
           coord' \in {"open", "joining", "done"} => outstanding = {},
           coord' \in {"joining", "done"} /\ error' = "None" => emitted = submitted
    PROVE  PipelineInv'
  <1>1. UNCHANGED <<flushing, spawned, previous, order, outstanding, outputs, terminal, slots,
                    completions, inbox, phase, holding, nextTeam, probe, submitted, emitted>>
    BY DEF ControlFrame, workerVars
  <1>2. Queues' = Queues /\ Hands' = Hands /\ Sending = {} /\ Sending' = {}
    BY <1>1 DEF Queues, Hands, InFlight, Sending
  <1>3. Ledger'
    BY <1>1, <1>2 DEF PipelineInv, Ledger, QueuesAreSets
  <1>4. Threads'
    BY <1>1 DEF PipelineInv, Threads
  <1>5. Records'
    BY <1>1 DEF PipelineInv, Records
  <1>6. Verdicts'
    BY <1>1 DEF PipelineInv, Verdicts, NoInternalError
  <1>7. Emission'
    BY <1>1 DEF PipelineInv, Emission, EmissionFollowsSubmission
  <1>8. TypeOK'
    BY <1>1 DEF PipelineInv, TypeOK, Errors
  <1> QED
    BY <1>3, <1>4, <1>5, <1>6, <1>7, <1>8 DEF PipelineInv

\* A frame is submitted: it takes the permit the gate found free.
LEMMA SceneFrameKeeps ==
    ASSUME PipelineInv, NEW s \in FrameIds, s > previous, At("pull"), SceneFrame(s),
           UNCHANGED <<spawned, workerVars>>
    PROVE  PipelineInv'
  <1> USE DEF PipelineInv
  <1>1. /\ previous' = s /\ slots' = slots + 1 /\ order' = Append(order, s)
        /\ outstanding' = outstanding \cup {s} /\ submitted' = Append(submitted, s)
        /\ coord = "pull" /\ coord' = "send" /\ ~flushing
        /\ UNCHANGED <<outputs, terminal, error, cancelled, flushing, completions, emitted,
                       barriers, inputClosed, spawned, inbox, phase, holding, nextTeam, probe>>
    BY DEF SceneFrame, At, Stay, workerVars, TypeOK, FrameIds
  <1>2. s \notin outstanding \cup terminal
    BY <1>1 DEF Records, FrameIds, TypeOK
  <1>3. /\ order' \in Seq(FrameIds) /\ IsInjective(order')
        /\ Range(order') = Range(order) \cup {s}
    BY <1>1, <1>2, AppendMembers DEF Records, TypeOK
  <1>4. Partition(Queues, Hands, SequencesOf(completions), outputs, {}, outstanding)
    BY <1>1 DEF Ledger, Sending
  <1>5. Queues' = Queues /\ Hands' = Hands /\ Sending' = {s}
    BY <1>1 DEF Queues, Hands, InFlight, Sending
  <1>6. slots' = Cardinality(outstanding') /\ slots' \in 0 .. Limit
    <2>1. IsFiniteSet(outstanding) /\ Cardinality(outstanding) \in Nat
      BY FiniteWindow
    <2>2. Cardinality(outstanding') = Cardinality(outstanding) + 1
      BY <1>1, <1>2, <2>1, FS_AddElement
    <2> QED
      BY <1>1, <2>1, <2>2 DEF Ledger, Emission
  <1>7. Ledger'
    <2>1. Partition(Queues', Hands', SequencesOf(completions'), outputs', Sending', outstanding')
      BY <1>1, <1>2, <1>4, <1>5, FrameEnters
    <2> QED
      BY <1>1, <1>6, <2>1 DEF Ledger, QueuesAreSets
  <1>8. Threads'
    BY <1>1 DEF Threads
  <1>9. Records'
    <2>1. order' = <<>> \/ Head(order') \notin terminal' \cup outputs'
      <3>1. outputs \subseteq outstanding
        BY <1>4 DEF Partition
      <3>2. CASE order = <<>>
        BY <1>1, <1>2, <3>1, <3>2
      <3>3. CASE order # <<>>
        <4>1. Head(order') = Head(order)
          BY <1>1, <3>3 DEF TypeOK
        <4> QED
          BY <1>1, <3>3, <4>1 DEF Records
      <3> QED
        BY <3>2, <3>3
    <2>2. \A x \in outstanding' \cup terminal' : x <= previous'
      <3>1. \A x \in outstanding \cup terminal : x <= previous /\ x \in Int
        BY DEF Records, TypeOK, FrameIds
      <3>2. previous \in Int /\ s \in Int
        BY DEF TypeOK, FrameIds
      <3> QED
        BY <1>1, <3>1, <3>2
    <2> QED
      BY <1>1, <1>2, <1>3, <2>1, <2>2 DEF Records
  <1>10. Verdicts'
    BY <1>1 DEF Verdicts, failed, NoInternalError
  <1>11. submitted' \in Seq(FrameIds)
    BY <1>1 DEF TypeOK
  <1>12. Emission'
    <2>1. /\ submitted \in Seq(FrameIds) /\ emitted \in Seq(FrameIds) /\ order \in Seq(FrameIds)
      BY DEF TypeOK
    <2>2. EmissionFollowsSubmission'
      BY <1>1, <2>1 DEF Emission, EmissionFollowsSubmission
    <2>3. Append(emitted \o order, s) = emitted \o Append(order, s)
      <3>1. emitted \o order \in Seq(FrameIds) /\ <<s>> \in Seq(FrameIds)
        BY <2>1
      <3>2. Append(emitted \o order, s) = (emitted \o order) \o <<s>>
        BY <3>1, AppendIsConcat
      <3>3. Append(order, s) = order \o <<s>>
        BY <2>1, AppendIsConcat
      <3> QED
        BY <2>1, <3>1, <3>2, <3>3, ConcatAssociative
    <2>4. submitted = emitted \o order => submitted' = emitted \o order'
      BY <1>1, <2>3
    <2> QED
      BY <1>1, <2>2, <2>4 DEF Emission
  <1>13. TypeOK'
    BY <1>1, <1>3, <1>6, <1>11 DEF TypeOK, FrameIds
  <1> QED
    BY <1>7, <1>8, <1>9, <1>10, <1>12, <1>13

\* The submitted frame is sent to the prepare worker, which is there.
LEMMA SendToPrepareKeeps ==
    ASSUME PipelineInv, SendToPrepare
    PROVE  PipelineInv'
  <1> USE DEF PipelineInv
  <1>1. coord = "send" /\ ~flushing /\ ~inputClosed /\ coord' = "ready" /\ UNCHANGED inputClosed
    BY DEF SendToPrepare, At, Stay, Threads
  <1>2. phase[Prepare] # "exited" /\ Prepare \in Workers
    BY <1>1 DEF Threads, Prepare, Workers
  <1>3. /\ Len(inbox[Prepare]) < Limit
        /\ inbox' = [inbox EXCEPT ![Prepare] = Append(@, previous)]
        /\ UNCHANGED <<order, outstanding, outputs, terminal, error, flushing, cancelled, slots,
                       spawned, previous, completions, phase, holding, nextTeam, probe,
                       submitted, emitted, barriers>>
    BY <1>2 DEF SendToPrepare, coordVars, logVars
  <1>4. /\ Partition(Queues, Hands, SequencesOf(completions), outputs, Sending, outstanding)
        /\ Sending = {previous} /\ TypeOK /\ QueuesAreSets
    BY <1>1 DEF Ledger, Sending
  <1>5. previous \in FrameIds /\ previous \notin Queues[Prepare]
    BY <1>2, <1>4 DEF Partition, TypeOK
  <1>6. /\ inbox' \in [Workers -> Seq(FrameIds)]
        /\ Gains(Queues, Queues', Prepare, previous)
        /\ \A v \in Workers : v # Prepare => inbox'[v] = inbox[v]
        /\ Len(inbox'[Prepare]) = Len(inbox[Prepare]) + 1
        /\ IsInjective(inbox'[Prepare])
    BY <1>2, <1>3, <1>4, <1>5, QueueGains DEF QueuesAreSets
  <1>7. Hands' = Hands /\ Sending' = {}
    BY <1>1, <1>3 DEF Hands, InFlight, Sending
  <1>8. Ledger'
    <2>1. Partition(Queues', Hands', SequencesOf(completions'), outputs', Sending', outstanding')
      BY <1>2, <1>3, <1>4, <1>6, <1>7, SendingToQueue
    <2>2. Len(inbox'[Prepare]) <= Limit
      BY <1>2, <1>3, <1>6 DEF TypeOK
    <2>3. QueuesAreSets'
      BY <1>3, <1>6, <2>2 DEF Ledger, QueuesAreSets
    <2> QED
      BY <1>3, <2>1, <2>3 DEF Ledger
  <1>9. Threads'
    <2>1. ASSUME NEW v \in Workers, phase[v] = "exited" PROVE inbox'[v] = inbox[v]
      <3>1. v # Prepare
        BY <1>2, <2>1
      <3> QED
        BY <1>6, <3>1
    <2> QED
      BY <1>1, <1>3, <2>1 DEF Threads
  <1>10. Records' /\ Verdicts' /\ Emission'
    BY <1>1, <1>3 DEF Records, Verdicts, Emission, failed, NoInternalError,
       EmissionFollowsSubmission
  <1>11. TypeOK'
    BY <1>1, <1>3, <1>6 DEF TypeOK
  <1> QED
    BY <1>8, <1>9, <1>10, <1>11

\* Every worker has its turn to be spawned.
LEMMA SpawnTurns ==
    /\ \A n \in 0 .. NumTeams + 1 : SpawnOrder(n) \in Workers
    /\ \A m, n \in 0 .. NumTeams + 1 : SpawnOrder(m) = SpawnOrder(n) => m = n
    /\ \A w \in Workers : \E n \in 0 .. NumTeams + 1 : SpawnOrder(n) = w
  <1>1. \A n \in 0 .. NumTeams + 1 : SpawnOrder(n) \in Workers
    BY DEF SpawnOrder, Workers, Output, Prepare
  <1>2. \A m, n \in 0 .. NumTeams + 1 : SpawnOrder(m) = SpawnOrder(n) => m = n
    BY DEF SpawnOrder, Output, Prepare
  <1>3. ASSUME NEW w \in Workers PROVE \E n \in 0 .. NumTeams + 1 : SpawnOrder(n) = w
    <2>1. CASE w = Output
      BY <2>1 DEF SpawnOrder
    <2>2. CASE w = Prepare
      BY <2>2 DEF SpawnOrder, Prepare
    <2>3. CASE w # Output /\ w # Prepare
      BY <2>3 DEF SpawnOrder, Prepare, Output, Workers
    <2> QED
      BY <2>1, <2>2, <2>3
  <1> QED
    BY <1>1, <1>2, <1>3

\* Spawning a worker keeps the invariant.
LEMMA SpawnWorkerKeeps ==
    ASSUME PipelineInv, SpawnWorker
    PROVE  PipelineInv'
  <1> USE DEF PipelineInv
  <1> DEFINE u == SpawnOrder(spawned)
  <1>1. /\ coord = "spawn" /\ spawned \in 0 .. NumTeams + 1 /\ spawned' = spawned + 1
        /\ coord' = IF spawned + 1 = NumTeams + 2 THEN "open" ELSE "spawn"
        /\ phase' = [phase EXCEPT ![u] = "idle"]
        /\ UNCHANGED <<flushing, previous, order, outstanding, outputs, terminal, error,
                       cancelled, slots, completions, inputClosed, inbox, holding, nextTeam,
                       probe, submitted, emitted, barriers>>
    BY DEF SpawnWorker, coordVars, logVars, TypeOK
  <1>2. u \in Workers /\ phase[u] = "unspawned"
    BY <1>1, SpawnTurns DEF Threads
  <1>3. /\ phase' \in [Workers -> {"unspawned", "idle", "busy", "forward", "sending",
                                   "probing", "failing", "exited"}]
        /\ phase'[u] = "idle" /\ \A w \in Workers : w # u => phase'[w] = phase[w]
    BY <1>1, <1>2 DEF TypeOK
  <1>4. \A n \in 0 .. NumTeams + 1 :
          phase[SpawnOrder(n)] = IF n < spawned THEN "idle" ELSE "unspawned"
    BY <1>1 DEF Threads
  <1>5. \A n \in 0 .. NumTeams + 1 :
          phase'[SpawnOrder(n)] = IF n < spawned' THEN "idle" ELSE "unspawned"
    <2> SUFFICES ASSUME NEW n \in 0 .. NumTeams + 1
                 PROVE  phase'[SpawnOrder(n)] = IF n < spawned' THEN "idle" ELSE "unspawned"
      OBVIOUS
    <2>1. CASE n = spawned
      BY <1>1, <1>3, <2>1
    <2>2. CASE n # spawned
      <3>1. SpawnOrder(n) # u /\ SpawnOrder(n) \in Workers
        BY <1>1, <2>2, SpawnTurns
      <3>2. n < spawned' <=> n < spawned
        BY <1>1, <2>2
      <3> QED
        BY <1>3, <1>4, <3>1, <3>2
    <2> QED
      BY <2>1, <2>2
  <1>6. \A w \in Workers : phase'[w] \in {"idle", "unspawned"}
    BY <1>5, SpawnTurns
  <1>7. /\ inputClosed = FALSE
        /\ Prepare \in Workers /\ Output \in Workers /\ Teams \subseteq Workers
    <2>1. inputClosed = FALSE
      BY <1>1 DEF Threads, TypeOK
    <2> QED
      BY <2>1 DEF Prepare, Output, Workers, Teams
  <1>8. coord' # "spawn" => \A w \in Workers : phase'[w] = "idle"
    BY <1>1, <1>5, SpawnTurns
  <1> HIDE DEF u
  <1>9. Threads'
    <2>1. coord' = "spawn" => spawned' < NumTeams + 2
      BY <1>1
    <2>2. inputClosed' = (coord' \in {"drain", "joining", "done"})
      <3>1. coord' \in {"open", "spawn"} /\ inputClosed' = FALSE
        BY <1>1, <1>7
      <3>2. (coord' \in {"drain", "joining", "done"}) = FALSE
        BY <3>1
      <3> QED
        BY <3>1, <3>2, Zenon
    <2> QED
      BY <1>1, <1>5, <1>6, <1>7, <1>8, <2>1, <2>2 DEF Threads
  <1>10. Queues' = Queues /\ Hands' = Hands /\ Sending' = Sending
    <2>1. \A w \in Workers : InFlight(w)' <=> InFlight(w)
      BY <1>2, <1>3 DEF InFlight
    <2> QED
      BY <1>1, <2>1 DEF Queues, Hands, Sending
  <1>11. Ledger'
    BY <1>1, <1>10 DEF Ledger, QueuesAreSets
  <1>12. Records' /\ Emission'
    BY <1>1 DEF Records, Emission, EmissionFollowsSubmission
  <1>13. Verdicts'
    BY <1>1, <1>6 DEF Verdicts, failed, NoInternalError
  <1>14. TypeOK'
    BY <1>1, <1>3 DEF TypeOK
  <1> QED
    BY <1>9, <1>11, <1>12, <1>13, <1>14

\* A refused spawn ends the run: the threads never started count as gone.
LEMMA SpawnRefusedKeeps ==
    ASSUME PipelineInv, SpawnRefused
    PROVE  PipelineInv'
  <1> USE DEF PipelineInv
  <1>1. /\ coord = "spawn" /\ spawned \in 0 .. NumTeams + 1
        /\ coord' = "joining" /\ inputClosed'
        /\ inputClosed' \in BOOLEAN
        /\ phase' = [w \in Workers |-> IF phase[w] = "unspawned" THEN "exited" ELSE phase[w]]
        /\ error' # "None" /\ cancelled' \in BOOLEAN /\ cancelled'
        /\ error' \in {error, "WorkerSpawnFailed"}
        /\ UNCHANGED <<flushing, spawned, previous, order, outstanding, outputs, terminal,
                       slots, completions, inbox, holding, nextTeam, probe, submitted, emitted,
                       barriers>>
    <2>1. FailWith("WorkerSpawnFailed") /\ (failed => cancelled) /\ cancelled \in BOOLEAN
      BY DEF SpawnRefused, TypeOK, Verdicts
    <2>2. /\ error' # "None" /\ cancelled' \in BOOLEAN /\ cancelled'
          /\ error' \in {error, "WorkerSpawnFailed"}
          /\ UNCHANGED <<order, outstanding, outputs, terminal>>
      BY <2>1 DEF FailWith, Fail, failed
    <2> QED
      BY <2>2 DEF SpawnRefused, logVars, TypeOK
  <1>2. \A n \in 0 .. NumTeams + 1 :
          phase'[SpawnOrder(n)] = IF n < spawned THEN "idle" ELSE "exited"
    BY <1>1, SpawnTurns DEF Threads
  <1>3. \A w \in Workers : phase'[w] \in {"idle", "exited"} /\ phase[w] \in {"idle", "unspawned"}
    BY <1>1, <1>2, SpawnTurns DEF Threads
  <1>4. phase'[Prepare] = "exited"
    <2>1. SpawnOrder(NumTeams + 1) = Prepare /\ NumTeams + 1 \in 0 .. NumTeams + 1
      BY DEF SpawnOrder
    <2> QED
      BY <1>1, <1>2, <2>1
  <1>5. phase'[Output] = "exited" => \A t \in Teams : phase'[t] = "exited"
    <2>1. SpawnOrder(0) = Output /\ 0 \in 0 .. NumTeams + 1
      BY DEF SpawnOrder
    <2>2. phase'[Output] = "exited" => spawned = 0
      BY <1>1, <1>2, <2>1
    <2>3. \A t \in Teams : t \in Workers
      BY DEF Teams, Workers
    <2>4. spawned = 0 => \A w \in Workers : phase'[w] = "exited"
      BY <1>2, SpawnTurns
    <2> QED
      BY <2>2, <2>3, <2>4
  <1>6. \A w \in Workers : inbox[w] = <<>>
    <2>1. \A w \in Workers : Queues[w] = {}
      BY <1>1 DEF Records, Ledger, Partition
    <2> QED
      BY <2>1, TailMembers DEF TypeOK, Queues
  <1>7. Threads'
    BY <1>1, <1>3, <1>4, <1>5, <1>6 DEF Threads
  <1>8. Queues' = Queues /\ Hands' = Hands /\ Sending' = Sending
    <2>1. \A w \in Workers : InFlight(w)' <=> InFlight(w)
      BY <1>3 DEF InFlight
    <2> QED
      BY <1>1, <2>1 DEF Queues, Hands, Sending
  <1>9. Ledger'
    BY <1>1, <1>8 DEF Ledger, QueuesAreSets
  <1>10. Records'
    BY <1>1 DEF Records
  <1>11. NoInternalError'
    BY <1>1 DEF Verdicts, NoInternalError
  <1>12. Verdicts'
    BY <1>1, <1>11 DEF Verdicts
  <1>13. Emission'
    BY <1>1 DEF Emission, EmissionFollowsSubmission
  <1>14. TypeOK'
    BY <1>1 DEF TypeOK, Errors
  <1> QED
    BY <1>7, <1>9, <1>10, <1>12, <1>13, <1>14

\* Wherever the coordinator receives, a frame is outstanding.
LEMMA ReceiveOneKeeps ==
    ASSUME PipelineInv, ReceiveFrame, ~flushing, ReceiveOne,
           outstanding # {} \/ completions # <<>>
    PROVE  PipelineInv'
  <1>1. coord # "send"
    BY DEF ReceiveFrame
  <1>2. outstanding # {}
    <2>1. CASE completions # <<>>
      <3>1. Head(completions).sequence \in SequencesOf(completions)
        BY <2>1, TailReport DEF PipelineInv, TypeOK, Ledger, QueuesAreSets
      <3> QED
        BY <3>1 DEF PipelineInv, Ledger, Partition
    <2> QED
      BY <2>1
  <1> QED
    BY <1>1, <1>2, ReceiveEffect, ReceivesKeep

\* Every step of the coordinator's loop keeps the invariant.
LEMMA LoopKeeps ==
    ASSUME PipelineInv, CoordinatorLoop
    PROVE  PipelineInv'
  <1> USE DEF PipelineInv
  <1>1. /\ cancelled \in BOOLEAN /\ (failed => cancelled) /\ error \in Errors \cup {"None"}
        /\ inputClosed = (coord \in {"drain", "joining", "done"}) /\ inputClosed \in BOOLEAN
        /\ barriers \in 0 .. MaxBarriers /\ TypeOK
        /\ UNCHANGED <<spawned, workerVars>>
    BY DEF CoordinatorLoop, TypeOK, Verdicts, Threads
  <1>2. CASE OpenScene
    <2>1. /\ coord = "open" /\ coord' = "head" /\ ControlFrame /\ ~flushing
          /\ UNCHANGED <<inputClosed, barriers, error, cancelled>>
      BY <1>1, <1>2 DEF OpenScene, At, Stay, ControlFrame, coordVars, logVars
    <2> QED
      BY <1>1, <2>1, ControlKeeps DEF failed
  <1>3. CASE OpenScenePanics
    <2>1. /\ coord = "open" /\ coord' = "joining" /\ inputClosed' = TRUE /\ ~flushing
          /\ FailWith("CallbackPanicked")
          /\ UNCHANGED <<flushing, previous, slots, completions, submitted, emitted, barriers>>
      BY <1>3 DEF OpenScenePanics, At, logVars
    <2>2. /\ ControlFrame /\ error' \in {error, "CallbackPanicked"} /\ error' # "None"
          /\ cancelled' = TRUE
      BY <1>1, <2>1 DEF FailWith, Fail, failed, ControlFrame
    <2>3. outstanding = {}
      BY <2>1 DEF Records
    <2> QED
      BY <1>1, <2>1, <2>2, <2>3, ControlKeeps DEF Errors, CallbackErrors
  <1>4. CASE LoopHead
    <2>1. /\ coord = "head" /\ coord' \in {"drain", "gate"} /\ ~flushing /\ ControlFrame
          /\ inputClosed' = (coord' = "drain")
          /\ UNCHANGED <<barriers, error, cancelled>>
      BY <1>1, <1>4 DEF LoopHead, At, Stay, Break, ControlFrame, coordVars, logVars
    <2> QED
      BY <1>1, <2>1, ControlKeeps DEF failed
  <1>5. CASE GateWaits
    <2>1. ReceiveFrame /\ ~flushing /\ ReceiveOne /\ Cardinality(outstanding) >= Limit
      BY <1>1, <1>5 DEF GateWaits, At, Stay, ReceiveFrame, MustWait
    <2>2. outstanding # {}
      BY <2>1, FiniteWindow
    <2> QED
      BY <2>1, <2>2, ReceiveOneKeeps
  <1>6. CASE GatePasses
    <2>1. /\ coord = "gate" /\ coord' \in {"drain", "pull"} /\ ~flushing /\ ControlFrame
          /\ inputClosed' = (coord' = "drain")
          /\ UNCHANGED <<barriers, error, cancelled>>
          /\ coord' = "pull" => ~Stopped /\ ~(MustWait /\ ~failed)
      BY <1>1, <1>6 DEF GatePasses, At, Stay, Break, ControlFrame, coordVars, logVars
    <2>2. coord' = "pull" => /\ ~failed' /\ Cardinality(outstanding) < Limit
                             /\ Len(submitted) - Len(emitted) < Limit
      <3>1. SUFFICES ASSUME coord' = "pull"
                     PROVE  /\ ~failed' /\ Cardinality(outstanding) < Limit
                            /\ Len(submitted) - Len(emitted) < Limit
        OBVIOUS
      <3>2. ~cancelled /\ ~MustWait /\ ~failed'
        BY <2>1, <3>1 DEF Stopped, failed
      <3>3. Cardinality(outstanding) < Limit
        BY <3>2, FiniteWindow DEF MustWait
      <3> QED
        BY <3>2, <3>3, BehindByTheWindow
    <2> QED
      BY <1>1, <2>1, <2>2, ControlKeeps DEF failed
  <1>7. CASE ScenePanics
    <2>1. /\ coord = "pull" /\ coord' = "drain" /\ inputClosed' = TRUE /\ ~flushing
          /\ FailWith("CallbackPanicked")
          /\ UNCHANGED <<flushing, previous, slots, completions, submitted, emitted, barriers>>
      BY <1>7 DEF ScenePanics, At, Break, logVars
    <2>2. /\ ControlFrame /\ error' \in {error, "CallbackPanicked"} /\ error' # "None"
          /\ cancelled' = TRUE
      BY <1>1, <2>1 DEF FailWith, Fail, failed, ControlFrame
    <2> QED
      BY <1>1, <2>1, <2>2, ControlKeeps DEF Errors, CallbackErrors
  <1>8. CASE SceneEnds
    <2>1. /\ coord = "pull" /\ coord' = "drain" /\ inputClosed' = TRUE /\ ~flushing
          /\ ControlFrame /\ UNCHANGED <<barriers, error, cancelled>>
      BY <1>1, <1>8 DEF SceneEnds, At, Break, ControlFrame, coordVars, logVars
    <2> QED
      BY <1>1, <2>1, ControlKeeps DEF failed
  <1>9. CASE \E s \in FrameIds : SceneFrame(s)
    <2>1. PICK s \in FrameIds : SceneFrame(s)
      BY <1>9
    <2>2. CASE s <= previous
      <3>1. /\ coord = "pull" /\ coord' = "drain" /\ inputClosed' = TRUE /\ ~flushing
            /\ FailWith("NonMonotonicSequence")
            /\ UNCHANGED <<flushing, previous, slots, completions, submitted, emitted, barriers>>
        BY <2>1, <2>2 DEF SceneFrame, At, Break
      <3>2. /\ ControlFrame /\ error' \in {error, "NonMonotonicSequence"} /\ error' # "None"
            /\ cancelled' = TRUE
        BY <1>1, <3>1 DEF FailWith, Fail, failed, ControlFrame
      <3> QED
        BY <1>1, <3>1, <3>2, ControlKeeps DEF Errors
    <2>3. CASE s > previous
      <3>1. At("pull")
        BY <2>1 DEF SceneFrame
      <3> QED
        BY <1>1, <2>1, <2>3, <3>1, SceneFrameKeeps
    <2>4. s \in Int /\ previous \in Int
      BY DEF TypeOK, FrameIds
    <2> QED
      BY <2>2, <2>3, <2>4
  <1>10. CASE SceneBarrier
    <2>1. /\ coord = "pull" /\ coord' = "barrier" /\ ~flushing /\ barriers < MaxBarriers
          /\ ControlFrame /\ UNCHANGED <<inputClosed, barriers, error, cancelled>>
      BY <1>1, <1>10 DEF SceneBarrier, At, Stay, ControlFrame, coordVars, logVars
    <2> QED
      BY <1>1, <2>1, ControlKeeps DEF failed
  <1>11. CASE BarrierRuns
    <2>1. /\ coord = "barrier" /\ coord' = "head" /\ ~flushing
          /\ ControlFrame /\ UNCHANGED <<inputClosed, error, cancelled>>
          /\ barriers' \in 0 .. MaxBarriers
      BY <1>1, <1>11 DEF BarrierRuns, At, Stay, ControlFrame, coordVars, Records
    <2> QED
      BY <1>1, <2>1, ControlKeeps DEF failed
  <1>12. CASE BarrierFails
    <2>1. /\ coord = "barrier" /\ coord' = "drain" /\ inputClosed' = TRUE /\ ~flushing
          /\ \E e \in CallbackErrors : FailWith(e)
          /\ UNCHANGED <<flushing, previous, slots, completions, submitted, emitted, barriers>>
      BY <1>12 DEF BarrierFails, At, Break, logVars
    <2>2. PICK e \in CallbackErrors : FailWith(e)
      BY <2>1
    <2>3. /\ ControlFrame /\ error' \in {error, e} /\ error' # "None" /\ cancelled' = TRUE
      BY <1>1, <2>1, <2>2 DEF FailWith, Fail, failed, ControlFrame, CallbackErrors
    <2> QED
      BY <1>1, <2>1, <2>3, ControlKeeps DEF Errors, CallbackErrors
  <1>13. CASE ReceiveReady
    <2>1. CASE completions # <<>> \/ (NoSenders /\ outstanding # {})
      <3>1. ReceiveFrame /\ ~flushing /\ ReceiveOne
        BY <1>1, <1>13, <2>1 DEF ReceiveReady, At, Stay, ReceiveFrame
      <3> QED
        BY <2>1, <3>1, ReceiveOneKeeps
    <2>2. CASE ~(completions # <<>> \/ (NoSenders /\ outstanding # {}))
      <3>1. /\ coord = "ready" /\ coord' = "head" /\ ~flushing
            /\ ControlFrame /\ UNCHANGED <<inputClosed, barriers, error, cancelled>>
        BY <1>1, <1>13, <2>2 DEF ReceiveReady, At, Stay, ControlFrame, coordVars, logVars
      <3> QED
        BY <1>1, <3>1, ControlKeeps DEF failed
    <2> QED
      BY <2>1, <2>2
  <1>14. CASE BarrierDrains
    <2>1. ReceiveFrame /\ ~flushing /\ ReceiveOne /\ outstanding # {}
      BY <1>1, <1>14 DEF BarrierDrains, At, Stay, ReceiveFrame
    <2> QED
      BY <2>1, ReceiveOneKeeps
  <1>15. CASE BarrierSkipped
    <2>1. /\ coord = "barrier" /\ coord' = "drain" /\ inputClosed' = TRUE /\ ~flushing
          /\ ControlFrame /\ UNCHANGED <<barriers, error, cancelled>>
      BY <1>1, <1>15 DEF BarrierSkipped, At, Break, ControlFrame, coordVars, logVars
    <2> QED
      BY <1>1, <2>1, ControlKeeps DEF failed
  <1>16. CASE FinalDrain
    <2>1. ReceiveFrame /\ ~flushing /\ ReceiveOne /\ outstanding # {}
      BY <1>1, <1>16 DEF FinalDrain, At, Stay, ReceiveFrame
    <2> QED
      BY <2>1, ReceiveOneKeeps
  <1>17. CASE EndRun
    <2>1. /\ coord = "drain" /\ coord' = "joining" /\ ~flushing /\ outstanding = {}
          /\ ControlFrame /\ UNCHANGED <<inputClosed, barriers, cancelled>>
          /\ error' = IF cancelled /\ ~failed THEN "Cancelled" ELSE error
      BY <1>1, <1>17 DEF EndRun, At, Stay, ControlFrame, logVars
    <2>2. error' \in {error, "Cancelled"} /\ (failed' => cancelled')
      BY <1>1, <2>1 DEF failed
    <2>3. error' = "None" => ~cancelled
      BY <1>1, <2>1 DEF failed
    <2>4. error' = "None" => emitted = submitted
      BY <2>1, <2>3, BehindByTheWindow
    <2> QED
      BY <1>1, <2>1, <2>2, <2>4, ControlKeeps DEF Errors
  <1>18. CASE JoinWorkers
    <2>1. /\ coord = "joining" /\ coord' = "done" /\ ~flushing /\ outstanding = {}
          /\ ControlFrame /\ UNCHANGED <<inputClosed, barriers, cancelled>>
          /\ error' = IF slots # 0 /\ ~failed THEN "LeakedSlots" ELSE error
      BY <1>1, <1>18 DEF JoinWorkers, At, Stay, ControlFrame, logVars, Records
    <2>2. slots = 0
      BY <2>1, FS_EmptySet DEF Ledger
    <2>3. error' = error /\ (error = "None" => emitted = submitted)
      BY <2>1, <2>2 DEF Emission
    <2> QED
      BY <1>1, <2>1, <2>3, ControlKeeps DEF failed
  <1> QED
    BY <1>2, <1>3, <1>4, <1>5, <1>6, <1>7, <1>8, <1>9, <1>10, <1>11, <1>12, <1>13, <1>14,
       <1>15, <1>16, <1>17, <1>18
       DEF CoordinatorLoop, SceneStep, BarrierStep, RunStep

-----------------------------------------------------------------------------
(* The theorems. *)

\* The pipeline starts in the invariant.
LEMMA InitEstablishes == Init => PipelineInv
  <1> SUFFICES ASSUME Init PROVE PipelineInv
    OBVIOUS
  <1>1. /\ \A w \in Workers : Queues[w] = {} /\ Hands[w] = {}
        /\ SequencesOf(completions) = {} /\ Sending = {} /\ QueuesAreSets
    BY DEF Init, Queues, Hands, InFlight, Range, SequencesOf, Sending, QueuesAreSets,
       IsInjective, Once
  <1>2. Ledger
    BY <1>1, FS_EmptySet DEF Init, Ledger, Partition
  <1>3. Threads
    <2>1. /\ coord = "spawn" /\ spawned = 0 /\ inputClosed = FALSE
          /\ \A w \in Workers : phase[w] = "unspawned"
          /\ Prepare \in Workers /\ Output \in Workers /\ Teams \subseteq Workers
      BY DEF Init, Prepare, Output, Teams, Workers
    <2>2. (coord \in {"drain", "joining", "done"}) = FALSE
      BY <2>1
    <2>3. inputClosed = (coord \in {"drain", "joining", "done"})
      BY <2>1, <2>2, Zenon
    <2> QED
      BY <2>1, <2>3, SpawnTurns DEF Threads
  <1>4. Records
    BY DEF Init, Records, Range, IsInjective
  <1>5. Verdicts
    BY DEF Init, Verdicts, NoInternalError, failed
  <1>6. Emission
    BY DEF Init, Emission, EmissionFollowsSubmission
  <1>7. TypeOK
    <2>1. /\ coord = "spawn" /\ flushing = FALSE /\ cancelled \in BOOLEAN /\ inputClosed = FALSE
          /\ spawned = 0 /\ previous = 0 /\ slots = 0 /\ nextTeam = 0 /\ probe = 0 /\ barriers = 0
          /\ outstanding = {} /\ outputs = {} /\ terminal = {} /\ error = "None"
          /\ order = <<>> /\ completions = <<>> /\ submitted = <<>> /\ emitted = <<>>
      BY DEF Init
    <2>2. /\ inbox \in [Workers -> Seq(FrameIds)] /\ holding \in [Workers -> 0 .. MaxSequence]
          /\ phase \in [Workers -> {"unspawned", "idle", "busy", "forward", "sending", "probing",
                                    "failing", "exited"}]
      BY DEF Init
    <2>3. /\ spawned \in 0 .. NumTeams + 2 /\ previous \in 0 .. MaxSequence /\ slots \in 0 .. Limit
          /\ nextTeam \in 0 .. NumTeams - 1 /\ probe \in 0 .. NumTeams - 1
          /\ barriers \in 0 .. MaxBarriers
      BY <2>1
    <2>4. /\ order \in Seq(FrameIds) /\ completions \in Seq(Completion)
          /\ submitted \in Seq(FrameIds) /\ emitted \in Seq(FrameIds)
      BY <2>1
    <2>5. outstanding \in SUBSET FrameIds /\ outputs \in SUBSET FrameIds
          /\ terminal \in SUBSET FrameIds
      BY <2>1
    <2> QED
      BY <2>1, <2>2, <2>3, <2>4, <2>5 DEF TypeOK
  <1> QED
    BY <1>2, <1>3, <1>4, <1>5, <1>6, <1>7 DEF PipelineInv

\* The host may raise the token at any time.
LEMMA HostCancelsKeeps ==
    ASSUME PipelineInv, HostCancels
    PROVE  PipelineInv'
  <1>1. /\ cancelled' = TRUE
        /\ UNCHANGED <<coord, flushing, spawned, previous, order, outstanding, outputs, terminal,
                       error, slots, completions, inputClosed, inbox, phase, holding, nextTeam,
                       probe, submitted, emitted, barriers>>
    BY DEF HostCancels, coordVars, workerVars, logVars
  <1>2. Queues' = Queues /\ Hands' = Hands /\ Sending' = Sending
    BY <1>1 DEF Queues, Hands, InFlight, Sending
  <1>3. Ledger'
    BY <1>1, <1>2 DEF PipelineInv, Ledger, QueuesAreSets
  <1>4. Threads'
    BY <1>1 DEF PipelineInv, Threads
  <1>5. Records' /\ Verdicts' /\ Emission'
    BY <1>1 DEF failed, PipelineInv, Records, Verdicts, Emission, NoInternalError,
       EmissionFollowsSubmission
  <1>6. TypeOK'
    BY <1>1 DEF PipelineInv, TypeOK
  <1> QED
    BY <1>3, <1>4, <1>5, <1>6 DEF PipelineInv

\* Stuttering keeps the invariant.
LEMMA StutterKeeps ==
    ASSUME PipelineInv, UNCHANGED vars
    PROVE  PipelineInv'
  <1>1. UNCHANGED <<coord, flushing, spawned, previous, order, outstanding, outputs, terminal,
                    error, cancelled, slots, completions, inputClosed, inbox, phase, holding,
                    nextTeam, probe, submitted, emitted, barriers>>
    BY DEF vars, coordVars, workerVars, logVars
  <1>2. Queues' = Queues /\ Hands' = Hands /\ Sending' = Sending
    BY <1>1 DEF Queues, Hands, InFlight, Sending
  <1>3. Ledger'
    BY <1>1, <1>2 DEF PipelineInv, Ledger, QueuesAreSets
  <1>4. Threads'
    BY <1>1 DEF PipelineInv, Threads
  <1>5. Records' /\ Verdicts' /\ Emission'
    BY <1>1 DEF PipelineInv, Records, Verdicts, Emission, NoInternalError, failed,
       EmissionFollowsSubmission
  <1>6. TypeOK'
    BY <1>1 DEF PipelineInv, TypeOK
  <1> QED
    BY <1>3, <1>4, <1>5, <1>6 DEF PipelineInv

\* Every step of every thread keeps the invariant.
LEMMA NextKeeps ==
    ASSUME PipelineInv, [Next]_vars
    PROVE  PipelineInv'
  <1>1. CASE CoordinatorStep
    BY <1>1, SpawnWorkerKeeps, SpawnRefusedKeeps, EmitReadyKeeps, SendToPrepareKeeps, LoopKeeps
       DEF CoordinatorStep
  <1>2. CASE \E w \in Workers : WorkerStep(w)
    BY <1>2, WorkersKeep
  <1>3. CASE HostCancels
    BY <1>3, HostCancelsKeeps
  <1>4. CASE UNCHANGED vars
    BY <1>4, StutterKeeps
  <1> QED
    BY <1>1, <1>2, <1>3, <1>4 DEF Next, Finished

\* The pipeline's invariant: where each outstanding frame is, who may have left,
\* and what the coordinator's records say of it.
THEOREM PipelineInvariant == Spec => []PipelineInv
  <1>1. PipelineInv /\ [Next]_vars => PipelineInv'
    BY NextKeeps
  <1> QED
    BY <1>1, InitEstablishes, PTL DEF Spec

\* The pipeline's variables keep their types; in particular the permits held
\* never pass the limit and no record holds a sequence the scene did not give.
THEOREM PipelineTyping == Spec => []TypeOK
  <1>1. PipelineInv => TypeOK
    BY DEF PipelineInv
  <1> QED
    BY <1>1, PipelineInvariant, PTL

\* Frames rasterized out of order are emitted in the order of submission.
THEOREM PipelineOrder == Spec => []EmissionFollowsSubmission
  <1>1. PipelineInv => EmissionFollowsSubmission
    BY DEF PipelineInv, Emission
  <1> QED
    BY <1>1, PipelineInvariant, PTL

\* No stage is found disconnected and no permit is left when the workers have
\* been joined.
THEOREM PipelineBooksBalance == Spec => []NoInternalError
  <1>1. PipelineInv => NoInternalError
    BY DEF PipelineInv, Verdicts
  <1> QED
    BY <1>1, PipelineInvariant, PTL

\* How many times a frame is in each place, from the ledger.
LEMMA CountReported ==
    ASSUME PipelineInv, NEW s \in FrameIds
    PROVE  Cardinality({i \in DOMAIN completions : completions[i].sequence = s})
             = IF s \in SequencesOf(completions) THEN 1 ELSE 0
  <1> DEFINE R == {i \in DOMAIN completions : completions[i].sequence = s}
  <1>1. DOMAIN completions = 1 .. Len(completions) /\ Once(completions)
    BY DEF PipelineInv, TypeOK, Ledger, QueuesAreSets
  <1>2. CASE s \in SequencesOf(completions)
    <2>1. PICK i \in 1 .. Len(completions) : completions[i].sequence = s
      BY <1>2 DEF SequencesOf
    <2>2. R = {i}
      BY <1>1, <2>1 DEF Once
    <2> QED
      BY <1>2, <2>2, FS_Singleton
  <1>3. CASE s \notin SequencesOf(completions)
    <2>1. R = {}
      BY <1>1, <1>3 DEF SequencesOf
    <2> QED
      BY <1>3, <2>1, FS_EmptySet
  <1> QED
    BY <1>2, <1>3

\* A frame is in at most one place of one queue.
LEMMA CountQueued ==
    ASSUME PipelineInv, NEW s \in FrameIds
    PROVE  Cardinality({p \in Workers \X (1 .. Limit) :
                          p[2] \in DOMAIN inbox[p[1]] /\ inbox[p[1]][p[2]] = s})
             = IF \E w \in Workers : s \in Queues[w] THEN 1 ELSE 0
  <1> DEFINE Q == {p \in Workers \X (1 .. Limit) :
                     p[2] \in DOMAIN inbox[p[1]] /\ inbox[p[1]][p[2]] = s}
  <1>1. \A w \in Workers : /\ DOMAIN inbox[w] = 1 .. Len(inbox[w]) /\ Len(inbox[w]) \in Nat
                           /\ Len(inbox[w]) <= Limit /\ IsInjective(inbox[w])
                           /\ Queues[w] = {inbox[w][i] : i \in 1 .. Len(inbox[w])}
    BY DEF PipelineInv, TypeOK, Ledger, QueuesAreSets, Queues, Range
  <1>2. \A u, v \in Workers : s \in Queues[u] /\ s \in Queues[v] => u = v
    BY DEF PipelineInv, Ledger, Partition
  <1>3. ASSUME NEW p \in Q PROVE s \in Queues[p[1]] /\ p[1] \in Workers
    BY <1>1
  <1>4. CASE \E w \in Workers : s \in Queues[w]
    <2>1. PICK w \in Workers : s \in Queues[w]
      BY <1>4
    <2>2. PICK i \in 1 .. Len(inbox[w]) : inbox[w][i] = s
      BY <1>1, <2>1
    <2>3. <<w, i>> \in Q
      BY <1>1, <2>2
    <2>4. ASSUME NEW p \in Q PROVE p = <<w, i>>
      <3>1. p[1] = w
        BY <1>2, <1>3, <2>1
      <3>2. p[2] = i
        BY <1>1, <2>2, <3>1 DEF IsInjective
      <3> QED
        BY <3>1, <3>2
    <2>5. Q = {<<w, i>>}
      BY <2>3, <2>4
    <2> QED
      BY <1>4, <2>5, FS_Singleton
  <1>5. CASE ~ \E w \in Workers : s \in Queues[w]
    <2>1. Q = {}
      BY <1>3, <1>5
    <2> QED
      BY <1>5, <2>1, FS_EmptySet
  <1> QED
    BY <1>4, <1>5

\* A frame is in the hands of at most one worker.
LEMMA CountHeld ==
    ASSUME PipelineInv, NEW s \in FrameIds
    PROVE  Cardinality({w \in Workers : InFlight(w) /\ holding[w] = s})
             = IF \E w \in Workers : s \in Hands[w] THEN 1 ELSE 0
  <1> DEFINE H == {w \in Workers : InFlight(w) /\ holding[w] = s}
  <1>1. \A w \in Workers : w \in H <=> s \in Hands[w]
    BY DEF Hands
  <1>2. \A u, v \in Workers : s \in Hands[u] /\ s \in Hands[v] => u = v
    BY DEF PipelineInv, Ledger, Partition
  <1>3. CASE \E w \in Workers : s \in Hands[w]
    <2>1. PICK w \in Workers : s \in Hands[w]
      BY <1>3
    <2>2. H = {w}
      BY <1>1, <1>2, <2>1
    <2> QED
      BY <1>3, <2>2, FS_Singleton
  <1>4. CASE ~ \E w \in Workers : s \in Hands[w]
    <2>1. H = {}
      BY <1>1, <1>4
    <2> QED
      BY <1>4, <2>1, FS_EmptySet
  <1> QED
    BY <1>3, <1>4

\* Every outstanding frame is in exactly one place and holds one permit.
THEOREM PipelineLedger == Spec => []FramesAreAccountedFor
  <1>1. ASSUME PipelineInv PROVE FramesAreAccountedFor
    <2>1. ASSUME NEW s \in FrameIds
          PROVE  Occurrences(s) = IF s \in outstanding THEN 1 ELSE 0
      <3> DEFINE reported == s \in SequencesOf(completions)
                 queued == \E w \in Workers : s \in Queues[w]
                 held == \E w \in Workers : s \in Hands[w]
                 parked == s \in outputs
                 sending == s \in Sending
      <3>1. Occurrences(s) = (IF reported THEN 1 ELSE 0) + (IF queued THEN 1 ELSE 0)
                             + (IF held THEN 1 ELSE 0) + (IF parked THEN 1 ELSE 0)
                             + (IF sending THEN 1 ELSE 0)
        BY <1>1, CountReported, CountQueued, CountHeld DEF Occurrences, Sending
      <3>2. /\ reported => ~queued /\ ~held /\ ~parked /\ ~sending
            /\ queued => ~held /\ ~parked /\ ~sending
            /\ held => ~parked /\ ~sending
            /\ parked => ~sending
            /\ s \in outstanding <=> reported \/ queued \/ held \/ parked \/ sending
        BY <1>1 DEF PipelineInv, Ledger, Partition
      <3> HIDE DEF reported, queued, held, parked, sending
      <3> QED
        BY <3>1, <3>2
    <2> QED
      BY <1>1, <2>1 DEF FramesAreAccountedFor, PipelineInv, Ledger
  <1> QED
    BY <1>1, PipelineInvariant, PTL

-----------------------------------------------------------------------------
(* Action properties and the refinement. *)

\* When nothing is outstanding nothing is under way anywhere, and before the
\* token is raised everything was emitted.
LEMMA NothingOutstanding ==
    ASSUME PipelineInv, outstanding = {}
    PROVE  /\ slots = 0 /\ completions = <<>>
           /\ \A w \in Workers : ~InFlight(w) /\ inbox[w] = <<>>
           /\ ~cancelled => emitted = submitted
  <1> USE DEF PipelineInv
  <1>1. Partition(Queues, Hands, SequencesOf(completions), outputs, Sending, {})
    BY DEF Ledger
  <1>2. slots = 0
    BY FS_EmptySet DEF Ledger
  <1>3. completions = <<>>
    <2>1. SequencesOf(completions) = {}
      BY <1>1 DEF Partition
    <2> QED
      BY <2>1, TailReport DEF TypeOK, Ledger, QueuesAreSets
  <1>4. ASSUME NEW w \in Workers PROVE ~InFlight(w) /\ inbox[w] = <<>>
    <2>1. Queues[w] = {} /\ Hands[w] = {}
      BY <1>1 DEF Partition
    <2>2. inbox[w] = <<>>
      BY <2>1, TailMembers DEF TypeOK, Queues
    <2> QED
      BY <2>1, <2>2 DEF Hands
  <1> QED
    BY <1>2, <1>3, <1>4, BehindByTheWindow

\* What a step may do to the sequences submitted and emitted, to the barriers
\* run and to the end of the run.
Pulls ==
  /\ coord = "pull" /\ coord' = "send" /\ UNCHANGED <<emitted, barriers>>
  /\ \E s \in FrameIds : submitted' = Append(submitted, s)

Emits ==
  /\ ~cancelled /\ order # <<>> /\ flushing
  /\ emitted' = Append(emitted, Head(order)) /\ UNCHANGED <<coord, submitted, barriers>>

Finishes ==
  /\ coord = "joining" /\ coord' = "done" /\ error' = error
  /\ UNCHANGED <<submitted, emitted, barriers>>

RunsBarrier ==
  /\ coord = "barrier" /\ coord' = "head" /\ outstanding = {} /\ ~cancelled
  /\ UNCHANGED <<submitted, emitted>>

Inside ==
  /\ UNCHANGED <<submitted, emitted, barriers>>
  /\ \/ coord # "done" /\ coord' # "done"
     \/ UNCHANGED <<coord, error>>

\* Every step is of one of five kinds, by what it does to the logs.
LEMMA Steps ==
    ASSUME PipelineInv, [Next]_vars
    PROVE  Pulls \/ Emits \/ Finishes \/ RunsBarrier \/ Inside
  <1> USE DEF PipelineInv
  <1>1. CASE SpawnWorker \/ SpawnRefused
    BY <1>1 DEF SpawnWorker, SpawnRefused, Inside, logVars
  <1>2. CASE EmitReady
    <2>1. flushing /\ UNCHANGED <<coord, submitted, barriers>> /\ coord # "done"
      BY <1>2 DEF EmitReady, Records
    <2>2. UNCHANGED emitted \/ (order # <<>> /\ EmitHead)
      BY <1>2 DEF EmitReady, SkipTerminal, DiscardHead, EmitHeadFails, FlushEnds
    <2>3. CASE order # <<>> /\ EmitHead
      BY <2>1, <2>3 DEF EmitHead, Stopped, Emits
    <2> QED
      BY <2>1, <2>2, <2>3 DEF Inside
  <1>3. CASE SendToPrepare
    BY <1>3 DEF SendToPrepare, Stay, At, Inside, logVars
  <1>4. CASE CoordinatorLoop
    <2>1. CASE \E s \in FrameIds : SceneFrame(s)
      BY <2>1 DEF SceneFrame, At, Stay, Break, Pulls, Inside
    <2>2. CASE OpenScenePanics \/ ScenePanics \/ SceneEnds \/ SceneBarrier \/ BarrierFails
      BY <2>2 DEF OpenScenePanics, ScenePanics, SceneEnds, SceneBarrier, BarrierFails, At, Stay,
         Break, Inside, logVars
    <2>3. CASE BarrierRuns
      BY <2>3 DEF BarrierRuns, At, Stay, Stopped, RunsBarrier
    <2>4. CASE OpenScene \/ LoopHead \/ GateWaits \/ GatePasses \/ ReceiveReady
      BY <2>4 DEF OpenScene, LoopHead, GateWaits, GatePasses, ReceiveReady, At, Stay, Break,
         Inside, logVars
    <2>5. CASE BarrierDrains \/ BarrierSkipped \/ FinalDrain \/ EndRun
      BY <2>5 DEF BarrierDrains, BarrierSkipped, FinalDrain, EndRun, At, Stay, Break, Inside,
         logVars
    <2>6. CASE JoinWorkers
      <3>1. coord = "joining" /\ coord' = "done" /\ UNCHANGED <<submitted, emitted, barriers>>
        BY <2>6 DEF JoinWorkers, At, Stay, logVars
      <3>2. slots = 0
        BY <3>1, NothingOutstanding DEF Records
      <3> QED
        BY <2>6, <3>1, <3>2 DEF JoinWorkers, Finishes
    <2> QED
      BY <1>4, <2>1, <2>2, <2>3, <2>4, <2>5, <2>6
         DEF CoordinatorLoop, SceneStep, BarrierStep, RunStep
  <1>5. CASE \E w \in Workers : WorkerStep(w)
    BY <1>5 DEF WorkerStep, Inside, logVars, coordVars
  <1>6. CASE HostCancels
    BY <1>6 DEF HostCancels, Inside, logVars, coordVars
  <1>7. CASE UNCHANGED vars
    BY <1>7 DEF vars, Inside, logVars, coordVars
  <1> QED
    BY <1>1, <1>2, <1>3, <1>4, <1>5, <1>6, <1>7 DEF Next, CoordinatorStep, Finished

\* A barrier callback runs only when everything submitted before it was emitted
\* and nothing is under way.
THEOREM PipelineBarriers == Spec => BarriersAreQuiet
  <1>1. ASSUME PipelineInv, [Next]_vars, barriers' # barriers
        PROVE  /\ emitted = submitted /\ slots = 0 /\ completions = <<>>
               /\ \A w \in Workers : ~InFlight(w) /\ inbox[w] = <<>>
    <2>1. outstanding = {} /\ ~cancelled
      BY <1>1, Steps DEF Pulls, Emits, Finishes, RunsBarrier, Inside
    <2> QED
      BY <1>1, <2>1, NothingOutstanding
  <1>2. PipelineInv /\ [Next]_vars =>
          [barriers' # barriers =>
             /\ emitted = submitted /\ slots = 0 /\ completions = <<>>
             /\ \A w \in Workers : ~InFlight(w) /\ inbox[w] = <<>>]_vars
    BY <1>1
  <1> QED
    BY <1>2, PipelineInvariant, PTL DEF Spec, BarriersAreQuiet

\* Before the token is raised the head of the order is the next to be emitted.
LEMMA NextToEmit ==
    ASSUME PipelineInv, ~cancelled, order # <<>>
    PROVE  Len(emitted) < Len(submitted) /\ Head(order) = submitted[Len(emitted) + 1]
  <1>1. /\ emitted \in Seq(FrameIds) /\ order \in Seq(FrameIds) /\ submitted = emitted \o order
    BY DEF PipelineInv, TypeOK, Emission
  <1>2. /\ Len(emitted) \in Nat /\ Len(order) \in Nat \ {0} /\ Head(order) = order[1]
    BY <1>1
  <1>3. /\ Len(submitted) = Len(emitted) + Len(order)
        /\ \A i \in 1 .. Len(emitted) + Len(order) :
             submitted[i] = IF i <= Len(emitted) THEN emitted[i] ELSE order[i - Len(emitted)]
    BY <1>1, ConcatProperties
  <1>4. Len(emitted) + 1 \in 1 .. Len(emitted) + Len(order) /\ ~(Len(emitted) + 1 <= Len(emitted))
        /\ Len(emitted) + 1 - Len(emitted) = 1
    BY <1>2
  <1> QED
    BY <1>2, <1>3, <1>4

\* The safety of ordered delivery, which the pipeline implements step by step:
\* it takes a frame only when the window has room, hands on the next one, and
\* completes with everything handed on.
THEOREM PipelineDelivers == Spec => Delivery!DSafety
  <1>1. Init => Delivery!DInit
    BY DEF Init, Delivery!DInit, Outcome
  <1>2. ASSUME PipelineInv, [Next]_vars
        PROVE  [Delivery!DNext]_(Delivery!dvars)
    <2>1. CASE Pulls
      <3>1. Delivery!Give
        BY <1>2, <2>1 DEF Pulls, PipelineInv, Emission, Delivery!Give, Outcome
      <3> QED
        BY <3>1 DEF Delivery!DNext
    <2>2. CASE Emits
      <3>1. coord \in {"gate", "ready", "barrier", "drain"}
        BY <1>2, <2>2 DEF Emits, PipelineInv, Records
      <3>2. Delivery!Hand
        BY <1>2, <2>2, <3>1, NextToEmit DEF Emits, Delivery!Hand, Outcome
      <3> QED
        BY <3>2 DEF Delivery!DNext
    <2>3. CASE Finishes
      <3>1. error = "None" => emitted = submitted
        BY <1>2, <2>3 DEF Finishes, PipelineInv, Emission
      <3>2. Delivery!Complete \/ Delivery!Break
        BY <2>3, <3>1 DEF Finishes, Outcome, failed, Delivery!Complete, Delivery!Break
      <3> QED
        BY <3>2 DEF Delivery!DNext
    <2>4. CASE RunsBarrier \/ Inside
      BY <2>4 DEF RunsBarrier, Inside, Outcome, failed, Delivery!dvars
    <2> QED
      BY <1>2, <2>1, <2>2, <2>3, <2>4, Steps
  <1> QED
    BY <1>1, <1>2, PipelineInvariant, PTL DEF Spec, Delivery!DSafety

\* The token is never lowered, an error never forgotten and the end of a run
\* final; a run that ends with the token raised ends with an error.
LEMMA Endings ==
    ASSUME PipelineInv, [Next]_vars
    PROVE  /\ (cancelled => cancelled') /\ (failed => failed')
           /\ coord \in {"joining", "done"} => coord' \in {"joining", "done"}
           /\ coord = "done" => coord' = "done"
           /\ coord \notin {"joining", "done"} /\ coord' \in {"joining", "done"} /\ cancelled
                => failed'
  <1>0. ASSUME NEW e, e # "None", Fail(e) PROVE failed' /\ cancelled'
    BY <1>0 DEF Fail, failed, PipelineInv, Verdicts
  <1>1. CASE SpawnWorker \/ SpawnRefused
    <2>1. CASE SpawnWorker
      BY <2>1 DEF SpawnWorker, failed, coordVars
    <2>2. CASE SpawnRefused
      <3>1. failed' /\ cancelled' /\ coord = "spawn"
        BY <1>0, <2>2 DEF SpawnRefused, FailWith
      <3> QED
        BY <3>1
    <2> QED
      BY <1>1, <2>1, <2>2
  <1>2. CASE EmitReady
    <2>1. UNCHANGED coord
      BY <1>2 DEF EmitReady
    <2>2. UNCHANGED <<error, cancelled>> \/ \E e \in CallbackErrors : Fail(e)
      BY <1>2 DEF EmitReady, SkipTerminal, DiscardHead, EmitHead, EmitHeadFails, FlushEnds, coordVars
    <2>3. CASE \E e \in CallbackErrors : Fail(e)
      BY <2>1, <2>3 DEF Fail, failed, CallbackErrors
    <2> QED
      BY <2>1, <2>2, <2>3 DEF failed
  <1>3. CASE SendToPrepare
    <2>1. coord = "send" /\ coord' = "ready" /\ Prepare \in Workers
      BY <1>3 DEF SendToPrepare, At, Stay, Prepare, Workers
    <2>2. phase[Prepare] # "exited"
      BY <2>1 DEF PipelineInv, Threads
    <2> QED
      BY <1>3, <2>1, <2>2 DEF SendToPrepare, coordVars, failed
  <1>4. CASE CoordinatorLoop
    <2>1. CASE \E s \in FrameIds : SceneFrame(s)
      BY <2>1 DEF SceneFrame, At, Stay, Break, FailWith, Fail, failed
    <2>2. CASE SceneEnds \/ SceneBarrier \/ BarrierRuns
      BY <2>2 DEF SceneEnds, SceneBarrier, BarrierRuns, At, Stay, Break, failed, coordVars
    <2>3. CASE OpenScenePanics \/ ScenePanics \/ BarrierFails
      <3>1. /\ \E e \in CallbackErrors : FailWith(e)
            /\ coord \in {"open", "pull", "barrier"}
        BY <2>3 DEF OpenScenePanics, ScenePanics, BarrierFails, At, CallbackErrors
      <3>2. failed' /\ cancelled'
        BY <1>0, <3>1 DEF FailWith, CallbackErrors
      <3> QED
        BY <3>1, <3>2
    <2>4. CASE OpenScene \/ LoopHead \/ GatePasses \/ BarrierSkipped
      BY <2>4 DEF OpenScene, LoopHead, GatePasses, BarrierSkipped, At, Stay, Break, failed,
         coordVars
    <2>5. CASE GateWaits \/ BarrierDrains \/ FinalDrain \/ ReceiveReady
      <3>1. /\ coord \notin {"joining", "done"} /\ coord' \notin {"joining", "done"}
            /\ ReceiveOne \/ UNCHANGED <<error, cancelled>>
        BY <2>5 DEF GateWaits, BarrierDrains, FinalDrain, ReceiveReady, At, Stay, coordVars
      <3>2. ReceiveOne => UNCHANGED <<error, cancelled>> \/ \E e \in Errors : Fail(e) /\ e # "None"
        BY DEF ReceiveOne, Accept, AcceptOutput, AcceptCancelled, AcceptFailure, Abandon, ErrorsOf,
           CallbackErrors, Errors
      <3>3. CASE UNCHANGED <<error, cancelled>>
        BY <3>1, <3>3 DEF failed
      <3>4. CASE \E e \in Errors : Fail(e) /\ e # "None"
        BY <1>0, <3>1, <3>4
      <3> QED
        BY <3>1, <3>2, <3>3, <3>4
    <2>6. CASE EndRun \/ JoinWorkers
      BY <2>6 DEF EndRun, JoinWorkers, At, Stay, failed
    <2> QED
      BY <1>4, <2>1, <2>2, <2>3, <2>4, <2>5, <2>6
         DEF CoordinatorLoop, SceneStep, BarrierStep, RunStep
  <1>5. CASE \E w \in Workers : WorkerStep(w)
    <2>1. UNCHANGED <<coord, error>>
      BY <1>5 DEF WorkerStep, coordVars
    <2>2. cancelled => cancelled'
      BY <1>5 DEF WorkerStep, Take, CallbackOk, CallbackFails, ReportFailure, ForwardCancelled,
         ForwardChecks, ForwardOutput, ForwardRaster, Dispatch, ProbeAccepted, ProbeNext,
         ProbeExhausted, Exit
    <2> QED
      BY <2>1, <2>2 DEF failed
  <1>6. CASE HostCancels \/ UNCHANGED vars
    BY <1>6 DEF HostCancels, vars, coordVars, failed
  <1> QED
    BY <1>1, <1>2, <1>3, <1>4, <1>5, <1>6 DEF Next, CoordinatorStep, Finished

=============================================================================
