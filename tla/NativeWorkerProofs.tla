--------------------------- MODULE NativeWorkerProofs ---------------------------
(***************************************************************************)
(* Proofs about the native scene worker, for every scene length, set of    *)
(* events, configuration, and any number of commands and lost workers.     *)
(***************************************************************************)
EXTENDS NativeWorker, FiniteSetTheorems, SequenceTheorems, WellFoundedInduction, TLAPS

-----------------------------------------------------------------------------
(* Arithmetic and sequences. *)

(* The least-number principle, from the library's well-founded relations: it *)
(* serves as induction on the rows of a track and the entries of a journal.  *)
LEMMA LeastNat ==
  ASSUME NEW T \in SUBSET Nat, T # {}
  PROVE  \E x \in T : \A y \in T : x <= y
  <1>1. IsWellFoundedOn(OpToRel(<, Nat), Nat)
    BY NatLessThanWellFounded
  <1>2. PICK x \in T : \A y \in T : ~ (<<y, x>> \in OpToRel(<, Nat))
    BY <1>1, WFMin
  <1>3. \A y \in T : ~ (y < x)
    BY <1>2 DEF OpToRel
  <1>4. QED
    BY <1>3

(* A set of numbers below a bound that has an element has a greatest one. *)
LEMMA GreatestNat ==
  ASSUME NEW n \in Nat, NEW T \in SUBSET (1 .. n), T # {}
  PROVE  LastOf(T) \in T /\ \A j \in T : j <= LastOf(T)
  <1> DEFINE U == {n - i : i \in T}
  <1>a. \A i \in T : i \in Int /\ i >= 1 /\ i <= n
    OBVIOUS
  <1>b. \A i \in T : n - i \in Nat
    BY <1>a
  <1>1. U \in SUBSET Nat /\ U # {}
    BY <1>b
  <1>2. PICK u \in U : \A v \in U : u <= v
    BY <1>1, LeastNat
  <1>3. PICK i \in T : u = n - i
    BY <1>2
  <1>4. \A j \in T : j <= i
    <2> TAKE j \in T
    <2>1. n - j \in U
      OBVIOUS
    <2>2. u <= n - j
      BY <1>2, <2>1
    <2>3. QED
      BY <1>a, <1>3, <2>2
  <1>5. QED
    BY <1>4 DEF LastOf

(* Two prefixes one after the other. *)
LEMMA SubSeqOf ==
  ASSUME NEW X, NEW s \in Seq(X), NEW a \in Nat, NEW b \in 0 .. Len(s)
  PROVE  /\ SubSeq(s, a + 1, b) \in Seq(X)
         /\ Len(SubSeq(s, a + 1, b)) = IF a < b THEN b - a ELSE 0
         /\ \A i \in 1 .. b - a : SubSeq(s, a + 1, b)[i] = s[a + i]
  <1>1. Len(s) \in Nat /\ b \in Int /\ a + 1 \in Int
    OBVIOUS
  <1>2. \A i \in a + 1 .. b : s[i] \in X
    BY <1>1, ElementOfSeq
  <1>3. /\ SubSeq(s, a + 1, b) \in Seq(X)
        /\ Len(SubSeq(s, a + 1, b)) = IF a + 1 <= b THEN b - (a + 1) + 1 ELSE 0
        /\ \A i \in 1 .. b - (a + 1) + 1 : SubSeq(s, a + 1, b)[i] = s[(a + 1) + i - 1]
    BY <1>1, <1>2, SubSeqProperties
  <1>4. b - (a + 1) + 1 = b - a /\ (a + 1 <= b <=> a < b)
    BY <1>1
  <1>5. \A i \in Int : (a + 1) + i - 1 = a + i
    BY <1>1
  <1>6. QED
    BY <1>1, <1>3, <1>4, <1>5

(* A prefix of a sequence. *)
LEMMA PrefixOf ==
  ASSUME NEW X, NEW s \in Seq(X), NEW b \in 0 .. Len(s)
  PROVE  /\ Prefix(s, b) \in Seq(X) /\ Len(Prefix(s, b)) = b
         /\ \A i \in 1 .. b : Prefix(s, b)[i] = s[i]
  <1>1. 0 + 1 = 1 /\ b \in Int /\ b - 0 = b
    OBVIOUS
  <1>2. /\ SubSeq(s, 0 + 1, b) \in Seq(X)
        /\ Len(SubSeq(s, 0 + 1, b)) = IF 0 < b THEN b - 0 ELSE 0
        /\ \A i \in 1 .. b - 0 : SubSeq(s, 0 + 1, b)[i] = s[0 + i]
    BY SubSeqOf
  <1>3. QED
    BY <1>1, <1>2 DEF Prefix

-----------------------------------------------------------------------------
(* Tracks: edits.rs. *)

(* The rows of a track of n journal entries are in frame order, and each was   *)
(* committed at a revision of its own below n.                                 *)
Track(rows, n) ==
  /\ rows \in Seq(Inputs) /\ Len(rows) <= MaxInputs
  /\ \A i, j \in 1 .. Len(rows) :
       i < j => rows[i].frame <= rows[j].frame /\ rows[i].revision < rows[j].revision
  /\ \A i \in 1 .. Len(rows) : rows[i].revision < n

(* The types of a row. *)
LEMMA RowFacts ==
  ASSUME NEW rows \in Seq(Inputs)
  PROVE  /\ Len(rows) \in Nat
         /\ \A i \in 1 .. Len(rows) :
              /\ rows[i] \in Inputs
              /\ rows[i].frame \in Frames /\ rows[i].frame \in Int
              /\ rows[i].revision \in Nat /\ rows[i].event \in Events
  <1>1. \A i \in 1 .. Len(rows) : rows[i] \in Inputs
    BY ElementOfSeq
  <1>2. QED
    BY <1>1 DEF Inputs, Frames

(* visible_count is a partition point: the rows up to it are exactly those of  *)
(* frames up to f.                                                             *)
LEMMA VisibleRows ==
  ASSUME NEW n, NEW rows, Track(rows, n), NEW f \in Int
  PROVE  /\ VisibleCount(rows, f) \in 0 .. Len(rows)
         /\ \A i \in 1 .. Len(rows) : i <= VisibleCount(rows, f) <=> rows[i].frame <= f
  <1> DEFINE A == {i \in 1 .. Len(rows) : rows[i].frame <= f}
             c == VisibleCount(rows, f)
  <1>1. Len(rows) \in Nat /\ \A i \in 1 .. Len(rows) : rows[i].frame \in Int
    BY RowFacts DEF Track
  <1>2. IsFiniteSet(1 .. Len(rows)) /\ Cardinality(1 .. Len(rows)) = Len(rows)
    BY <1>1, FS_Interval
  <1>3. IsFiniteSet(A) /\ Cardinality(A) <= Len(rows) /\ c = Cardinality(A)
    BY <1>2, FS_Subset DEF VisibleCount
  <1>4. c \in Nat /\ c <= Len(rows)
    BY <1>3, FS_CardinalityType
  <1>5. ASSUME NEW i \in A PROVE i <= c
    <2>1. \A j \in 1 .. i : rows[j].frame <= f
      <3> TAKE j \in 1 .. i
      <3>1. j \in 1 .. Len(rows) /\ i \in 1 .. Len(rows) /\ rows[i].frame <= f
        BY <1>1, <1>5
      <3>2. rows[j].frame <= rows[i].frame
        BY <1>1, <3>1 DEF Track
      <3>3. QED
        BY <1>1, <3>1, <3>2
    <2>2. 1 .. i \subseteq A
      BY <1>1, <1>5, <2>1
    <2>3. i \in Nat /\ Cardinality(1 .. i) = i
      BY <1>1, <1>5, FS_Interval
    <2>4. Cardinality(1 .. i) <= Cardinality(A)
      BY <1>3, <2>2, FS_Subset
    <2>5. QED
      BY <1>3, <2>3, <2>4
  <1>6. A \subseteq 1 .. c
    BY <1>1, <1>4, <1>5
  <1>7. IsFiniteSet(1 .. c) /\ Cardinality(1 .. c) = c
    BY <1>4, FS_Interval
  <1>8. A = 1 .. c
    BY <1>3, <1>6, <1>7, FS_Subset
  <1>9. QED
    BY <1>1, <1>4, <1>8

(* There is only one such point. *)
LEMMA VisibleIs ==
  ASSUME NEW n, NEW rows, Track(rows, n), NEW f \in Int, NEW k \in 0 .. Len(rows),
         \A i \in 1 .. Len(rows) : i <= k <=> rows[i].frame <= f
  PROVE  VisibleCount(rows, f) = k
  <1> DEFINE c == VisibleCount(rows, f)
  <1>1. c \in 0 .. Len(rows) /\ \A i \in 1 .. Len(rows) : i <= c <=> i <= k
    BY VisibleRows
  <1>2. Len(rows) \in Nat
    BY RowFacts DEF Track
  <1> HIDE DEF c
  <1>3. CASE c < k
    <2>1. k \in 1 .. Len(rows) /\ ~ (k <= c) /\ k <= k
      BY <1>1, <1>2, <1>3
    <2>2. QED
      BY <1>1, <2>1
  <1>4. CASE k < c
    <2>1. c \in 1 .. Len(rows) /\ ~ (c <= k) /\ c <= c
      BY <1>1, <1>2, <1>4
    <2>2. QED
      BY <1>1, <2>1
  <1>5. c = k
    BY <1>1, <1>2, <1>3, <1>4
  <1>6. QED
    BY <1>5 DEF c

(* A later frame sees no fewer rows. *)
LEMMA VisibleMonotone ==
  ASSUME NEW n, NEW rows, Track(rows, n), NEW f \in Int, NEW g \in Int, f <= g
  PROVE  VisibleCount(rows, f) <= VisibleCount(rows, g)
  <1> DEFINE c == VisibleCount(rows, f)
             d == VisibleCount(rows, g)
  <1>1. c \in 0 .. Len(rows) /\ d \in 0 .. Len(rows) /\ Len(rows) \in Nat
    BY VisibleRows, RowFacts DEF Track
  <1>2. c > 0 => c \in 1 .. Len(rows)
    BY <1>1
  <1>3. c > 0 => rows[c].frame <= f /\ rows[c].frame \in Int
    <2>1. c <= c
      BY <1>1
    <2>2. \A i \in 1 .. Len(rows) : i <= c <=> rows[i].frame <= f
      BY VisibleRows
    <2>3. \A i \in 1 .. Len(rows) : rows[i].frame \in Int
      BY RowFacts DEF Track
    <2>4. QED
      BY <1>2, <2>1, <2>2, <2>3
  <1>4. c > 0 => c <= d
    <2> SUFFICES ASSUME c > 0 PROVE c <= d
      OBVIOUS
    <2>1. \A i \in 1 .. Len(rows) : i <= d <=> rows[i].frame <= g
      BY VisibleRows
    <2> HIDE DEF c, d
    <2>2. rows[c].frame <= g
      BY <1>3
    <2>3. QED
      BY <1>2, <2>1, <2>2
  <1>5. QED
    BY <1>1, <1>4

(* What the rows of a sequence of inputs dispatch. *)
LEMMA DispatchedFacts ==
  ASSUME NEW X, \A x \in X : x.frame \in Frames /\ x.event \in Events, NEW s \in Seq(X)
  PROVE  /\ DispatchedRows(s) \in Seq(Dispatches) /\ Len(DispatchedRows(s)) = Len(s)
         /\ \A i \in 1 .. Len(s) : DispatchedRows(s)[i] = Dispatched(s[i])
  <1>1. Len(s) \in Nat /\ \A i \in 1 .. Len(s) : s[i] \in X
    BY ElementOfSeq
  <1>2. \A i \in 1 .. Len(s) : Dispatched(s[i]) \in Dispatches
    BY <1>1 DEF Dispatched, Dispatches
  <1>3. DispatchedRows(s) \in [1 .. Len(s) -> Dispatches]
    BY <1>2 DEF DispatchedRows
  <1>4. QED
    BY <1>1, <1>3 DEF DispatchedRows

(* Inputs, staged or committed, name a frame of the scene and an event. *)
LEMMA InputsCarry == \A x \in Inputs : x.frame \in Frames /\ x.event \in Events
  BY DEF Inputs

(* Sequences that agree up to k have the same prefix. *)
LEMMA PrefixAgree ==
  ASSUME NEW X, NEW s \in Seq(X), NEW t \in Seq(X), NEW k \in Nat, k <= Len(s), k <= Len(t),
         \A i \in 1 .. k : s[i] = t[i]
  PROVE  Prefix(s, k) = Prefix(t, k)
  <1>1. k \in 0 .. Len(s) /\ k \in 0 .. Len(t)
    OBVIOUS
  <1>2. /\ Prefix(s, k) \in Seq(X) /\ Len(Prefix(s, k)) = k
        /\ \A i \in 1 .. k : Prefix(s, k)[i] = s[i]
    BY <1>1, PrefixOf
  <1>3. /\ Prefix(t, k) \in Seq(X) /\ Len(Prefix(t, k)) = k
        /\ \A i \in 1 .. k : Prefix(t, k)[i] = t[i]
    BY <1>1, PrefixOf
  <1>4. QED
    BY <1>2, <1>3, SeqEqual

(* Going on from an execution that has run the first k rows runs what is left  *)
(* of the rows up to the target: whichever k, it is the execution of them all. *)
LEMMA Continue ==
  ASSUME NEW n, NEW rows, Track(rows, n), NEW f \in Frames, NEW g,
         NEW k \in 0 .. VisibleCount(rows, f)
  PROVE  AdvanceAfterInputs([frame |-> g, done |-> DispatchedRows(Prefix(rows, k))], rows, f, k)
           = [frame |-> f, done |-> DispatchedRows(Prefix(rows, VisibleCount(rows, f)))]
  <1> DEFINE v == VisibleCount(rows, f)
             a == DispatchedRows(Prefix(rows, k))
             b == DispatchedRows(SubSeq(rows, k + 1, v))
             c == DispatchedRows(Prefix(rows, v))
  <1>1. v \in 0 .. Len(rows) /\ rows \in Seq(Inputs) /\ Len(rows) \in Nat
    <2>1. f \in Int
      BY DEF Frames
    <2>2. QED
      BY <2>1, VisibleRows, RowFacts DEF Track
  <1> HIDE DEF v
  <1>2. k \in Nat /\ k \in 0 .. Len(rows) /\ k <= v /\ v \in Nat
    BY <1>1 DEF v
  <1>3. /\ Prefix(rows, k) \in Seq(Inputs) /\ Len(Prefix(rows, k)) = k
        /\ \A i \in 1 .. k : Prefix(rows, k)[i] = rows[i]
    BY <1>1, <1>2, PrefixOf
  <1>4. /\ Prefix(rows, v) \in Seq(Inputs) /\ Len(Prefix(rows, v)) = v
        /\ \A i \in 1 .. v : Prefix(rows, v)[i] = rows[i]
    BY <1>1, <1>2, PrefixOf
  <1>5. /\ SubSeq(rows, k + 1, v) \in Seq(Inputs) /\ Len(SubSeq(rows, k + 1, v)) = v - k
        /\ \A i \in 1 .. v - k : SubSeq(rows, k + 1, v)[i] = rows[k + i]
    BY <1>1, <1>2, SubSeqOf
  <1>6. /\ a \in Seq(Dispatches) /\ Len(a) = k
        /\ \A i \in 1 .. k : a[i] = Dispatched(rows[i])
    BY <1>3, InputsCarry, DispatchedFacts
  <1>7. /\ b \in Seq(Dispatches) /\ Len(b) = v - k
        /\ \A i \in 1 .. v - k : b[i] = Dispatched(rows[k + i])
    BY <1>5, InputsCarry, DispatchedFacts
  <1>8. /\ c \in Seq(Dispatches) /\ Len(c) = v
        /\ \A i \in 1 .. v : c[i] = Dispatched(rows[i])
    BY <1>4, InputsCarry, DispatchedFacts
  <1> HIDE DEF a, b, c
  <1>9. a \o b = c
    <2>1. /\ a \o b \in Seq(Dispatches) /\ Len(a \o b) = v
          /\ \A i \in 1 .. v : (a \o b)[i] = IF i <= k THEN a[i] ELSE b[i - k]
      <3>1. /\ a \o b \in Seq(Dispatches) /\ Len(a \o b) = Len(a) + Len(b)
            /\ \A i \in 1 .. Len(a) + Len(b) : (a \o b)[i] = IF i <= Len(a) THEN a[i] ELSE b[i - Len(a)]
        BY <1>6, <1>7, ConcatProperties
      <3>2. Len(a) + Len(b) = v /\ Len(a) = k
        BY <1>2, <1>6, <1>7
      <3>3. QED
        BY <3>1, <3>2
    <2>2. ASSUME NEW i \in 1 .. v PROVE (a \o b)[i] = c[i]
      <3>1. CASE i <= k
        BY <1>2, <1>6, <1>8, <2>1, <3>1
      <3>2. CASE ~ (i <= k)
        <4>1. i - k \in 1 .. v - k /\ k + (i - k) = i
          BY <1>2, <3>2
        <4>2. b[i - k] = Dispatched(rows[k + (i - k)])
          BY <1>7, <4>1
        <4>3. QED
          BY <1>8, <2>1, <3>2, <4>1, <4>2
      <3>3. QED
        BY <3>1, <3>2
    <2>3. QED
      BY <1>8, <2>1, <2>2, SeqEqual
  <1>10. QED
    BY <1>9 DEF AdvanceAfterInputs, a, b, c, v

(* What a factory run anew shows at a frame. *)
LEMMA FreshShape ==
  ASSUME NEW n, NEW rows, Track(rows, n), NEW f \in Frames
  PROVE  /\ FreshAt(f, rows) = [frame |-> f, done |-> DispatchedRows(Prefix(rows, VisibleCount(rows, f)))]
         /\ FreshAt(f, rows) \in [frame : Frames, done : Seq(Dispatches)]
         /\ FreshAt(f, rows).frame = f
         /\ Len(FreshAt(f, rows).done) = VisibleCount(rows, f)
         /\ FreshAt(f, rows) # NoProgram
  <1> DEFINE v == VisibleCount(rows, f)
  <1>1. v \in 0 .. Len(rows) /\ rows \in Seq(Inputs) /\ Len(rows) \in Nat
    <2>1. f \in Int
      BY DEF Frames
    <2>2. QED
      BY <2>1, VisibleRows, RowFacts DEF Track
  <1>2. DispatchedRows(Prefix(rows, 0)) = <<>>
    <2>1. Prefix(rows, 0) \in Seq(Inputs) /\ Len(Prefix(rows, 0)) = 0
      BY <1>1, PrefixOf
    <2>2. DispatchedRows(Prefix(rows, 0)) \in Seq(Dispatches) /\ Len(DispatchedRows(Prefix(rows, 0))) = 0
      BY <2>1, InputsCarry, DispatchedFacts
    <2>3. QED
      BY <2>2, EmptySeq
  <1>3. FreshAt(f, rows) = [frame |-> f, done |-> DispatchedRows(Prefix(rows, v))]
    <2>1. 0 \in 0 .. v
      BY <1>1
    <2>2. AdvanceAfterInputs([frame |-> 0, done |-> DispatchedRows(Prefix(rows, 0))], rows, f, 0)
            = [frame |-> f, done |-> DispatchedRows(Prefix(rows, v))]
      BY <2>1, Continue
    <2>3. QED
      BY <1>2, <2>2 DEF FreshAt
  <1>4. /\ Prefix(rows, v) \in Seq(Inputs) /\ Len(Prefix(rows, v)) = v
    BY <1>1, PrefixOf
  <1>5. /\ DispatchedRows(Prefix(rows, v)) \in Seq(Dispatches)
        /\ Len(DispatchedRows(Prefix(rows, v))) = v
    BY <1>4, InputsCarry, DispatchedFacts
  <1>6. FreshAt(f, rows).frame = f /\ FreshAt(f, rows).done = DispatchedRows(Prefix(rows, v))
    BY <1>3
  <1>7. f # NoFrame /\ NoProgram.frame = NoFrame
    BY DEF Frames, NoFrame, NoProgram
  <1>8. QED
    BY <1>3, <1>5, <1>6, <1>7

-----------------------------------------------------------------------------
(* Commands. *)

Commands == [kind : {"seek"}, frame : Frames]
              \cup [kind : {"input"}, frame : Frames, revision : Nat, event : Events]

(* The fields of a command. *)
LEMMA CommandFacts ==
  ASSUME NEW c \in Commands
  PROVE  /\ c.frame \in Frames /\ c.kind \in {"seek", "input"}
         /\ c.kind = "seek" => c = SeekCommand(c.frame)
         /\ c.kind = "input" => /\ c.revision \in Nat /\ c.event \in Events
                                /\ c = InputCommand(c.frame, c.revision, c.event)
  BY DEF Commands, SeekCommand, InputCommand

(* An input admitted to a track of n entries keeps the rows of frames up to its  *)
(* own, in their places, and comes after them.                                   *)
LEMMA AppendTrack ==
  ASSUME NEW n \in Nat, NEW rows, Track(rows, n), NEW c \in Commands, c.kind = "input",
         AppendAdmits(c, rows, n)
  PROVE  /\ Track(AppendRow(c, rows), n + 1)
         /\ Len(AppendRow(c, rows)) = Keep(rows, c.frame) + 1
         /\ VisibleCount(AppendRow(c, rows), c.frame) = Keep(rows, c.frame) + 1
         /\ AppendRow(c, rows)[Keep(rows, c.frame) + 1] = RowOf(c)
         /\ \A i \in 1 .. Keep(rows, c.frame) : AppendRow(c, rows)[i] = rows[i]
  <1> DEFINE f == c.frame
             k == Keep(rows, c.frame)
             new == AppendRow(c, rows)
  <1>1. /\ f \in Frames /\ f \in Int /\ RowOf(c) \in Inputs
        /\ RowOf(c).frame = f /\ RowOf(c).revision = n
    <2>1. c.frame \in Frames /\ c.revision \in Nat /\ c.event \in Events /\ c.revision = n
      BY CommandFacts DEF AppendAdmits
    <2>2. QED
      BY <2>1 DEF RowOf, Inputs, Frames
  <1>2. /\ k \in 0 .. Len(rows) /\ rows \in Seq(Inputs) /\ Len(rows) \in Nat /\ k < MaxInputs
        /\ \A i \in 1 .. Len(rows) : i <= k <=> rows[i].frame <= f
    BY <1>1, VisibleRows, RowFacts DEF Track, Keep, AppendAdmits
  <1>3. /\ Prefix(rows, k) \in Seq(Inputs) /\ Len(Prefix(rows, k)) = k
        /\ \A i \in 1 .. k : Prefix(rows, k)[i] = rows[i]
    BY <1>2, PrefixOf
  <1>4. new = Append(Prefix(rows, k), RowOf(c))
    BY DEF AppendRow
  <1> HIDE DEF k, new, f
  <1>5. /\ new \in Seq(Inputs) /\ Len(new) = k + 1 /\ new[k + 1] = RowOf(c)
        /\ \A i \in 1 .. k : new[i] = rows[i]
    BY <1>1, <1>2, <1>3, <1>4
  <1>6. MaxInputs \in Nat
    BY ConfigAssumption DEF ConfigAssumption
  <1>7. \A i \in 1 .. k : /\ i \in 1 .. Len(rows) /\ rows[i].frame <= f /\ rows[i].revision < n
    BY <1>2 DEF Track
  <1>8. Track(new, n + 1)
    <2>1. ASSUME NEW i \in 1 .. Len(new), NEW j \in 1 .. Len(new), i < j
          PROVE  new[i].frame <= new[j].frame /\ new[i].revision < new[j].revision
      <3>1. i \in 1 .. k
        BY <1>2, <1>5, <2>1
      <3>2. CASE j \in 1 .. k
        <4>1. i \in 1 .. Len(rows) /\ j \in 1 .. Len(rows) /\ new[i] = rows[i] /\ new[j] = rows[j]
          BY <1>5, <1>7, <3>1, <3>2
        <4>2. QED
          BY <4>1, <2>1 DEF Track
      <3>3. CASE j = k + 1
        BY <1>1, <1>5, <1>7, <3>1, <3>3
      <3>4. QED
        BY <1>2, <1>5, <3>2, <3>3
    <2>2. ASSUME NEW i \in 1 .. Len(new) PROVE new[i].revision < n + 1
      <3>1. CASE i \in 1 .. k
        <4>1. rows[i].revision \in Nat /\ rows[i].revision < n /\ new[i] = rows[i]
          BY <1>2, <1>5, <1>7, <3>1, RowFacts
        <4>2. QED
          BY <4>1
      <3>2. CASE i = k + 1
        BY <1>1, <1>5, <3>2
      <3>3. QED
        BY <1>2, <1>5, <3>1, <3>2
    <2>3. QED
      BY <1>2, <1>5, <1>6, <2>1, <2>2 DEF Track
  <1>9. VisibleCount(new, f) = k + 1
    <2>1. k + 1 \in 0 .. Len(new)
      BY <1>2, <1>5
    <2>2. ASSUME NEW i \in 1 .. Len(new) PROVE i <= k + 1 <=> new[i].frame <= f
      <3>1. CASE i \in 1 .. k
        BY <1>2, <1>5, <1>7, <3>1
      <3>2. CASE i = k + 1
        BY <1>1, <1>2, <1>5, <3>2
      <3>3. QED
        BY <1>2, <1>5, <3>1, <3>2
    <2>3. QED
      BY <1>1, <1>8, <2>1, <2>2, VisibleIs
  <1>10. QED
    BY <1>5, <1>8, <1>9 DEF k, new, f

(* An admitted command leaves a track, and leaves alone what it keeps. *)
LEMMA PreparedTrack ==
  ASSUME NEW n \in Nat, NEW rows, Track(rows, n), NEW c \in Commands, PrepareAdmits(c, rows, n)
  PROVE  /\ Track(Prepared(c, rows), n + 1)
         /\ VisibleCount(rows, c.frame) <= VisibleCount(Prepared(c, rows), c.frame)
         /\ \A j \in 0 .. VisibleCount(rows, c.frame) :
              Prefix(Prepared(c, rows), j) = Prefix(rows, j)
  <1> DEFINE k == VisibleCount(rows, c.frame)
  <1>1. /\ k \in 0 .. Len(rows) /\ Len(rows) \in Nat /\ rows \in Seq(Inputs)
    <2>1. c.frame \in Int
      BY CommandFacts DEF Frames
    <2>2. QED
      BY <2>1, VisibleRows, RowFacts DEF Track
  <1>2. CASE c.kind = "input"
    <2>1. Prepared(c, rows) = AppendRow(c, rows) /\ AppendAdmits(c, rows, n) /\ Keep(rows, c.frame) = k
      BY <1>2 DEF Prepared, PrepareAdmits, Keep
    <2>2. /\ Track(AppendRow(c, rows), n + 1)
          /\ Len(AppendRow(c, rows)) = k + 1
          /\ VisibleCount(AppendRow(c, rows), c.frame) = k + 1
          /\ \A i \in 1 .. k : AppendRow(c, rows)[i] = rows[i]
      BY <1>2, <2>1, AppendTrack
    <2>3. ASSUME NEW j \in 0 .. k PROVE Prefix(AppendRow(c, rows), j) = Prefix(rows, j)
      <3>1. AppendRow(c, rows) \in Seq(Inputs)
        BY <2>2 DEF Track
      <3>2. j \in Nat /\ j <= Len(rows) /\ j <= Len(AppendRow(c, rows))
        BY <1>1, <2>2
      <3>3. \A i \in 1 .. j : AppendRow(c, rows)[i] = rows[i]
        BY <1>1, <2>2
      <3>4. QED
        BY <1>1, <3>1, <3>2, <3>3, PrefixAgree
    <2>4. k <= k + 1
      BY <1>1
    <2>5. QED
      BY <2>1, <2>2, <2>3, <2>4
  <1>3. CASE c.kind # "input"
    <2>1. Prepared(c, rows) = rows
      BY <1>3 DEF Prepared
    <2>2. Track(rows, n + 1)
      <3>1. \A i \in 1 .. Len(rows) : rows[i].revision < n + 1
        <4> TAKE i \in 1 .. Len(rows)
        <4>1. rows[i].revision \in Nat /\ rows[i].revision < n
          BY <1>1, RowFacts DEF Track
        <4>2. QED
          BY <4>1
      <3>2. QED
        BY <3>1 DEF Track
    <2>3. QED
      BY <1>1, <2>1, <2>2
  <1>4. QED
    BY <1>2, <1>3

-----------------------------------------------------------------------------
(* The journal and the worker. *)

Programs == [frame : Frames, done : Seq(Dispatches)]

States == [kind : {"scene"}, program : Programs]
            \cup [kind : {"edited"}, position : Nat, rows : Seq(Inputs), program : Programs]

Entries == [command : Commands, checkpoint : BOOLEAN, state : States]

(* The track a state carries, and the one after entry i of a journal. *)
RowsOf(state) == IF state.kind = "edited" THEN state.rows ELSE <<>>

TrackAt(j, i) == IF i = 0 THEN <<>> ELSE RowsOf(j[i].state)

(* Entry i records a command that was admitted to the track before it, and the  *)
(* state of the fresh execution of the track after it.                          *)
Recorded(j, i) ==
  /\ PrepareAdmits(j[i].command, TrackAt(j, i - 1), i - 1)
  /\ TrackAt(j, i) = Prepared(j[i].command, TrackAt(j, i - 1))
  /\ Track(TrackAt(j, i), i)
  /\ j[i].state = EncodeState(i, TrackAt(j, i), FreshAt(j[i].command.frame, TrackAt(j, i)))

Journal ==
  /\ journal \in Seq(Entries)
  /\ \A i \in 1 .. Len(journal) : Recorded(journal, i)
  /\ edits = TrackAt(journal, position)

(* Whatever is staged was dispatched to the display after the committed inputs,  *)
(* and a save of it will fit.                                                    *)
Staged ==
  /\ \A i \in 1 .. Len(pending) :
       /\ pending[i].kind = "input" /\ pending[i].frame = program.frame
       /\ pending[i].revision = position + i - 1
  /\ pending # <<>> =>
       /\ VisibleCount(edits, program.frame) + Len(pending) <= MaxInputs
       /\ VisibleCount(edits, program.frame) + Len(pending) <= MaxReplayInputs
  /\ program.done = FreshAt(program.frame, edits).done \o DispatchedRows(pending)

Preview ==
  /\ pending \in Seq(Commands)
  /\ ~StageInputs => pending = <<>>
  /\ Live => program.frame <= MaxReplayFrames
  /\ Live /\ StageInputs => Staged

(* A clean preview is the committed timeline; a staged one goes on from it; and *)
(* the journal alone determines the track of any worker that stands for part of *)
(* it.                                                                          *)
WorkerInv ==
  /\ WorkerTypeOK
  /\ OwnJournalReplays
  /\ Journal
  /\ phase = "restore" => Checkpoints # {}
  /\ Preview
  /\ PreviewIsTheTimeline

(* The empty track. *)
LEMMA EmptyTrack ==
  ASSUME NEW n
  PROVE  Track(<<>>, n)
  <1>1. MaxInputs \in Nat
    BY ConfigAssumption DEF ConfigAssumption
  <1>2. <<>> \in Seq(Inputs) /\ Len(<<>>) = 0
    BY EmptySeq
  <1>3. QED
    BY <1>1, <1>2 DEF Track

(* A state can be read back: its program, its track, and of an edited scene *)
(* its position.                                                            *)
LEMMA EncodeFacts ==
  ASSUME NEW at \in Nat, NEW rows \in Seq(Inputs), NEW p \in Programs
  PROVE  /\ EncodeState(at, rows, p) \in States
         /\ RowsOf(EncodeState(at, rows, p)) = rows
         /\ EncodeState(at, rows, p).program = p
         /\ EncodeState(at, rows, p).kind = "edited" => EncodeState(at, rows, p).position = at
  <1>1. CASE rows = <<>>
    <2>1. EncodeState(at, rows, p) = [kind |-> "scene", program |-> p]
      BY <1>1 DEF EncodeState
    <2>2. QED
      BY <1>1, <2>1 DEF RowsOf, States
  <1>2. CASE rows # <<>>
    <2>1. EncodeState(at, rows, p) = [kind |-> "edited", position |-> at, rows |-> rows, program |-> p]
      BY <1>2 DEF EncodeState
    <2>2. QED
      BY <2>1 DEF RowsOf, States
  <1>3. QED
    BY <1>1, <1>2

(* What the constants are. *)
LEMMA ConfigFacts ==
  /\ LastFrame \in Nat /\ MaxInputs \in Nat /\ MaxReplayFrames \in Nat /\ MaxReplayInputs \in Nat
  /\ MaxEntries \in Nat /\ MaxCrashes \in Nat /\ MaxPreview \in Nat /\ StageInputs \in BOOLEAN
  /\ 0 \in Frames /\ Frames \subseteq Nat
  BY ConfigAssumption, BoundsAssumption DEF ConfigAssumption, BoundsAssumption, Frames

(* The tracks of every part of the journal, the served one included. *)
LEMMA TrackFacts ==
  ASSUME WorkerInv
  PROVE  /\ Len(journal) \in Nat /\ reuse \in Nat /\ position \in Nat
         /\ reuse <= Len(journal) /\ position <= reuse
         /\ \A i \in 0 .. Len(journal) : Track(TrackAt(journal, i), i)
         /\ Track(edits, position) /\ edits \in Seq(Inputs)
  <1>1. Len(journal) \in Nat
    BY DEF WorkerInv, Journal
  <1>2. reuse \in Nat /\ position \in Nat /\ reuse <= Len(journal) /\ position <= reuse
    BY <1>1 DEF WorkerInv, WorkerTypeOK
  <1>3. ASSUME NEW i \in 0 .. Len(journal) PROVE Track(TrackAt(journal, i), i)
    <2>1. CASE i = 0
      BY <2>1, EmptyTrack DEF TrackAt
    <2>2. CASE i # 0
      BY <1>1, <2>2 DEF WorkerInv, Journal, Recorded
    <2>3. QED
      BY <2>1, <2>2
  <1>4. Track(edits, position)
    <2>1. position \in 0 .. Len(journal)
      BY <1>1, <1>2
    <2>2. QED
      BY <1>3, <2>1 DEF WorkerInv, Journal
  <1>5. QED
    BY <1>1, <1>2, <1>3, <1>4 DEF Track

(* A blank worker stands for no command. *)
LEMMA BlankIsFresh ==
  /\ FreshAt(0, <<>>) \in Programs /\ FreshAt(0, <<>>).frame = 0 /\ FreshAt(0, <<>>) # NoProgram
  /\ FreshAt(0, <<>>).done = <<>>
  /\ DispatchedRows(<<>>) = <<>>
  <1>1. 0 \in Frames /\ Track(<<>>, 0)
    BY ConfigFacts, EmptyTrack
  <1>2. /\ FreshAt(0, <<>>) \in Programs /\ FreshAt(0, <<>>).frame = 0 /\ FreshAt(0, <<>>) # NoProgram
        /\ Len(FreshAt(0, <<>>).done) = VisibleCount(<<>>, 0)
    BY <1>1, FreshShape DEF Programs
  <1>3. VisibleCount(<<>>, 0) = 0
    <2>1. VisibleCount(<<>>, 0) \in 0 .. Len(<<>>)
      BY <1>1, VisibleRows
    <2>2. QED
      BY <2>1
  <1>4. FreshAt(0, <<>>).done = <<>>
    BY <1>2, <1>3, EmptySeq DEF Programs
  <1>5. DispatchedRows(<<>>) = <<>>
    <2>1. <<>> \in Seq(Inputs) /\ Len(<<>>) = 0
      BY EmptySeq
    <2>2. DispatchedRows(<<>>) \in Seq(Dispatches) /\ Len(DispatchedRows(<<>>)) = 0
      BY <2>1, InputsCarry, DispatchedFacts
    <2>3. QED
      BY <2>2, EmptySeq
  <1>6. QED
    BY <1>2, <1>4, <1>5

(* A display that runs the committed inputs alone, with nothing staged. *)
Unedited ==
  /\ Track(edits, position) /\ pending = <<>>
  /\ Live => /\ program.frame \in Frames /\ program.frame <= MaxReplayFrames
             /\ program = FreshAt(program.frame, edits)

(* Such a display is a clean preview. *)
LEMMA CleanPreview == Unedited => Preview /\ PreviewIsTheTimeline
  <1> SUFFICES ASSUME Unedited PROVE Preview /\ PreviewIsTheTimeline
    OBVIOUS
  <1> USE DEF Unedited
  <1>1. pending \in Seq(Commands) /\ Len(pending) = 0
    BY EmptySeq
  <1>2. ASSUME Live PROVE Staged
    <2>1. FreshAt(program.frame, edits).done \in Seq(Dispatches)
      BY <1>2, FreshShape
    <2>2. FreshAt(program.frame, edits).done \o <<>> = FreshAt(program.frame, edits).done
      BY <2>1, ConcatEmptySeq
    <2>3. program.done = FreshAt(program.frame, edits).done
      BY <1>2
    <2>4. DispatchedRows(pending) = <<>>
      BY BlankIsFresh
    <2>5. QED
      <3>1. program.done = FreshAt(program.frame, edits).done \o DispatchedRows(pending)
        BY <2>2, <2>3, <2>4
      <3>2. 1 .. Len(pending) = {}
        BY <1>1
      <3>3. QED
        BY <3>1, <3>2 DEF Staged
  <1>3. QED
    BY <1>1, <1>2 DEF Preview, PreviewIsTheTimeline

-----------------------------------------------------------------------------
(* Previews. *)

(* The initial worker is blank and its journal empty. *)
LEMMA InitWorkerInv == Init => WorkerInv
  <1> SUFFICES ASSUME Init PROVE WorkerInv
    OBVIOUS
  <1>1. /\ journal = <<>> /\ Len(journal) = 0 /\ journal \in Seq(Entries)
        /\ pending = <<>> /\ Len(pending) = 0 /\ edits = <<>> /\ edits \in Seq(Inputs) /\ Len(edits) = 0
    BY EmptySeq DEF Init
  <1>2. program \in Programs /\ program.frame = 0 /\ program = FreshAt(program.frame, edits)
    BY BlankIsFresh DEF Init
  <1>3. Track(edits, 0)
    BY EmptyTrack DEF Init
  <1>4. Preview /\ PreviewIsTheTimeline
    BY <1>1, <1>2, <1>3, CleanPreview, ConfigFacts DEF Programs, Unedited, Init
  <1>5. WorkerTypeOK
    BY <1>1, <1>2, ConfigFacts DEF Init, WorkerTypeOK, Programs
  <1>6. Journal
    BY <1>1 DEF Init, Journal, TrackAt
  <1>7. QED
    BY <1>4, <1>5, <1>6 DEF WorkerInv, OwnJournalReplays, Init

(* A preview leaves the journal and what was committed alone. *)
LEMMA PreviewKeepsJournal ==
  ASSUME WorkerInv, UNCHANGED <<phase, edits, position, lastCheckpoint, journal, reuse, crashes>>,
         program' \in Programs \cup {NoProgram}, clean' \in BOOLEAN,
         \A i \in 1 .. Len(pending)' : RowOf(pending'[i]) \in Inputs,
         Preview', PreviewIsTheTimeline'
  PROVE  WorkerInv'
  <1>1. WorkerTypeOK'
    BY DEF WorkerInv, WorkerTypeOK, Programs, Serving
  <1>2. Journal'
    BY DEF WorkerInv, Journal, Recorded, TrackAt
  <1>3. QED
    BY <1>1, <1>2 DEF WorkerInv, OwnJournalReplays, Checkpoints

(* Going on from a clean preview, or starting anew, shows the timeline. *)
LEMMA SeekInv ==
  ASSUME WorkerInv, NEW f \in Frames, Seek(f)
  PROVE  WorkerInv'
  <1>1. Track(edits, position) /\ f \in Int
    BY TrackFacts, ConfigFacts DEF Frames
  <1>2. FreshAt(f, edits) \in Programs /\ FreshAt(f, edits).frame = f /\ FreshAt(f, edits) # NoProgram
    BY <1>1, FreshShape DEF Programs
  <1>3. /\ UNCHANGED <<phase, edits, position, lastCheckpoint, journal, reuse, crashes>>
        /\ pending' = <<>> /\ clean' \in BOOLEAN /\ f <= MaxReplayFrames
    BY DEF Seek, Seen, CanSeek, WorkerInv, WorkerTypeOK
  <1>4. program' = FreshAt(f, edits)
    <2>1. CASE Forward(f)
      <3>1. /\ clean /\ Live /\ program.frame <= f /\ program' = Advance(program, edits, f)
            /\ program = FreshAt(program.frame, edits)
        BY <2>1 DEF Seek, Seen, Forward, WorkerInv, PreviewIsTheTimeline
      <3>2. program.frame \in Frames /\ program.frame \in Int
        <4>1. program \in [frame : Frames, done : Seq(Dispatches)]
          BY <3>1 DEF WorkerInv, WorkerTypeOK, Live
        <4>2. program.frame \in Frames
          BY <4>1
        <4>3. QED
          BY <4>2 DEF Frames
      <3>3. program = [frame |-> program.frame,
                       done |-> DispatchedRows(Prefix(edits, VisibleCount(edits, program.frame)))]
        BY <1>1, <3>1, <3>2, FreshShape
      <3>4. VisibleCount(edits, program.frame) \in 0 .. VisibleCount(edits, f)
        <4>1. /\ VisibleCount(edits, program.frame) \in 0 .. Len(edits)
              /\ VisibleCount(edits, f) \in 0 .. Len(edits)
          BY <1>1, <3>2, VisibleRows
        <4>2. VisibleCount(edits, program.frame) <= VisibleCount(edits, f)
          BY <1>1, <3>1, <3>2, VisibleMonotone
        <4>3. QED
          BY <4>1, <4>2
      <3>5. AdvanceAfterInputs([frame |-> program.frame,
                done |-> DispatchedRows(Prefix(edits, VisibleCount(edits, program.frame)))],
              edits, f, VisibleCount(edits, program.frame))
              = [frame |-> f, done |-> DispatchedRows(Prefix(edits, VisibleCount(edits, f)))]
        BY <1>1, <3>4, Continue
      <3>6. FreshAt(f, edits) = [frame |-> f, done |-> DispatchedRows(Prefix(edits, VisibleCount(edits, f)))]
        BY <1>1, FreshShape
      <3>7. QED
        BY <3>1, <3>3, <3>5, <3>6 DEF Advance
    <2>2. CASE ~Forward(f)
      BY <2>2 DEF Seek, Seen
    <2>3. QED
      BY <2>1, <2>2
  <1>5. Unedited'
    BY <1>1, <1>2, <1>3, <1>4 DEF Unedited
  <1>6. Preview' /\ PreviewIsTheTimeline'
    BY <1>5, CleanPreview, PTL
  <1>7. QED
    BY <1>2, <1>3, <1>4, <1>6, PreviewKeepsJournal

(* A program lost on its way forward leaves nothing on display. *)
LEMMA LostProgramInv ==
  ASSUME WorkerInv, EventFails \/ \E f \in Frames : SeekFails(f)
  PROVE  WorkerInv'
  <1>1. /\ UNCHANGED <<phase, edits, position, lastCheckpoint, journal, reuse, crashes>>
        /\ program' = NoProgram /\ clean' \in BOOLEAN /\ (pending' = <<>> \/ pending' = pending)
    BY DEF EventFails, SeekFails, Dirty, WorkerInv, WorkerTypeOK
  <1>2. ~Live'
    BY <1>1 DEF Live
  <1>3. /\ pending' \in Seq(Commands)
        /\ ~StageInputs => pending' = <<>>
        /\ \A i \in 1 .. Len(pending') : RowOf(pending'[i]) \in Inputs
    <2>1. /\ <<>> \in Seq(Commands) /\ Len(<<>>) = 0
          /\ pending \in Seq(Commands) /\ (~StageInputs => pending = <<>>)
          /\ \A i \in 1 .. Len(pending) : RowOf(pending[i]) \in Inputs
      BY EmptySeq DEF WorkerInv, Preview, WorkerTypeOK
    <2>2. CASE pending' = <<>>
      BY <2>1, <2>2
    <2>3. CASE pending' = pending
      BY <2>1, <2>3
    <2>4. QED
      BY <1>1, <2>2, <2>3
  <1>4. Preview' /\ PreviewIsTheTimeline'
    BY <1>2, <1>3 DEF Preview, PreviewIsTheTimeline
  <1>5. QED
    BY <1>1, <1>3, <1>4, PreviewKeepsJournal

(* What the inputs of a sequence of commands dispatch. *)
LEMMA InputsDispatched ==
  ASSUME NEW s \in Seq(Commands), \A i \in 1 .. Len(s) : s[i].kind = "input"
  PROVE  /\ DispatchedRows(s) \in Seq(Dispatches) /\ Len(DispatchedRows(s)) = Len(s)
         /\ \A i \in 1 .. Len(s) : DispatchedRows(s)[i] = Dispatched(s[i])
  <1>1. Len(s) \in Nat /\ \A i \in 1 .. Len(s) : s[i] \in Commands
    BY ElementOfSeq
  <1>2. \A i \in 1 .. Len(s) : s[i].frame \in Frames /\ s[i].event \in Events
    BY <1>1, CommandFacts
  <1>3. \A i \in 1 .. Len(s) : Dispatched(s[i]) \in Dispatches
    BY <1>2 DEF Dispatched, Dispatches
  <1>4. DispatchedRows(s) \in [1 .. Len(s) -> Dispatches]
    BY <1>3 DEF DispatchedRows
  <1>5. QED
    BY <1>1, <1>4 DEF DispatchedRows

(* One more input dispatches its event last. *)
LEMMA DispatchedAppend ==
  ASSUME NEW s \in Seq(Commands), NEW c \in Commands, c.kind = "input",
         \A i \in 1 .. Len(s) : s[i].kind = "input"
  PROVE  DispatchedRows(Append(s, c)) = Append(DispatchedRows(s), Dispatched(c))
  <1> DEFINE t == Append(s, c)
             b == DispatchedRows(s)
             a == DispatchedRows(t)
             d == Dispatched(c)
  <1>1. /\ t \in Seq(Commands) /\ Len(t) = Len(s) + 1 /\ Len(s) \in Nat
        /\ \A i \in 1 .. Len(s) : t[i] = s[i]
        /\ t[Len(s) + 1] = c
    OBVIOUS
  <1> HIDE DEF t
  <1>2. \A i \in 1 .. Len(t) : t[i].kind = "input"
    BY <1>1
  <1>3. /\ a \in Seq(Dispatches) /\ Len(a) = Len(t)
        /\ \A i \in 1 .. Len(t) : a[i] = Dispatched(t[i])
    BY <1>1, <1>2, InputsDispatched
  <1>4. /\ b \in Seq(Dispatches) /\ Len(b) = Len(s)
        /\ \A i \in 1 .. Len(s) : b[i] = Dispatched(s[i])
    BY InputsDispatched
  <1>5. d \in Dispatches
    BY CommandFacts DEF Dispatched, Dispatches
  <1> HIDE DEF a, b
  <1>6. /\ Append(b, d) \in Seq(Dispatches) /\ Len(Append(b, d)) = Len(s) + 1
        /\ \A i \in 1 .. Len(s) : Append(b, d)[i] = b[i]
        /\ Append(b, d)[Len(s) + 1] = d
    BY <1>4, <1>5
  <1>7. \A i \in 1 .. Len(a) : a[i] = Append(b, d)[i]
    <2> TAKE i \in 1 .. Len(a)
    <2>1. CASE i \in 1 .. Len(s)
      BY <1>1, <1>3, <1>4, <1>6, <2>1
    <2>2. CASE i = Len(s) + 1
      BY <1>1, <1>3, <1>6, <2>2
    <2>3. i \in 1 .. Len(s) + 1
      BY <1>1, <1>3
    <2>4. i \in 1 .. Len(s) \/ i = Len(s) + 1
      BY <1>1, <2>3
    <2>5. QED
      BY <2>1, <2>2, <2>4
  <1>8. Len(a) = Len(Append(b, d))
    BY <1>1, <1>3, <1>6
  <1>9. a = Append(b, d)
    BY <1>3, <1>6, <1>7, <1>8, SeqEqual
  <1>10. QED
    BY <1>9 DEF a, b, t

(* What is appended to the second of two sequences is appended to the whole. *)
LEMMA ConcatThenAppend ==
  ASSUME NEW a \in Seq(Dispatches), NEW b \in Seq(Dispatches), NEW x \in Dispatches
  PROVE  Append(a \o b, x) = a \o Append(b, x)
  <1>1. <<x>> \in Seq(Dispatches)
    OBVIOUS
  <1>2. Append(b, x) = b \o <<x>>
    BY AppendIsConcat
  <1>3. a \o b \in Seq(Dispatches)
    BY ConcatProperties
  <1>4. Append(a \o b, x) = (a \o b) \o <<x>>
    BY <1>3, AppendIsConcat
  <1>5. (a \o b) \o <<x>> = a \o (b \o <<x>>)
    BY <1>1, ConcatAssociative
  <1>6. QED
    BY <1>2, <1>4, <1>5

(* An event is dispatched to what is on display, and staged behind what is staged. *)
LEMMA EventInv ==
  ASSUME WorkerInv, NEW e \in Events, Event(e)
  PROVE  WorkerInv'
  <1> DEFINE f == program.frame
             c == InputCommand(program.frame, position + Len(pending), e)
             d == [frame |-> program.frame, event |-> e]
  <1>1. /\ Live /\ Serving /\ StagingAdmits /\ clean' = FALSE
        /\ UNCHANGED <<phase, edits, position, lastCheckpoint, journal, reuse, crashes>>
        /\ program' = [program EXCEPT !.done = Append(program.done, d)]
    BY DEF Event, Dirty
  <1>2. /\ program \in Programs /\ f \in Frames /\ program.done \in Seq(Dispatches) /\ d \in Dispatches
        /\ f <= MaxReplayFrames
    <2>1. program \in Programs
      BY <1>1 DEF WorkerInv, WorkerTypeOK, Live, Programs
    <2>2. f \in Frames /\ program.done \in Seq(Dispatches)
      BY <2>1 DEF Programs
    <2>3. d \in Dispatches
      BY <2>2 DEF Dispatches
    <2>4. QED
      BY <1>1, <2>1, <2>2, <2>3 DEF WorkerInv, Preview
  <1>3. /\ program' \in Programs /\ program'.frame = f /\ program'.done = Append(program.done, d)
    <2> HIDE DEF d
    <2>1. program' = [program EXCEPT !.done = Append(program.done, d)]
      BY <1>1
    <2>2. Append(program.done, d) \in Seq(Dispatches)
      BY <1>2
    <2>3. QED
      BY <1>2, <2>1, <2>2 DEF Programs
  <1>4. pending \in Seq(Commands) /\ Len(pending) \in Nat
    BY DEF WorkerInv, Preview
  <1>5. CASE ~StageInputs
    <2>1. pending' = <<>> /\ Len(pending') = 0 /\ pending' \in Seq(Commands)
      BY <1>5, EmptySeq DEF Event, WorkerInv, Preview
    <2>2. Preview' /\ PreviewIsTheTimeline'
      BY <1>1, <1>2, <1>3, <1>5, <2>1 DEF Preview, PreviewIsTheTimeline
    <2>3. program' \in Programs \cup {NoProgram} /\ clean' \in BOOLEAN
      BY <1>1, <1>3
    <2>4. \A i \in 1 .. Len(pending') : RowOf(pending'[i]) \in Inputs
      BY <2>1
    <2>5. QED
      BY <1>1, <2>2, <2>3, <2>4, PreviewKeepsJournal
  <1>6. CASE StageInputs
    <2>1. pending' = Append(pending, c)
      BY <1>6 DEF Event
    <2>2. position \in Nat /\ Track(edits, position)
      BY TrackFacts
    <2>3. /\ c \in Commands /\ c.kind = "input" /\ c.frame = f /\ c.event = e
          /\ c.revision = position + Len(pending) /\ RowOf(c) \in Inputs /\ Dispatched(c) = d
      <3>1. /\ c.kind = "input" /\ c.frame = f /\ c.event = e /\ c.revision = position + Len(pending)
        BY DEF InputCommand
      <3>2. position + Len(pending) \in Nat
        BY <1>4, <2>2
      <3>3. c \in Commands
        BY <1>2, <3>2 DEF InputCommand, Commands
      <3>4. RowOf(c) \in Inputs
        BY <1>2, <3>1, <3>2 DEF RowOf, Inputs
      <3>5. Dispatched(c) = d
        BY <3>1 DEF Dispatched
      <3>6. QED
        BY <3>1, <3>3, <3>4, <3>5
    <2> HIDE DEF c, d, f
    <2>4. /\ pending' \in Seq(Commands) /\ Len(pending') = Len(pending) + 1
          /\ \A i \in 1 .. Len(pending) : pending'[i] = pending[i]
          /\ pending'[Len(pending) + 1] = c
      BY <1>4, <2>1, <2>3
    <2>5. \A i \in 1 .. Len(pending') : RowOf(pending'[i]) \in Inputs
      BY <1>4, <2>3, <2>4 DEF WorkerInv, WorkerTypeOK
    <2>6. Staged
      BY <1>1, <1>6 DEF WorkerInv, Preview
    <2>7. Staged'
      <3>1. \A i \in 1 .. Len(pending') :
              /\ pending'[i].kind = "input" /\ pending'[i].frame = program'.frame
              /\ pending'[i].revision = position' + i - 1
        <4> TAKE i \in 1 .. Len(pending')
        <4>1. CASE i \in 1 .. Len(pending)
          <5>1. /\ pending[i].kind = "input" /\ pending[i].frame = program.frame
                /\ pending[i].revision = position + i - 1 /\ pending'[i] = pending[i]
            BY <2>4, <2>6, <4>1 DEF Staged
          <5>2. QED
            BY <1>1, <1>3, <5>1 DEF f
        <4>2. CASE i = Len(pending) + 1
          BY <1>1, <1>3, <1>4, <2>2, <2>3, <2>4, <4>2
        <4>3. QED
          BY <1>4, <2>4, <4>1, <4>2
      <3>2. /\ VisibleCount(edits', program'.frame) + Len(pending') <= MaxInputs
            /\ VisibleCount(edits', program'.frame) + Len(pending') <= MaxReplayInputs
        <4>1. /\ VisibleCount(edits, f) + Len(pending) + 1 <= MaxInputs
              /\ VisibleCount(edits, f) + Len(pending) + 1 <= MaxReplayInputs
          BY <1>1, <1>6 DEF StagingAdmits, f
        <4>2. VisibleCount(edits, f) \in 0 .. Len(edits) /\ Len(edits) \in Nat
          <5>1. f \in Int
            BY <1>2 DEF Frames
          <5>2. QED
            BY <2>2, <5>1, VisibleRows, RowFacts DEF Track
        <4>3. VisibleCount(edits, f) + Len(pending') = VisibleCount(edits, f) + Len(pending) + 1
          BY <1>4, <2>4, <4>2
        <4>4. edits' = edits /\ program'.frame = f
          BY <1>1, <1>3
        <4>5. QED
          BY <4>1, <4>3, <4>4
      <3>3. program'.done = FreshAt(program'.frame, edits').done \o DispatchedRows(pending')
        <4>1. FreshAt(f, edits).done \in Seq(Dispatches)
          BY <1>2, <2>2, FreshShape
        <4>2. \A i \in 1 .. Len(pending) : pending[i].kind = "input"
          BY <2>6 DEF Staged
        <4>3. DispatchedRows(pending) \in Seq(Dispatches)
          BY <1>4, <4>2, InputsDispatched
        <4>4. DispatchedRows(pending') = Append(DispatchedRows(pending), d)
          BY <1>4, <2>1, <2>3, <4>2, DispatchedAppend
        <4>5. program.done = FreshAt(f, edits).done \o DispatchedRows(pending)
          BY <2>6 DEF Staged, f
        <4>6. Append(FreshAt(f, edits).done \o DispatchedRows(pending), d)
                = FreshAt(f, edits).done \o Append(DispatchedRows(pending), d)
          <5> DEFINE u == FreshAt(f, edits).done
                     v == DispatchedRows(pending)
          <5>1. u \in Seq(Dispatches) /\ v \in Seq(Dispatches) /\ d \in Dispatches
            BY <1>2, <4>1, <4>3
          <5> HIDE DEF u, v
          <5>2. Append(u \o v, d) = u \o Append(v, d)
            BY <5>1, ConcatThenAppend
          <5>3. QED
            BY <5>2 DEF u, v
        <4>7. QED
          BY <1>1, <1>3, <4>4, <4>5, <4>6
      <3>4. QED
        BY <3>1, <3>2, <3>3 DEF Staged
    <2>8. Preview' /\ PreviewIsTheTimeline'
      BY <1>1, <1>2, <1>3, <1>6, <2>4, <2>7 DEF Preview, PreviewIsTheTimeline
    <2>9. QED
      BY <1>1, <1>3, <2>4, <2>5, <2>8, PreviewKeepsJournal
  <1>7. QED
    BY <1>5, <1>6

-----------------------------------------------------------------------------
(* Commands recorded and installed. *)

(* The track before the m-th of the entries a worker adds. *)
Before(entries, m) == IF m = 1 THEN edits ELSE RowsOf(entries[m - 1].state)

(* Entries that record commands admitted one after the other. *)
Continues(entries) ==
  \A m \in 1 .. Len(entries) :
    LET rows == RowsOf(entries[m].state)
        command == entries[m].command
    IN /\ PrepareAdmits(command, Before(entries, m), position + m - 1)
       /\ rows = Prepared(command, Before(entries, m))
       /\ Track(rows, position + m)
       /\ entries[m].state = EncodeState(position + m, rows, FreshAt(command.frame, rows))

(* The journal they are merged into is recorded throughout. *)
LEMMA Extended ==
  ASSUME WorkerInv, NEW entries \in Seq(Entries), Continues(entries),
         NEW j, j = Prefix(journal, position) \o entries
  PROVE  /\ j \in Seq(Entries) /\ Len(j) = position + Len(entries)
         /\ \A i \in 1 .. Len(j) : Recorded(j, i)
         /\ entries # <<>> => TrackAt(j, Len(j)) = RowsOf(entries[Len(entries)].state)
         /\ \A i \in 0 .. position : TrackAt(j, i) = TrackAt(journal, i)
         /\ \A m \in 1 .. Len(entries) : j[position + m] = entries[m]
  <1> DEFINE before == Prefix(journal, position)
             n == Len(entries)
  <1>1. /\ journal \in Seq(Entries) /\ position \in 0 .. Len(journal) /\ position \in Nat /\ n \in Nat
        /\ Len(journal) \in Nat
    BY TrackFacts DEF WorkerInv, Journal
  <1>2. /\ before \in Seq(Entries) /\ Len(before) = position
        /\ \A i \in 1 .. position : before[i] = journal[i]
    BY <1>1, PrefixOf
  <1> HIDE DEF before
  <1>3. /\ j \in Seq(Entries) /\ Len(j) = position + n
        /\ \A i \in 1 .. position + n : j[i] = IF i <= position THEN before[i] ELSE entries[i - position]
    <2>1. /\ before \o entries \in Seq(Entries) /\ Len(before \o entries) = Len(before) + Len(entries)
          /\ \A i \in 1 .. Len(before) + Len(entries) :
               (before \o entries)[i] = IF i <= Len(before) THEN before[i] ELSE entries[i - Len(before)]
      BY <1>2, ConcatProperties
    <2>2. j = before \o entries
      BY DEF before
    <2>3. QED
      BY <1>2, <2>1, <2>2
  <1>4. \A i \in 1 .. position : j[i] = journal[i]
    BY <1>1, <1>2, <1>3
  <1>5. \A m \in 1 .. n : j[position + m] = entries[m]
    <2> TAKE m \in 1 .. n
    <2>1. position + m \in 1 .. position + n /\ ~ (position + m <= position) /\ (position + m) - position = m
      BY <1>1
    <2>2. QED
      BY <1>3, <2>1
  <1>6. \A i \in 0 .. position : TrackAt(j, i) = TrackAt(journal, i)
    <2> TAKE i \in 0 .. position
    <2>1. i # 0 => i \in 1 .. position
      BY <1>1
    <2>2. QED
      BY <1>4, <2>1 DEF TrackAt
  <1>7. \A m \in 1 .. n : TrackAt(j, position + m) = RowsOf(entries[m].state)
    <2> TAKE m \in 1 .. n
    <2>1. position + m # 0
      BY <1>1
    <2>2. QED
      BY <1>5, <2>1 DEF TrackAt
  <1>8. \A m \in 1 .. n : TrackAt(j, (position + m) - 1) = Before(entries, m)
    <2> TAKE m \in 1 .. n
    <2>1. CASE m = 1
      <3>1. position \in 0 .. position /\ (position + m) - 1 = position
        BY <1>1, <2>1
      <3>2. TrackAt(j, position) = TrackAt(journal, position)
        BY <1>6, <3>1
      <3>3. QED
        BY <2>1, <3>1, <3>2 DEF Before, WorkerInv, Journal
    <2>2. CASE m # 1
      <3>1. m - 1 \in 1 .. n /\ (position + m) - 1 = position + (m - 1)
        BY <1>1, <2>2
      <3>2. TrackAt(j, position + (m - 1)) = RowsOf(entries[m - 1].state)
        BY <1>7, <3>1
      <3>3. QED
        BY <2>2, <3>1, <3>2 DEF Before
    <2>3. QED
      BY <2>1, <2>2
  <1>9. ASSUME NEW i \in 1 .. Len(j) PROVE Recorded(j, i)
    <2>1. CASE i \in 1 .. position
      <3>1. i \in 0 .. position /\ i - 1 \in 0 .. position /\ i \in 1 .. Len(journal)
        BY <1>1, <2>1
      <3>2. /\ j[i] = journal[i] /\ TrackAt(j, i) = TrackAt(journal, i)
            /\ TrackAt(j, i - 1) = TrackAt(journal, i - 1)
        BY <1>4, <1>6, <2>1, <3>1
      <3>3. Recorded(journal, i)
        BY <3>1 DEF WorkerInv, Journal
      <3>4. QED
        BY <3>2, <3>3 DEF Recorded
    <2>2. CASE i \notin 1 .. position
      <3> DEFINE m == i - position
      <3>1. m \in 1 .. n /\ i = position + m
        BY <1>1, <1>3, <2>2
      <3> HIDE DEF m
      <3>2. /\ j[i] = entries[m] /\ TrackAt(j, i) = RowsOf(entries[m].state)
            /\ TrackAt(j, i - 1) = Before(entries, m)
        BY <1>5, <1>7, <1>8, <3>1
      <3>3. /\ PrepareAdmits(entries[m].command, Before(entries, m), position + m - 1)
            /\ RowsOf(entries[m].state) = Prepared(entries[m].command, Before(entries, m))
            /\ Track(RowsOf(entries[m].state), position + m)
            /\ entries[m].state = EncodeState(position + m, RowsOf(entries[m].state),
                                     FreshAt(entries[m].command.frame, RowsOf(entries[m].state)))
        BY <3>1 DEF Continues
      <3>4. position + m = i /\ position + m - 1 = i - 1
        BY <1>1, <3>1
      <3>5. QED
        BY <3>2, <3>3, <3>4 DEF Recorded
    <2>3. QED
      BY <2>1, <2>2
  <1>10. ASSUME entries # <<>> PROVE TrackAt(j, Len(j)) = RowsOf(entries[n].state)
    <2>1. n \in 1 .. n
      BY <1>1, <1>10, EmptySeq
    <2>2. QED
      BY <1>3, <1>7, <2>1
  <1>11. QED
    BY <1>3, <1>5, <1>6, <1>9, <1>10

(* What a command at frame f adds and installs. *)
Adds(f, p, rows, entries, at) ==
  /\ Serving
  /\ p \in Programs /\ entries \in Seq(Entries) /\ at \in Frames
  /\ Install(p, rows, entries, at)
  /\ entries # <<>> /\ Continues(entries) /\ position + Len(entries) <= MaxEntries
  /\ rows = RowsOf(entries[Len(entries)].state)
  /\ p.frame <= MaxReplayFrames /\ p = FreshAt(p.frame, rows)
  /\ \A m \in 1 .. Len(entries) : entries[m].command.frame = f

(* What a worker installs is shown anew from the track the journal now ends with. *)
LEMMA InstallInv ==
  ASSUME WorkerInv, NEW f \in Frames, \E p, rows, entries, at : Adds(f, p, rows, entries, at)
  PROVE  WorkerInv'
  <1>0. PICK p, rows, entries, at : Adds(f, p, rows, entries, at)
    OBVIOUS
  <1> USE <1>0 DEF Adds
  <1> DEFINE n == Len(entries)
  <1>1. n \in Nat /\ position \in Nat /\ n \in 1 .. n
    BY TrackFacts, EmptySeq
  <1>2. /\ program' = p /\ edits' = rows /\ clean' = TRUE /\ pending' = <<>> /\ Len(pending') = 0
        /\ position' = position + n /\ lastCheckpoint' = at
        /\ journal' = Prefix(journal, position) \o entries
        /\ phase' = phase /\ crashes' = crashes
    BY DEF Install
  <1>3. /\ journal' \in Seq(Entries) /\ Len(journal') = position + n
        /\ \A i \in 1 .. Len(journal') : Recorded(journal', i)
        /\ TrackAt(journal', Len(journal')) = rows
    BY <1>2, Extended
  <1>4. reuse' = position + n
    BY <1>3 DEF Install
  <1>5. Track(rows, position + n)
    BY <1>1 DEF Continues
  <1>6. Journal'
    BY <1>2, <1>3 DEF Journal, Recorded, TrackAt
  <1>7. p.frame \in Frames /\ p # NoProgram
    <2>1. p.frame \in Frames
      BY DEF Programs
    <2>2. QED
      BY <2>1 DEF Frames, NoProgram, NoFrame
  <1>8. Unedited'
    BY <1>2, <1>5, <1>7 DEF Unedited
  <1>9. Preview' /\ PreviewIsTheTimeline'
    BY <1>8, CleanPreview, PTL
  <1>10. WorkerTypeOK'
    <2>1. rows \in Seq(Inputs) /\ Len(rows) <= MaxInputs
      BY <1>5 DEF Track
    <2>2. /\ phase' = "serving" /\ clean' \in BOOLEAN /\ crashes' \in 0 .. MaxCrashes
          /\ lastCheckpoint' \in Frames \cup {NoFrame}
      BY <1>2 DEF WorkerInv, WorkerTypeOK, Serving
    <2>3. /\ reuse' \in 0 .. Len(journal') /\ position' \in 0 .. reuse' /\ position' = reuse'
          /\ Len(journal') <= MaxEntries
      BY <1>1, <1>2, <1>3, <1>4
    <2>4. \A i \in 1 .. Len(pending') : RowOf(pending'[i]) \in Inputs
      BY <1>2
    <2>5. program' \in [frame : Frames, done : Seq(Dispatches)] \cup {NoProgram}
      BY <1>2 DEF Programs
    <2>6. QED
      BY <1>2, <2>1, <2>2, <2>3, <2>4, <2>5 DEF WorkerTypeOK, Serving
  <1>11. phase' = "serving"
    BY <1>2 DEF Serving
  <1>12. QED
    BY <1>6, <1>9, <1>10, <1>11 DEF WorkerInv, OwnJournalReplays

(* One command recorded. *)
LEMMA RecordAdds ==
  ASSUME WorkerInv, NEW c \in Commands, Record(c)
  PROVE  \E p, rows, entries, at : Adds(c.frame, p, rows, entries, at)
  <1> DEFINE rows == Prepared(c, edits)
             f == c.frame
             p == FreshAt(f, rows)
             checkpoint == TakesCheckpoint(c)
             entry == Entry(c, checkpoint, EncodeState(position + 1, rows, p))
             at == IF checkpoint THEN f ELSE lastCheckpoint
  <1>1. /\ Serving /\ PrepareAdmits(c, edits, position) /\ position < MaxEntries
        /\ Install(p, rows, <<entry>>, at)
    BY DEF Record
  <1>2. position \in Nat /\ Track(edits, position) /\ f \in Frames
    BY TrackFacts, CommandFacts
  <1>3. Track(rows, position + 1)
    BY <1>1, <1>2, PreparedTrack
  <1>4. p \in Programs /\ p.frame = f /\ rows \in Seq(Inputs)
    BY <1>2, <1>3, FreshShape DEF Programs, Track
  <1>5. position + 1 \in Nat
    BY <1>2
  <1> HIDE DEF rows, p
  <1>6. /\ EncodeState(position + 1, rows, p) \in States
        /\ RowsOf(EncodeState(position + 1, rows, p)) = rows
    BY <1>4, <1>5, EncodeFacts
  <1>7. checkpoint \in BOOLEAN
    BY DEF TakesCheckpoint
  <1>8. at \in Frames
    BY <1>2 DEF TakesCheckpoint, WorkerInv, WorkerTypeOK
  <1> HIDE DEF checkpoint, at
  <1>9. entry \in Entries /\ entry.command = c /\ entry.state = EncodeState(position + 1, rows, p)
    BY <1>6, <1>7 DEF Entry, Entries
  <1> HIDE DEF entry
  <1>10. /\ <<entry>> \in Seq(Entries) /\ Len(<<entry>>) = 1 /\ <<entry>>[1] = entry /\ <<entry>> # <<>>
    BY <1>9
  <1>11. Continues(<<entry>>)
    <2>1. ASSUME NEW m \in 1 .. Len(<<entry>>)
          PROVE  m = 1 /\ position + m = position + 1 /\ position + m - 1 = position
      BY <1>2, <1>10
    <2>2. Before(<<entry>>, 1) = edits
      BY DEF Before
    <2>3. /\ RowsOf(entry.state) = rows /\ rows = Prepared(c, edits)
          /\ EncodeState(position + 1, rows, p) = EncodeState(position + 1, rows, FreshAt(c.frame, rows))
      BY <1>6, <1>9 DEF rows, p
    <2>4. QED
      BY <1>1, <1>3, <1>9, <1>10, <2>1, <2>2, <2>3 DEF Continues
  <1>12. position + 1 <= MaxEntries
    BY <1>1, <1>2, ConfigFacts
  <1>13. p.frame <= MaxReplayFrames /\ p = FreshAt(p.frame, rows)
    BY <1>1, <1>4 DEF PrepareAdmits, p
  <1>14. rows = RowsOf(<<entry>>[Len(<<entry>>)].state)
    BY <1>6, <1>9, <1>10
  <1>15. at \in Frames
    BY <1>8 DEF at
  <1>16. position + Len(<<entry>>) <= MaxEntries
    BY <1>10, <1>12
  <1>17. \A m \in 1 .. Len(<<entry>>) : <<entry>>[m].command.frame = c.frame
    BY <1>9, <1>10
  <1>18. Adds(c.frame, p, rows, <<entry>>, at)
    BY <1>1, <1>4, <1>8, <1>10, <1>11, <1>13, <1>14, <1>16, <1>17 DEF Adds
  <1>19. QED
    BY <1>18

-----------------------------------------------------------------------------
(* Staged inputs saved: service/pending.rs. *)

(* The track after one more staged input. *)
BatchStep(before, n) ==
  LET ok == before.admitted /\ PrepareAdmits(pending[n], before.rows, position + n - 1)
  IN [admitted |-> ok,
      rows |-> IF ok THEN Prepared(pending[n], before.rows) ELSE before.rows]

(* The recursion of a batch, from the committed track through every staged input. *)
LEMMA BatchUnfold ==
  ASSUME pending \in Seq(Commands)
  PROVE  /\ Batch[0] = [admitted |-> TRUE, rows |-> edits]
         /\ \A n \in 1 .. Len(pending) : Batch[n] = BatchStep(Batch[n - 1], n)
  <1> DEFINE At(g, n) == IF n = 0 THEN [admitted |-> TRUE, rows |-> edits] ELSE BatchStep(g[n - 1], n)
             Fits(g, m) == g = [n \in 0 .. m |-> At(g, n)]
             Missing == {m \in 0 .. Len(pending) : \A g : ~ Fits(g, m)}
  <1>1. Len(pending) \in Nat
    OBVIOUS
  <1>2. 0 \notin Missing
    <2>1. Fits([n \in 0 .. 0 |-> [admitted |-> TRUE, rows |-> edits]], 0)
      <3>1. \A n \in 0 .. 0 : n = 0
        OBVIOUS
      <3>2. QED
        BY <3>1
    <2>2. QED
      BY <2>1
  <1>3. ASSUME NEW m \in 0 .. Len(pending), m - 1 \in 0 .. Len(pending), m - 1 \notin Missing
        PROVE  m \notin Missing
    <2>1. PICK g : Fits(g, m - 1)
      BY <1>3
    <2> DEFINE h == [n \in 0 .. m |-> IF n = m THEN At(g, m) ELSE g[n]]
    <2>2. m \in Nat /\ m >= 1
      BY <1>1, <1>3
    <2>3. \A n \in 0 .. m - 1 : g[n] = At(g, n) /\ h[n] = g[n]
      <3> TAKE n \in 0 .. m - 1
      <3>1. g[n] = At(g, n)
        <4> HIDE DEF At
        <4>1. QED
          BY <2>1
      <3>2. n \in 0 .. m /\ n # m
        BY <2>2
      <3>3. h[n] = g[n]
        <4> HIDE DEF At
        <4>1. QED
          BY <3>2
      <3>4. QED
        BY <3>1, <3>3
    <2>4. \A n \in 0 .. m : h[n] = At(h, n)
      <3> TAKE n \in 0 .. m
      <3>1. CASE n = 0
        <4>1. 0 \in 0 .. m - 1 /\ At(g, 0) = At(h, 0)
          BY <2>2
        <4>2. QED
          BY <2>3, <3>1, <4>1
      <3>2. CASE n # 0
        <4>1. n - 1 \in 0 .. m - 1 /\ (n # m => n \in 0 .. m - 1)
          BY <2>2, <3>2
        <4>2. h[n - 1] = g[n - 1]
          BY <2>3, <4>1
        <4>3. At(h, n) = At(g, n)
          BY <3>2, <4>2
        <4>4. h[n] = At(g, n)
          BY <2>3, <4>1
        <4>5. QED
          BY <4>3, <4>4
      <3>3. QED
        BY <3>1, <3>2
    <2>5. Fits(h, m)
      BY <2>4
    <2>6. QED
      BY <2>5
  <1>4. Missing = {}
    <2> SUFFICES ASSUME Missing # {} PROVE FALSE
      OBVIOUS
    <2>1. Missing \subseteq Nat
      BY <1>1
    <2>2. PICK m \in Missing : \A k \in Missing : m <= k
      BY <2>1, LeastNat
    <2>3. m \in 0 .. Len(pending) /\ m # 0
      BY <1>2
    <2>4. m - 1 \in 0 .. Len(pending) /\ ~ (m <= m - 1)
      BY <1>1, <2>3
    <2>5. m - 1 \notin Missing
      BY <2>2, <2>4
    <2>6. QED
      BY <1>3, <2>3, <2>4, <2>5
  <1>5. \E g : Fits(g, Len(pending))
    BY <1>1, <1>4
  <1>6. Batch = CHOOSE g : Fits(g, Len(pending))
    BY DEF Batch, BatchStep
  <1>7. Fits(Batch, Len(pending))
    BY <1>5, <1>6
  <1>8. \A n \in 0 .. Len(pending) : Batch[n] = At(Batch, n)
    BY <1>7
  <1>9. 0 \in 0 .. Len(pending) /\ \A n \in 1 .. Len(pending) : n \in 0 .. Len(pending) /\ n # 0
    BY <1>1
  <1>10. QED
    BY <1>8, <1>9

(* What a batch holds after n staged inputs: every one was admitted, and its row  *)
(* follows the committed rows up to the frame on display.                         *)
BatchHolds(n) ==
  LET rows == Batch[n].rows
      f == program.frame
      v == VisibleCount(edits, f)
  IN /\ Batch[n].admitted
     /\ Track(rows, position + n)
     /\ VisibleCount(rows, f) = v + n
     /\ \A i \in 1 .. v : rows[i] = edits[i]
     /\ \A m \in 1 .. n : rows[v + m] = RowOf(pending[m])
     /\ n # 0 => /\ PrepareAdmits(pending[n], Batch[n - 1].rows, position + n - 1)
                 /\ rows = Prepared(pending[n], Batch[n - 1].rows)

(* The types of what is on display with inputs staged for it. *)
LEMMA StagedFacts ==
  ASSUME WorkerInv, pending # <<>>, Live
  PROVE  /\ Staged /\ pending \in Seq(Commands) /\ Len(pending) \in Nat /\ Len(pending) >= 1
         /\ \A i \in 1 .. Len(pending) :
              /\ pending[i] \in Commands /\ pending[i].kind = "input" /\ pending[i].frame = program.frame
              /\ pending[i].revision = position + i - 1 /\ RowOf(pending[i]) \in Inputs
         /\ program \in Programs /\ program.frame \in Frames /\ program.frame \in Int
         /\ program.frame <= MaxReplayFrames
         /\ VisibleCount(edits, program.frame) \in 0 .. Len(edits) /\ Len(edits) \in Nat
         /\ position \in Nat /\ Track(edits, position)
  <1>1. Staged /\ pending \in Seq(Commands) /\ program.frame <= MaxReplayFrames
    BY DEF WorkerInv, Preview
  <1>2. Len(pending) \in Nat /\ Len(pending) >= 1
    BY <1>1, EmptySeq
  <1>3. \A i \in 1 .. Len(pending) :
              /\ pending[i] \in Commands /\ pending[i].kind = "input" /\ pending[i].frame = program.frame
              /\ pending[i].revision = position + i - 1 /\ RowOf(pending[i]) \in Inputs
    <2>1. \A i \in 1 .. Len(pending) : pending[i] \in Commands
      BY <1>1, ElementOfSeq
    <2>2. QED
      BY <1>1, <2>1 DEF Staged, WorkerInv, WorkerTypeOK
  <1>4. program \in Programs /\ program.frame \in Frames /\ program.frame \in Int
    <2>1. program \in Programs
      BY DEF WorkerInv, WorkerTypeOK, Live, Programs
    <2>2. QED
      BY <2>1 DEF Programs, Frames
  <1>5. position \in Nat /\ Track(edits, position)
    BY TrackFacts
  <1>6. VisibleCount(edits, program.frame) \in 0 .. Len(edits) /\ Len(edits) \in Nat
    BY <1>4, <1>5, VisibleRows, RowFacts DEF Track
  <1>7. QED
    BY <1>1, <1>2, <1>3, <1>4, <1>5, <1>6

(* One more staged input is admitted behind those before it. *)
LEMMA BatchGrows ==
  ASSUME WorkerInv, pending # <<>>, Live, NEW n \in 1 .. Len(pending), BatchHolds(n - 1)
  PROVE  BatchHolds(n)
  <1> DEFINE f == program.frame
             v == VisibleCount(edits, f)
             k == n - 1
             rows == Batch[k].rows
             c == pending[n]
  <1>1. /\ n \in Nat /\ k \in Nat /\ n = k + 1 /\ n <= Len(pending) /\ position \in Nat
        /\ v \in Nat /\ position + n - 1 = position + k
        /\ position + k \in Nat /\ (position + k) + 1 = position + n
    BY StagedFacts
  <1>2. /\ c \in Commands /\ c.kind = "input" /\ c.frame = f /\ c.revision = position + k
        /\ f \in Frames /\ f <= MaxReplayFrames
    BY <1>1, StagedFacts
  <1>3. /\ Batch[k].admitted /\ Track(rows, position + k) /\ VisibleCount(rows, f) = v + k
        /\ \A i \in 1 .. v : rows[i] = edits[i]
        /\ \A m \in 1 .. k : rows[v + m] = RowOf(pending[m])
    BY DEF BatchHolds
  <1>4. v + n <= MaxInputs /\ v + n <= MaxReplayInputs
    <2>1. /\ v + Len(pending) <= MaxInputs /\ v + Len(pending) <= MaxReplayInputs
          /\ Len(pending) \in Nat
      BY StagedFacts DEF Staged
    <2>2. QED
      BY <1>1, <2>1, ConfigFacts
  <1> HIDE DEF k, c, v, f, rows
  <1>5. Keep(rows, c.frame) = v + k
    BY <1>2, <1>3 DEF Keep
  <1>6. AppendAdmits(c, rows, position + k)
    BY <1>1, <1>2, <1>4, <1>5, ConfigFacts DEF AppendAdmits
  <1>7. /\ Track(AppendRow(c, rows), (position + k) + 1)
        /\ VisibleCount(AppendRow(c, rows), c.frame) = v + k + 1
        /\ AppendRow(c, rows)[v + k + 1] = RowOf(c)
        /\ \A i \in 1 .. v + k : AppendRow(c, rows)[i] = rows[i]
    <2>1. /\ Track(AppendRow(c, rows), (position + k) + 1)
          /\ VisibleCount(AppendRow(c, rows), c.frame) = Keep(rows, c.frame) + 1
          /\ AppendRow(c, rows)[Keep(rows, c.frame) + 1] = RowOf(c)
          /\ \A i \in 1 .. Keep(rows, c.frame) : AppendRow(c, rows)[i] = rows[i]
      BY <1>1, <1>2, <1>3, <1>6, AppendTrack
    <2>2. QED
      BY <1>5, <2>1
  <1>8. Prepared(c, rows) = AppendRow(c, rows)
    BY <1>2 DEF Prepared
  <1>9. PrepareAdmits(c, rows, position + k)
    <2>1. VisibleCount(Prepared(c, rows), c.frame) <= MaxReplayInputs
      <3>1. VisibleCount(Prepared(c, rows), c.frame) = v + n
        BY <1>1, <1>7, <1>8
      <3>2. QED
        BY <1>4, <3>1
    <2>2. QED
      BY <1>2, <1>6, <2>1 DEF PrepareAdmits
  <1>10. Batch[n] = [admitted |-> TRUE, rows |-> AppendRow(c, rows)]
    <2>1. Batch[n] = BatchStep(Batch[n - 1], n)
      BY StagedFacts, BatchUnfold
    <2>2. Batch[k].admitted /\ PrepareAdmits(pending[n], Batch[k].rows, position + n - 1)
      BY <1>1, <1>3, <1>9 DEF c, rows
    <2>3. BatchStep(Batch[k], n) = [admitted |-> TRUE, rows |-> Prepared(pending[n], Batch[k].rows)]
      BY <2>2 DEF BatchStep
    <2>4. QED
      BY <1>8, <2>1, <2>3 DEF k, c, rows
  <1> DEFINE new == AppendRow(c, rows)
  <1>11. Batch[n].admitted = TRUE /\ Batch[n].rows = new
    BY <1>10
  <1> HIDE DEF new
  <1>12. Track(new, position + n) /\ VisibleCount(new, f) = v + n
    BY <1>1, <1>2, <1>7 DEF new
  <1>13. \A i \in 1 .. v : new[i] = edits[i]
    <2> TAKE i \in 1 .. v
    <2>1. i \in 1 .. v + k
      BY <1>1
    <2>2. QED
      BY <1>3, <1>7, <2>1 DEF new
  <1>14. \A m \in 1 .. n : new[v + m] = RowOf(pending[m])
    <2> TAKE m \in 1 .. n
    <2>1. CASE m = n
      <3>1. v + m = v + k + 1
        BY <1>1, <2>1
      <3>2. QED
        BY <1>7, <2>1, <3>1 DEF new, c
    <2>2. CASE m # n
      <3>1. m \in 1 .. k /\ v + m \in 1 .. v + k
        BY <1>1, <2>2
      <3>2. QED
        BY <1>3, <1>7, <3>1 DEF new
    <2>3. QED
      BY <2>1, <2>2
  <1>15. /\ PrepareAdmits(pending[n], Batch[n - 1].rows, position + n - 1)
         /\ new = Prepared(pending[n], Batch[n - 1].rows)
    BY <1>1, <1>8, <1>9 DEF c, rows, k, new
  <1>16. QED
    BY <1>11, <1>12, <1>13, <1>14, <1>15 DEF BatchHolds, v, f

(* So are they all. *)
LEMMA BatchIs ==
  ASSUME WorkerInv, pending # <<>>, Live
  PROVE  \A n \in 0 .. Len(pending) : BatchHolds(n)
  <1> DEFINE Missing == {n \in 0 .. Len(pending) : ~ BatchHolds(n)}
  <1>1. Len(pending) \in Nat
    BY StagedFacts
  <1>2. BatchHolds(0)
    <2>1. Batch[0] = [admitted |-> TRUE, rows |-> edits]
      BY StagedFacts, BatchUnfold
    <2>2. Batch[0].admitted = TRUE /\ Batch[0].rows = edits
      BY <2>1
    <2>3. /\ position + 0 = position
          /\ VisibleCount(edits, program.frame) + 0 = VisibleCount(edits, program.frame)
      BY StagedFacts
    <2>4. Track(edits, position)
      BY TrackFacts
    <2>5. QED
      BY <2>2, <2>3, <2>4 DEF BatchHolds
  <1>3. Missing = {}
    <2> SUFFICES ASSUME Missing # {} PROVE FALSE
      OBVIOUS
    <2>1. Missing \in SUBSET Nat
      BY <1>1
    <2>2. PICK n \in Missing : \A k \in Missing : n <= k
      BY <2>1, LeastNat
    <2>3. n \in 1 .. Len(pending) /\ n - 1 \in 0 .. Len(pending) /\ ~ (n <= n - 1)
      <3>1. n \in 0 .. Len(pending) /\ n # 0
        BY <1>2, <2>2
      <3>2. QED
        BY <1>1, <3>1
    <2>4. BatchHolds(n - 1)
      BY <2>2, <2>3
    <2>5. QED
      BY <2>2, <2>3, <2>4, BatchGrows
  <1>4. QED
    BY <1>3

(* The execution a save re-runs is that of the track it records. *)
LEMMA BatchShows ==
  ASSUME WorkerInv, pending # <<>>, Live, NEW n \in 0 .. Len(pending)
  PROVE  FreshAt(program.frame, Batch[n].rows) = BatchProgram(program.frame, n)
  <1> DEFINE f == program.frame
             v == VisibleCount(edits, f)
             rows == Batch[n].rows
             a == DispatchedRows(Prefix(edits, v))
             b == DispatchedRows(Prefix(pending, n))
             c == DispatchedRows(Prefix(rows, v + n))
  <1>1. /\ n \in Nat /\ n \in 0 .. Len(pending) /\ f \in Frames /\ f \in Int /\ v \in Nat /\ v \in 0 .. Len(edits)
        /\ Track(edits, position) /\ pending \in Seq(Commands) /\ v + n \in Nat
    BY StagedFacts
  <1>2. /\ Track(rows, position + n) /\ VisibleCount(rows, f) = v + n
        /\ \A i \in 1 .. v : rows[i] = edits[i]
        /\ \A m \in 1 .. n : rows[v + m] = RowOf(pending[m])
    BY BatchIs DEF BatchHolds
  <1>3. FreshAt(f, edits) = [frame |-> f, done |-> a]
    BY <1>1, FreshShape
  <1>4. FreshAt(f, rows) = [frame |-> f, done |-> c]
    BY <1>1, <1>2, FreshShape
  <1>5. /\ a \in Seq(Dispatches) /\ Len(a) = v /\ \A i \in 1 .. v : a[i] = Dispatched(edits[i])
    <2>1. /\ Prefix(edits, v) \in Seq(Inputs) /\ Len(Prefix(edits, v)) = v
          /\ \A i \in 1 .. v : Prefix(edits, v)[i] = edits[i]
      BY <1>1, PrefixOf DEF Track
    <2>2. QED
      BY <2>1, InputsCarry, DispatchedFacts
  <1>6. /\ b \in Seq(Dispatches) /\ Len(b) = n /\ \A i \in 1 .. n : b[i] = Dispatched(pending[i])
    <2>1. /\ Prefix(pending, n) \in Seq(Commands) /\ Len(Prefix(pending, n)) = n
          /\ \A i \in 1 .. n : Prefix(pending, n)[i] = pending[i]
      BY <1>1, PrefixOf
    <2>2. \A i \in 1 .. Len(Prefix(pending, n)) : Prefix(pending, n)[i].kind = "input"
      <3> TAKE i \in 1 .. Len(Prefix(pending, n))
      <3>1. i \in 1 .. n
        BY <2>1
      <3>2. i \in 1 .. Len(pending)
        BY <1>1, <3>1, StagedFacts
      <3>3. QED
        BY <2>1, <3>1, <3>2, StagedFacts
    <2>3. QED
      BY <2>1, <2>2, InputsDispatched
  <1>7. /\ c \in Seq(Dispatches) /\ Len(c) = v + n /\ \A i \in 1 .. v + n : c[i] = Dispatched(rows[i])
    <2>1. v + n \in 0 .. Len(rows) /\ rows \in Seq(Inputs)
      BY <1>1, <1>2, VisibleRows DEF Track
    <2>2. /\ Prefix(rows, v + n) \in Seq(Inputs) /\ Len(Prefix(rows, v + n)) = v + n
          /\ \A i \in 1 .. v + n : Prefix(rows, v + n)[i] = rows[i]
      BY <2>1, PrefixOf
    <2>3. QED
      BY <2>2, InputsCarry, DispatchedFacts
  <1> HIDE DEF a, b, c, v, rows
  <1>8. /\ a \o b \in Seq(Dispatches) /\ Len(a \o b) = v + n
        /\ \A i \in 1 .. v + n : (a \o b)[i] = IF i <= v THEN a[i] ELSE b[i - v]
    <2>1. /\ a \o b \in Seq(Dispatches) /\ Len(a \o b) = Len(a) + Len(b)
          /\ \A i \in 1 .. Len(a) + Len(b) : (a \o b)[i] = IF i <= Len(a) THEN a[i] ELSE b[i - Len(a)]
      BY <1>5, <1>6, ConcatProperties
    <2>2. QED
      BY <1>5, <1>6, <2>1
  <1>9. \A i \in 1 .. v + n : c[i] = (a \o b)[i]
    <2> TAKE i \in 1 .. v + n
    <2>1. CASE i <= v
      <3>1. i \in 1 .. v
        BY <1>1, <2>1
      <3>2. QED
        BY <1>2, <1>5, <1>7, <1>8, <2>1, <3>1
    <2>2. CASE ~ (i <= v)
      <3>1. i - v \in 1 .. n /\ v + (i - v) = i
        BY <1>1, <2>2
      <3>2. rows[v + (i - v)] = RowOf(pending[i - v])
        BY <1>2, <3>1
      <3>3. Dispatched(RowOf(pending[i - v])) = Dispatched(pending[i - v])
        BY DEF Dispatched, RowOf
      <3>4. c[i] = Dispatched(rows[i])
        BY <1>7
      <3>5. b[i - v] = Dispatched(pending[i - v])
        BY <1>6, <3>1
      <3>6. (a \o b)[i] = b[i - v]
        BY <1>8, <2>2
      <3>7. QED
        BY <3>1, <3>2, <3>3, <3>4, <3>5, <3>6
    <2>3. QED
      BY <2>1, <2>2
  <1>10. c = a \o b
    BY <1>7, <1>8, <1>9, SeqEqual
  <1>11. FreshAt(f, edits).done = a
    BY <1>3
  <1>12. BatchProgram(f, n) = [frame |-> f, done |-> a \o b]
    BY <1>11 DEF BatchProgram, b
  <1>13. QED
    BY <1>4, <1>10, <1>12 DEF rows

(* What is staged passes the tests of a save but those for bytes. *)
LEMMA StagedIsAdmissible == WorkerInv => PendingIsAdmissible
  <1> SUFFICES ASSUME WorkerInv, Serving, pending # <<>>, Live PROVE SaveAdmits(program.frame)
    BY DEF PendingIsAdmissible
  <1> DEFINE f == program.frame
             n == Len(pending)
  <1>1. n \in Nat /\ n \in 0 .. n /\ pending \in Seq(Commands) /\ Staged /\ program \in Programs
    BY StagedFacts
  <1>2. BatchHolds(n)
    BY <1>1, BatchIs
  <1>3. Batch[n].admitted
    BY <1>2 DEF BatchHolds
  <1>4. VisibleCount(Batch[n].rows, f) <= MaxReplayInputs
    BY <1>1, <1>2 DEF BatchHolds, Staged
  <1>5. \A i \in 1 .. n : pending[i].frame = f
    BY <1>1 DEF Staged
  <1>6. BatchProgram(f, n) = program
    <2>1. Prefix(pending, n) = pending
      <3>1. /\ Prefix(pending, n) \in Seq(Commands) /\ Len(Prefix(pending, n)) = n
            /\ \A i \in 1 .. n : Prefix(pending, n)[i] = pending[i]
        BY <1>1, PrefixOf
      <3>2. QED
        BY <1>1, <3>1, SeqEqual
    <2>2. program.done = FreshAt(f, edits).done \o DispatchedRows(pending)
      BY <1>1 DEF Staged
    <2>3. program = [frame |-> program.frame, done |-> program.done]
      BY <1>1 DEF Programs
    <2>4. QED
      BY <2>1, <2>2, <2>3 DEF BatchProgram
  <1>7. QED
    BY <1>3, <1>4, <1>5, <1>6 DEF SaveAdmits

(* What an entry is made of. *)
LEMMA EntryFacts ==
  ASSUME NEW c \in Commands, NEW checkpoint \in BOOLEAN, NEW state \in States
  PROVE  /\ Entry(c, checkpoint, state) \in Entries
         /\ Entry(c, checkpoint, state).command = c
         /\ Entry(c, checkpoint, state).state = state
  BY DEF Entry, Entries

(* The inputs of a batch and the seek that seals it are recorded one by one. *)
LEMMA SaveAdds ==
  ASSUME WorkerInv, NEW f \in Frames, Save(f)
  PROVE  \E p, rows, entries, at : Adds(f, p, rows, entries, at)
  <1> DEFINE n == Len(pending)
             State(i, at) == EncodeState(at, Batch[i].rows, BatchProgram(f, i))
             batch == [i \in 1 .. n |-> Entry(pending[i], FALSE, State(i, position + i))]
             seek == Entry(SeekCommand(f), TRUE, State(n, position + n + 1))
             entries == Append(batch, seek)
             p == BatchProgram(f, n)
             rows == Batch[n].rows
  <1>1. /\ Serving /\ pending # <<>> /\ Live /\ program.frame = f /\ SaveAdmits(f)
        /\ position + n < MaxEntries /\ Install(p, rows, entries, f)
    BY DEF Save, SavesPending, SeekCommand
  <1>2. /\ n \in Nat /\ n >= 1 /\ position \in Nat /\ n \in 0 .. n
        /\ \A i \in 1 .. n : pending[i] \in Commands /\ pending[i].frame = f
        /\ f <= MaxReplayFrames
    BY <1>1, StagedFacts
  <1>3. ASSUME NEW i \in 0 .. n
        PROVE  /\ Track(Batch[i].rows, position + i) /\ Batch[i].rows \in Seq(Inputs)
               /\ BatchProgram(f, i) = FreshAt(f, Batch[i].rows)
               /\ BatchProgram(f, i) \in Programs /\ BatchProgram(f, i).frame = f
               /\ i # 0 => /\ PrepareAdmits(pending[i], Batch[i - 1].rows, position + i - 1)
                           /\ Batch[i].rows = Prepared(pending[i], Batch[i - 1].rows)
    <2>1. BatchHolds(i)
      BY <1>1, BatchIs
    <2>2. Track(Batch[i].rows, position + i)
      BY <2>1 DEF BatchHolds
    <2>3. BatchProgram(f, i) = FreshAt(f, Batch[i].rows)
      BY <1>1, BatchShows
    <2>4. BatchProgram(f, i) \in Programs /\ BatchProgram(f, i).frame = f
      BY <2>2, <2>3, FreshShape DEF Programs
    <2>5. QED
      BY <2>1, <2>2, <2>3, <2>4 DEF BatchHolds, Track
  <1>4. ASSUME NEW i \in 0 .. n, NEW at \in Nat
        PROVE  State(i, at) \in States /\ RowsOf(State(i, at)) = Batch[i].rows
    BY <1>3, EncodeFacts
  <1>5. Batch[0].rows = edits
    <2>1. Batch[0] = [admitted |-> TRUE, rows |-> edits]
      BY <1>1, StagedFacts, BatchUnfold
    <2>2. QED
      BY <2>1
  <1>6. ASSUME NEW i \in 1 .. n
        PROVE  /\ batch[i] \in Entries /\ batch[i].command = pending[i]
               /\ batch[i].state = State(i, position + i)
    <2>1. i \in 0 .. n /\ position + i \in Nat
      BY <1>2
    <2>2. State(i, position + i) \in States
      BY <1>4, <2>1
    <2> HIDE DEF State
    <2>3. batch[i] = Entry(pending[i], FALSE, State(i, position + i))
      OBVIOUS
    <2>4. pending[i] \in Commands /\ FALSE \in BOOLEAN
      BY <1>2
    <2> HIDE DEF batch
    <2> DEFINE e == Entry(pending[i], FALSE, State(i, position + i))
    <2>5. e \in Entries /\ e.command = pending[i] /\ e.state = State(i, position + i)
      BY <2>2, <2>4, EntryFacts, Zenon
    <2>6. batch[i] = e
      BY <2>3
    <2> HIDE DEF e
    <2>7. QED
      BY <2>5, <2>6
  <1>7. /\ seek \in Entries /\ seek.command = SeekCommand(f) /\ seek.state = State(n, position + n + 1)
    <2>1. position + n + 1 \in Nat
      BY <1>2
    <2>2. State(n, position + n + 1) \in States
      BY <1>2, <1>4, <2>1
    <2> HIDE DEF State
    <2>3. SeekCommand(f) \in Commands /\ TRUE \in BOOLEAN
      BY DEF SeekCommand, Commands
    <2>4. QED
      BY <2>2, <2>3, EntryFacts
  <1>8. batch \in Seq(Entries) /\ Len(batch) = n
    <2>1. batch \in [1 .. n -> Entries]
      BY <1>6
    <2> HIDE DEF batch
    <2>2. QED
      BY <1>2, <2>1
  <1> HIDE DEF n, batch, seek, State, p, rows
  <1>9. /\ entries \in Seq(Entries) /\ Len(entries) = n + 1 /\ entries # <<>>
        /\ \A i \in 1 .. n : entries[i] = batch[i]
        /\ entries[n + 1] = seek
    <2>1. /\ Append(batch, seek) \in Seq(Entries) /\ Len(Append(batch, seek)) = n + 1
          /\ \A i \in 1 .. n : Append(batch, seek)[i] = batch[i]
          /\ Append(batch, seek)[n + 1] = seek
      BY <1>2, <1>7, <1>8
    <2>2. n + 1 # 0
      BY <1>2
    <2>3. QED
      BY <2>1, <2>2, EmptySeq
  <1> HIDE DEF entries
  <1>10. ASSUME NEW m \in 1 .. n + 1
         PROVE  Before(entries, m) = Batch[m - 1].rows
    <2>1. CASE m = 1
      BY <1>5, <2>1 DEF Before
    <2>2. CASE m # 1
      <3>1. m - 1 \in 1 .. n /\ m - 1 \in 0 .. n /\ position + (m - 1) \in Nat
        BY <1>2, <2>2
      <3>2. entries[m - 1].state = State(m - 1, position + (m - 1))
        BY <1>6, <1>9, <3>1
      <3>3. RowsOf(State(m - 1, position + (m - 1))) = Batch[m - 1].rows
        BY <1>4, <3>1
      <3>4. QED
        BY <2>2, <3>2, <3>3 DEF Before
    <2>3. QED
      BY <2>1, <2>2
  <1>11. Continues(entries)
    <2>1. ASSUME NEW m \in 1 .. n + 1
          PROVE  /\ PrepareAdmits(entries[m].command, Before(entries, m), position + m - 1)
                 /\ RowsOf(entries[m].state) = Prepared(entries[m].command, Before(entries, m))
                 /\ Track(RowsOf(entries[m].state), position + m)
                 /\ entries[m].state = EncodeState(position + m, RowsOf(entries[m].state),
                                         FreshAt(entries[m].command.frame, RowsOf(entries[m].state)))
      <3>1. CASE m \in 1 .. n
        <4>1. m \in 0 .. n /\ m # 0 /\ position + m \in Nat
          BY <1>2, <3>1
        <4>2. entries[m].command = pending[m] /\ entries[m].state = State(m, position + m)
          BY <1>6, <1>9, <3>1
        <4>3. RowsOf(State(m, position + m)) = Batch[m].rows
          BY <1>4, <4>1
        <4>4. /\ Track(Batch[m].rows, position + m)
              /\ BatchProgram(f, m) = FreshAt(f, Batch[m].rows)
              /\ PrepareAdmits(pending[m], Batch[m - 1].rows, position + m - 1)
              /\ Batch[m].rows = Prepared(pending[m], Batch[m - 1].rows)
          BY <1>3, <4>1
        <4>5. Before(entries, m) = Batch[m - 1].rows
          BY <1>10
        <4>6. State(m, position + m) = EncodeState(position + m, Batch[m].rows, BatchProgram(f, m))
          BY DEF State
        <4>7. pending[m].frame = f
          BY <1>2, <3>1
        <4>8. QED
          BY <4>2, <4>3, <4>4, <4>5, <4>6, <4>7
      <3>2. CASE m = n + 1
        <4>1. n \in 0 .. n /\ position + n + 1 \in Nat /\ position + m = position + n + 1
              /\ position + m - 1 = position + n /\ m - 1 = n /\ position + n \in Nat
              /\ (position + n) + 1 = position + m
          BY <1>2, <3>2
        <4>2. entries[m].command = SeekCommand(f) /\ entries[m].state = State(n, position + n + 1)
          BY <1>7, <1>9, <3>2
        <4>3. RowsOf(State(n, position + n + 1)) = Batch[n].rows
          BY <1>4, <4>1
        <4>4. Track(Batch[n].rows, position + n) /\ BatchProgram(f, n) = FreshAt(f, Batch[n].rows)
          BY <1>3, <4>1
        <4>5. Before(entries, m) = Batch[n].rows
          BY <1>10, <4>1
        <4>6. State(n, position + n + 1) = EncodeState(position + n + 1, Batch[n].rows, BatchProgram(f, n))
          BY DEF State
        <4>7. /\ SeekCommand(f).kind = "seek" /\ SeekCommand(f).frame = f /\ SeekCommand(f) \in Commands
          BY DEF SeekCommand, Commands
        <4>8. Prepared(SeekCommand(f), Batch[n].rows) = Batch[n].rows
          BY <4>7 DEF Prepared
        <4>9. PrepareAdmits(SeekCommand(f), Batch[n].rows, position + n)
          <5>1. VisibleCount(Batch[n].rows, f) <= MaxReplayInputs
            BY <1>1 DEF SaveAdmits, n
          <5>2. QED
            BY <1>2, <4>7, <4>8, <5>1 DEF PrepareAdmits
        <4>10. Track(Batch[n].rows, position + m)
          <5>1. Track(Prepared(SeekCommand(f), Batch[n].rows), (position + n) + 1)
            BY <4>1, <4>4, <4>7, <4>9, PreparedTrack
          <5>2. QED
            BY <4>1, <4>8, <5>1
        <4>11. QED
          BY <4>1, <4>2, <4>3, <4>4, <4>5, <4>6, <4>7, <4>8, <4>9, <4>10
      <3>3. QED
        BY <1>2, <3>1, <3>2
    <2>2. QED
      BY <1>9, <2>1 DEF Continues
  <1>12. rows = RowsOf(entries[Len(entries)].state)
    <2>1. n \in 0 .. n /\ position + n + 1 \in Nat
      BY <1>2
    <2>2. RowsOf(State(n, position + n + 1)) = Batch[n].rows
      BY <1>4, <2>1
    <2>3. QED
      BY <1>7, <1>9, <2>2 DEF rows
  <1>13. p \in Programs /\ p.frame = f /\ p = FreshAt(f, rows)
    BY <1>2, <1>3 DEF p, rows
  <1>14. position + Len(entries) <= MaxEntries
    BY <1>1, <1>2, <1>9, ConfigFacts
  <1>15. \A m \in 1 .. Len(entries) : entries[m].command.frame = f
    <2> TAKE m \in 1 .. Len(entries)
    <2>1. m \in 1 .. n \/ m = n + 1
      BY <1>2, <1>9
    <2>2. CASE m \in 1 .. n
      <3>1. entries[m].command = pending[m] /\ pending[m].frame = f
        BY <1>2, <1>6, <1>9, <2>2
      <3>2. QED
        BY <3>1
    <2>3. CASE m = n + 1
      BY <1>7, <1>9, <2>3 DEF SeekCommand
    <2>4. QED
      BY <2>1, <2>2, <2>3
  <1>16. Adds(f, p, rows, entries, f)
    BY <1>1, <1>2, <1>9, <1>11, <1>12, <1>13, <1>14, <1>15 DEF Adds
  <1>17. QED
    BY <1>16

-----------------------------------------------------------------------------
(* Workers lost and recovered: supervisor.rs and service/recovery.rs. *)

(* A lost worker's successor starts blank, standing for no command. *)
LEMMA LostInv ==
  ASSUME WorkerInv, Lost
  PROVE  WorkerInv'
  <1>1. /\ program' = FreshAt(0, <<>>) /\ clean' = TRUE /\ edits' = <<>> /\ pending' = <<>>
        /\ position' = 0 /\ lastCheckpoint' = NoFrame /\ journal' = journal
        /\ crashes < MaxCrashes /\ crashes' = crashes + 1 /\ reuse' \in 0 .. Len(journal)
    BY DEF Lost, BlankWorker
  <1>2. /\ reuse' = 0 => phase' = "serving"
        /\ reuse' # 0 => phase' = "restore" \/ phase' = "replay"
        /\ phase' = "restore" => \E i \in 1 .. reuse' : journal[i].checkpoint
    <2>1. phase' = CASE reuse' = 0 -> "serving"
                     [] \E i \in 1 .. reuse' : journal[i].checkpoint -> "restore"
                     [] OTHER -> "replay"
      BY DEF Lost
    <2>2. CASE reuse' = 0
      <3>1. ~ \E i \in 1 .. reuse' : journal[i].checkpoint
        BY <2>2
      <3>2. phase' = "serving"
        BY <2>1, <2>2, <3>1
      <3>3. QED
        BY <2>2, <3>2
    <2>3. CASE reuse' # 0
      <3>1. CASE \E i \in 1 .. reuse' : journal[i].checkpoint
        BY <2>1, <2>3, <3>1
      <3>2. CASE ~ \E i \in 1 .. reuse' : journal[i].checkpoint
        <4>1. phase' = "replay"
          BY <2>1, <2>3, <3>2
        <4>2. QED
          BY <2>3, <4>1
      <3>3. QED
        BY <3>1, <3>2
    <2>4. QED
      BY <2>2, <2>3
  <1>3. /\ Len(journal) \in Nat /\ <<>> \in Seq(Inputs) /\ Len(<<>>) = 0 /\ 0 \in Nat
        /\ program' \in Programs /\ program'.frame = 0 /\ 0 \in Frames /\ 0 <= MaxReplayFrames
        /\ crashes \in 0 .. MaxCrashes
    BY <1>1, TrackFacts, BlankIsFresh, ConfigFacts, EmptySeq DEF WorkerInv, WorkerTypeOK
  <1>4. Track(edits', position')
    BY <1>1, EmptyTrack
  <1>5. Unedited'
    BY <1>1, <1>3, <1>4 DEF Unedited
  <1>6. Preview' /\ PreviewIsTheTimeline'
    BY <1>5, CleanPreview, PTL
  <1>7. Journal'
    BY <1>1 DEF WorkerInv, Journal, Recorded, TrackAt
  <1>8. phase' = "restore" => Checkpoints' # {}
    BY <1>1, <1>2 DEF Checkpoints
  <1>9. WorkerTypeOK'
    <2>1. phase' \in {"serving", "restore", "replay"}
      BY <1>1, <1>2
    <2>2. Serving' => position' = reuse'
      BY <1>1, <1>2 DEF Serving
    <2>3. crashes' \in 0 .. MaxCrashes
      BY <1>1, <1>3, ConfigFacts
    <2>4. program' \in [frame : Frames, done : Seq(Dispatches)] \cup {NoProgram}
      BY <1>3 DEF Programs
    <2>5. edits' \in Seq(Inputs) /\ Len(edits') <= MaxInputs
      BY <1>4 DEF Track
    <2>6. \A i \in 1 .. Len(pending') : RowOf(pending'[i]) \in Inputs
      BY <1>1, <1>3
    <2>7. reuse' \in 0 .. Len(journal') /\ position' \in 0 .. reuse' /\ Len(journal') <= MaxEntries
      BY <1>1, <1>3 DEF WorkerInv, WorkerTypeOK
    <2>8. clean' \in BOOLEAN /\ lastCheckpoint' \in Frames \cup {NoFrame}
      BY <1>1
    <2>9. QED
      BY <2>1, <2>2, <2>3, <2>4, <2>5, <2>6, <2>7, <2>8 DEF WorkerTypeOK
  <1>10. phase' # "refused"
    BY <1>2
  <1>11. QED
    BY <1>6, <1>7, <1>8, <1>9, <1>10 DEF WorkerInv, OwnJournalReplays

(* What an entry of the journal says of itself. *)
LEMMA EntrySays ==
  ASSUME WorkerInv, NEW i \in 1 .. Len(journal)
  PROVE  LET c == journal[i].command
             rows == TrackAt(journal, i)
             state == journal[i].state
         IN /\ c \in Commands /\ c.frame \in Frames /\ c.frame <= MaxReplayFrames
            /\ PrepareAdmits(c, TrackAt(journal, i - 1), i - 1)
            /\ rows = Prepared(c, TrackAt(journal, i - 1))
            /\ Track(rows, i) /\ Track(TrackAt(journal, i - 1), i - 1)
            /\ i \in Nat /\ i - 1 \in Nat
            /\ VisibleCount(rows, c.frame) <= MaxReplayInputs
            /\ state = EncodeState(i, rows, FreshAt(c.frame, rows))
            /\ RowsOf(state) = rows /\ state.program = FreshAt(c.frame, rows)
            /\ state.kind = "edited" => state.position = i
  <1> DEFINE c == journal[i].command
             rows == TrackAt(journal, i)
             state == journal[i].state
  <1>1. Recorded(journal, i) /\ journal \in Seq(Entries) /\ journal[i] \in Entries
    BY ElementOfSeq DEF WorkerInv, Journal
  <1>2. c \in Commands
    BY <1>1 DEF Entries
  <1>3. c.frame \in Frames
    BY <1>2, CommandFacts
  <1>4. /\ PrepareAdmits(c, TrackAt(journal, i - 1), i - 1)
        /\ rows = Prepared(c, TrackAt(journal, i - 1))
        /\ Track(rows, i)
        /\ state = EncodeState(i, rows, FreshAt(c.frame, rows))
    BY <1>1 DEF Recorded
  <1>5. c.frame <= MaxReplayFrames /\ VisibleCount(rows, c.frame) <= MaxReplayInputs
    BY <1>4 DEF PrepareAdmits
  <1>6. i \in Nat /\ i - 1 \in 0 .. Len(journal) /\ i - 1 \in Nat
    BY TrackFacts
  <1>7. Track(TrackAt(journal, i - 1), i - 1)
    BY <1>6, TrackFacts
  <1>8. FreshAt(c.frame, rows) \in Programs /\ rows \in Seq(Inputs)
    BY <1>3, <1>4, FreshShape DEF Programs, Track
  <1> HIDE DEF c, rows, state
  <1>9. RowsOf(state) = rows /\ state.program = FreshAt(c.frame, rows) /\ (state.kind = "edited" => state.position = i)
    BY <1>4, <1>6, <1>8, EncodeFacts
  <1>10. QED
    BY <1>2, <1>3, <1>4, <1>5, <1>6, <1>7, <1>9 DEF c, rows, state

(* A checkpoint of the journal is always accepted, and brings the worker to its entry. *)
LEMMA RestoreInv ==
  ASSUME WorkerInv, Restore
  PROVE  WorkerInv'
  <1> DEFINE at == LastOf(Checkpoints)
             c == journal[at].command
             rows == TrackAt(journal, at)
             state == journal[at].state
             f == c.frame
  <1>1. at \in Checkpoints
    <2>1. Checkpoints \in SUBSET (1 .. reuse) /\ Checkpoints # {} /\ reuse \in Nat
      BY TrackFacts DEF Checkpoints, Restore, WorkerInv
    <2>2. QED
      BY <2>1, GreatestNat
  <1>2. at \in 1 .. reuse /\ at \in 1 .. Len(journal) /\ reuse <= Len(journal) /\ reuse \in Nat /\ Len(journal) \in Nat
    BY <1>1, TrackFacts DEF Checkpoints
  <1>3. /\ f \in Frames /\ f <= MaxReplayFrames /\ Track(rows, at) /\ at \in Nat
        /\ VisibleCount(rows, f) <= MaxReplayInputs
        /\ state = EncodeState(at, rows, FreshAt(f, rows))
        /\ RowsOf(state) = rows /\ state.program = FreshAt(f, rows)
        /\ state.kind = "edited" => state.position = at
    BY <1>2, EntrySays
  <1>4. FreshAt(f, rows) \in Programs /\ FreshAt(f, rows).frame = f /\ rows \in Seq(Inputs)
    BY <1>3, FreshShape DEF Programs, Track
  <1> HIDE DEF rows, state, f, at
  <1>5. RestoreAdmits(at, state)
    <2>1. /\ Len(rows) <= MaxInputs
          /\ \A i \in 1 .. Len(rows) : rows[i].revision < at
          /\ \A i \in 2 .. Len(rows) : /\ rows[i - 1].frame <= rows[i].frame
                                       /\ rows[i - 1].revision < rows[i].revision
      <3>1. Len(rows) \in Nat
        BY <1>4
      <3>2. \A i \in 2 .. Len(rows) : i - 1 \in 1 .. Len(rows) /\ i \in 1 .. Len(rows) /\ i - 1 < i
        BY <3>1
      <3>3. QED
        BY <1>3, <3>2 DEF Track
    <2>2. (IF state.kind = "edited" THEN state.rows ELSE <<>>) = rows
      BY <1>3 DEF RowsOf
    <2>3. state.program.frame = f
      BY <1>3, <1>4
    <2>4. QED
      BY <1>3, <2>1, <2>2, <2>3 DEF RestoreAdmits
  <1>6. /\ program' = state.program
        /\ edits' = rows
        /\ pending' = <<>> /\ clean' = TRUE
        /\ position' = at /\ lastCheckpoint' = state.program.frame
        /\ phase' = IF at < reuse THEN "replay" ELSE "serving"
        /\ UNCHANGED <<journal, reuse, crashes>>
    BY <1>3, <1>5 DEF Restore, RowsOf, at, state
  <1>7. Unedited'
    <2>1. /\ program' = FreshAt(f, rows) /\ program'.frame = f
      BY <1>3, <1>4, <1>6
    <2>2. QED
      BY <1>3, <1>6, <2>1 DEF Unedited
  <1>8. Preview' /\ PreviewIsTheTimeline'
    BY <1>7, CleanPreview, PTL
  <1>9. Journal'
    BY <1>6 DEF WorkerInv, Journal, Recorded, TrackAt, rows
  <1>10. WorkerTypeOK'
    <2>1. phase' \in {"serving", "replay"} /\ (phase' = "serving" => position' = reuse')
      BY <1>2, <1>6
    <2>2. program' \in [frame : Frames, done : Seq(Dispatches)] \cup {NoProgram}
      BY <1>3, <1>4, <1>6 DEF Programs
    <2>3. edits' \in Seq(Inputs) /\ Len(edits') <= MaxInputs
      BY <1>3, <1>6 DEF Track
    <2>4. \A i \in 1 .. Len(pending') : RowOf(pending'[i]) \in Inputs
      BY <1>6, EmptySeq
    <2>5. /\ reuse' \in 0 .. Len(journal') /\ position' \in 0 .. reuse' /\ Len(journal') <= MaxEntries
          /\ crashes' \in 0 .. MaxCrashes
      BY <1>2, <1>6 DEF WorkerInv, WorkerTypeOK
    <2>6. lastCheckpoint' \in Frames \cup {NoFrame}
      BY <1>3, <1>4, <1>6
    <2>7. clean' \in BOOLEAN
      BY <1>6
    <2>8. QED
      BY <2>1, <2>2, <2>3, <2>4, <2>5, <2>6, <2>7 DEF WorkerTypeOK, Serving
  <1>11. phase' # "refused" /\ phase' # "restore"
    BY <1>6
  <1>12. QED
    BY <1>8, <1>9, <1>10, <1>11 DEF WorkerInv, OwnJournalReplays

(* The recursion of a replay, from the restored worker through every entry. *)
LEMMA ReplayUnfold ==
  ASSUME WorkerInv
  PROVE  /\ ReplayTo[position] = ReplayStart
         /\ \A i \in position + 1 .. reuse : ReplayTo[i] = ReplayStep(ReplayTo[i - 1], i)
  <1> DEFINE At(g, i) == IF i = position THEN ReplayStart ELSE ReplayStep(g[i - 1], i)
             Fits(g, m) == g = [i \in position .. m |-> At(g, i)]
             Missing == {m \in position .. reuse : \A g : ~ Fits(g, m)}
  <1>1. position \in Nat /\ reuse \in Nat /\ position <= reuse
    BY TrackFacts
  <1> HIDE DEF At
  <1>2. position \notin Missing
    <2> DEFINE g == [i \in position .. position |-> ReplayStart]
    <2>1. \A i \in position .. position : i = position
      BY <1>1
    <2>2. \A i \in position .. position : At(g, i) = ReplayStart
      BY <2>1 DEF At
    <2>3. Fits(g, position)
      BY <2>2
    <2>4. QED
      BY <2>3
  <1>3. ASSUME NEW m \in position .. reuse, m # position, m - 1 \notin Missing
        PROVE  m \notin Missing
    <2>1. m \in Nat /\ m - 1 \in Nat /\ m - 1 \in position .. reuse /\ position <= m - 1
      BY <1>1, <1>3
    <2>2. PICK g : Fits(g, m - 1)
      BY <1>3, <2>1
    <2> DEFINE h == [i \in position .. m |-> IF i = m THEN At(g, m) ELSE g[i]]
    <2>3. \A i \in position .. m - 1 : g[i] = At(g, i) /\ h[i] = g[i]
      <3> TAKE i \in position .. m - 1
      <3>1. g[i] = At(g, i)
        BY <2>2
      <3>2. i \in position .. m /\ i # m
        BY <1>1, <2>1
      <3>3. h[i] = g[i]
        BY <3>2
      <3>4. QED
        BY <3>1, <3>3
    <2>4. \A i \in position .. m : h[i] = At(h, i)
      <3> TAKE i \in position .. m
      <3>1. CASE i = position
        <4>1. i \in position .. m - 1 /\ At(g, i) = At(h, i)
          BY <1>1, <2>1, <3>1 DEF At
        <4>2. QED
          BY <2>3, <4>1
      <3>2. CASE i # position
        <4>1. i - 1 \in position .. m - 1 /\ (i # m => i \in position .. m - 1)
          BY <1>1, <2>1, <3>2
        <4>2. h[i - 1] = g[i - 1]
          BY <2>3, <4>1
        <4>3. At(h, i) = At(g, i)
          BY <3>2, <4>2 DEF At
        <4>4. h[i] = At(g, i)
          <5>1. CASE i = m
            BY <5>1
          <5>2. CASE i # m
            BY <2>3, <4>1, <5>2
          <5>3. QED
            BY <5>1, <5>2
        <4>5. QED
          BY <4>3, <4>4
      <3>3. QED
        BY <3>1, <3>2
    <2>5. Fits(h, m)
      BY <2>4
    <2>6. QED
      BY <2>5
  <1>4. Missing = {}
    <2> SUFFICES ASSUME Missing # {} PROVE FALSE
      OBVIOUS
    <2>1. Missing \in SUBSET Nat
      BY <1>1
    <2>2. PICK m \in Missing : \A k \in Missing : m <= k
      BY <2>1, LeastNat
    <2>3. m \in position .. reuse /\ m # position
      BY <1>2
    <2>4. ~ (m <= m - 1)
      BY <1>1, <2>3
    <2>5. m - 1 \notin Missing
      BY <2>2, <2>4
    <2>6. QED
      BY <1>3, <2>3, <2>5
  <1>5. \E g : Fits(g, reuse)
    BY <1>1, <1>4
  <1>6. ReplayTo = CHOOSE g : Fits(g, reuse)
    BY DEF ReplayTo, At
  <1>7. Fits(ReplayTo, reuse)
    BY <1>5, <1>6
  <1>8. \A i \in position .. reuse : ReplayTo[i] = At(ReplayTo, i)
    BY <1>7
  <1>9. /\ position \in position .. reuse
        /\ \A i \in position + 1 .. reuse : i \in position .. reuse /\ i # position
    BY <1>1
  <1>10. QED
    BY <1>8, <1>9 DEF At

(* A replay up to entry i has refused nothing and diverged from nothing: its track *)
(* is the journal's, and its candidate a fresh execution of that track.            *)
ReplayHolds(i) ==
  LET run == ReplayTo[i]
  IN /\ run.admitted = TRUE /\ run.faithful = TRUE
     /\ run.rows = TrackAt(journal, i)
     /\ run.checkpoint \in Frames \cup {NoFrame}
     /\ run.program # NoProgram =>
          /\ run.program \in Programs
          /\ run.program.frame <= MaxReplayFrames
          /\ run.program = FreshAt(run.program.frame, run.rows)
          /\ run.inputs = VisibleCount(run.rows, run.program.frame)

(* One more entry is admitted, goes on from the candidate or starts afresh, and  *)
(* reproduces its recorded state.                                                *)
LEMMA ReplayGoesOn ==
  ASSUME WorkerInv, NEW i \in position + 1 .. reuse, ReplayHolds(i - 1)
  PROVE  ReplayHolds(i)
  <1> DEFINE run == ReplayTo[i - 1]
             c == journal[i].command
             f == c.frame
             old == TrackAt(journal, i - 1)
             new == TrackAt(journal, i)
             inputs == VisibleCount(new, f)
             forward == run.program # NoProgram /\ run.program.frame <= f
             p == IF forward THEN AdvanceAfterInputs(run.program, new, f, run.inputs)
                  ELSE FreshAt(f, new)
  <1>1. i \in 1 .. Len(journal) /\ i \in position + 1 .. reuse
    BY TrackFacts
  <1>2. /\ c \in Commands /\ f \in Frames /\ f \in Int /\ f <= MaxReplayFrames
        /\ PrepareAdmits(c, old, i - 1)
        /\ new = Prepared(c, old)
        /\ Track(new, i) /\ Track(old, i - 1) /\ i \in Nat /\ i - 1 \in Nat
        /\ journal[i].state = EncodeState(i, new, FreshAt(f, new))
    BY <1>1, EntrySays, ConfigFacts DEF Frames
  <1>3. /\ run.admitted = TRUE /\ run.faithful = TRUE /\ run.rows = old
        /\ run.checkpoint \in Frames \cup {NoFrame}
        /\ run.program # NoProgram =>
             /\ run.program \in Programs
             /\ run.program.frame <= MaxReplayFrames
             /\ run.program = FreshAt(run.program.frame, run.rows)
             /\ run.inputs = VisibleCount(run.rows, run.program.frame)
    BY DEF ReplayHolds
  <1> HIDE DEF run, c, f, old, new
  <1>4. ASSUME forward
        PROVE  /\ inputs >= run.inputs
               /\ AdvanceAfterInputs(run.program, new, f, run.inputs) = FreshAt(f, new)
    <2> DEFINE g == run.program.frame
               k == run.inputs
    <2>1. /\ run.program \in Programs /\ g \in Frames /\ g \in Int /\ g <= f
          /\ run.program = FreshAt(g, old) /\ k = VisibleCount(old, g)
      <3>1. run.program \in Programs /\ run.program = FreshAt(g, old) /\ k = VisibleCount(old, g)
        BY <1>3, <1>4
      <3>2. g \in Frames
        BY <3>1 DEF Programs
      <3>3. QED
        BY <1>4, <3>1, <3>2 DEF Frames
    <2> HIDE DEF g, k
    <2>2. run.program = [frame |-> g, done |-> DispatchedRows(Prefix(old, k))]
      BY <1>2, <2>1, FreshShape
    <2>3. /\ VisibleCount(old, f) <= inputs
          /\ \A j \in 0 .. VisibleCount(old, f) : Prefix(new, j) = Prefix(old, j)
      BY <1>2, PreparedTrack DEF f
    <2>4. k \in 0 .. VisibleCount(old, f) /\ k \in 0 .. inputs
      <3>1. k \in 0 .. Len(old) /\ VisibleCount(old, f) \in 0 .. Len(old) /\ inputs \in 0 .. Len(new)
        BY <1>2, <2>1, VisibleRows
      <3>2. k <= VisibleCount(old, f)
        BY <1>2, <2>1, VisibleMonotone
      <3>3. Len(old) \in Nat /\ Len(new) \in Nat
        BY <1>2, RowFacts DEF Track
      <3> HIDE DEF inputs
      <3>4. QED
        BY <2>3, <3>1, <3>2, <3>3
    <2>5. AdvanceAfterInputs([frame |-> g, done |-> DispatchedRows(Prefix(new, k))], new, f, k)
            = [frame |-> f, done |-> DispatchedRows(Prefix(new, inputs))]
      BY <1>2, <2>4, Continue
    <2>6. FreshAt(f, new) = [frame |-> f, done |-> DispatchedRows(Prefix(new, inputs))]
      BY <1>2, FreshShape
    <2>7. inputs >= k
      <3>1. inputs \in Int
        <4>1. inputs \in 0 .. Len(new) /\ Len(new) \in Nat
          BY <1>2, VisibleRows, RowFacts DEF Track
        <4> HIDE DEF inputs
        <4>2. QED
          BY <4>1
      <3> HIDE DEF inputs
      <3>2. QED
        BY <2>4, <3>1
    <2>8. QED
      BY <2>2, <2>3, <2>4, <2>5, <2>6, <2>7 DEF k
  <1>5. p = FreshAt(f, new)
    BY <1>4
  <1>6. ReplayTo[i] = ReplayStep(run, i)
    BY <1>1, ReplayUnfold DEF run
  <1>7. Prepared(c, run.rows) = new
    BY <1>2, <1>3
  <1> DEFINE next == ReplayTo[i]
  <1>8. /\ next.admitted = (run.admitted /\ PrepareAdmits(c, run.rows, i - 1) /\ (forward => inputs >= run.inputs))
        /\ next.faithful = (run.faithful /\ EncodeState(i, new, p) = journal[i].state)
        /\ next.rows = new /\ next.program = p /\ next.inputs = inputs
        /\ next.checkpoint = IF journal[i].checkpoint THEN f ELSE run.checkpoint
    BY <1>6, <1>7 DEF ReplayStep, AppliedInputs, c, f
  <1> HIDE DEF next, p, forward, inputs
  <1>9. next.admitted = TRUE
    <2>1. PrepareAdmits(c, run.rows, i - 1)
      BY <1>2, <1>3
    <2>2. QED
      BY <1>3, <1>4, <1>8, <2>1
  <1>10. next.faithful = TRUE
    BY <1>2, <1>3, <1>5, <1>8
  <1>11. next.checkpoint \in Frames \cup {NoFrame}
    BY <1>2, <1>3, <1>8
  <1>12. /\ next.program \in Programs /\ next.program.frame = f
         /\ next.program = FreshAt(next.program.frame, next.rows)
         /\ next.inputs = VisibleCount(next.rows, next.program.frame)
    <2>1. FreshAt(f, new) \in Programs /\ FreshAt(f, new).frame = f
      BY <1>2, FreshShape DEF Programs
    <2>2. next.program = FreshAt(f, new) /\ next.rows = new /\ next.inputs = VisibleCount(new, f)
      BY <1>5, <1>8 DEF inputs
    <2>3. QED
      BY <2>1, <2>2
  <1>13. next.rows = TrackAt(journal, i) /\ next.program.frame <= MaxReplayFrames
    BY <1>2, <1>8, <1>12 DEF new
  <1>14. QED
    BY <1>9, <1>10, <1>11, <1>12, <1>13 DEF ReplayHolds, next

(* So the whole journal is reproduced, from wherever a worker takes it up. *)
LEMMA ReplayIs ==
  ASSUME WorkerInv
  PROVE  \A i \in position .. reuse : ReplayHolds(i)
  <1> DEFINE Missing == {i \in position .. reuse : ~ ReplayHolds(i)}
  <1>1. position \in Nat /\ reuse \in Nat /\ position <= reuse
    BY TrackFacts
  <1>2. ReplayHolds(position)
    <2>1. ReplayTo[position] = ReplayStart
      BY ReplayUnfold
    <2>2. /\ ReplayStart.admitted = TRUE /\ ReplayStart.faithful = TRUE
          /\ ReplayStart.rows = edits /\ ReplayStart.program = NoProgram
          /\ ReplayStart.checkpoint = lastCheckpoint
      BY DEF ReplayStart
    <2>3. edits = TrackAt(journal, position) /\ lastCheckpoint \in Frames \cup {NoFrame}
      BY DEF WorkerInv, Journal, WorkerTypeOK
    <2>4. QED
      BY <2>1, <2>2, <2>3 DEF ReplayHolds
  <1>3. Missing = {}
    <2> SUFFICES ASSUME Missing # {} PROVE FALSE
      OBVIOUS
    <2>1. Missing \in SUBSET Nat
      BY <1>1
    <2>2. PICK i \in Missing : \A k \in Missing : i <= k
      BY <2>1, LeastNat
    <2>3. i \in position + 1 .. reuse /\ i - 1 \in position .. reuse /\ ~ (i <= i - 1)
      <3>1. i \in position .. reuse /\ i # position
        BY <1>2, <2>2
      <3>2. QED
        BY <1>1, <3>1
    <2>4. ReplayHolds(i - 1)
      BY <2>2, <2>3
    <2>5. QED
      BY <2>2, <2>3, <2>4, ReplayGoesOn
  <1>4. QED
    BY <1>3

(* A replay is refused for its cost alone; otherwise the worker serves what the  *)
(* journal says.                                                                 *)
LEMMA ReplayInv ==
  ASSUME WorkerInv, Replay
  PROVE  WorkerInv'
  <1> DEFINE run == ReplayRun
  <1>1. position \in Nat /\ reuse \in Nat /\ position <= reuse /\ reuse <= Len(journal) /\ Len(journal) \in Nat
    BY TrackFacts
  <1>2. /\ run.admitted = TRUE /\ run.faithful = TRUE
        /\ run.rows = TrackAt(journal, reuse)
        /\ run.checkpoint \in Frames \cup {NoFrame}
        /\ run.program # NoProgram =>
             /\ run.program \in Programs
             /\ run.program.frame <= MaxReplayFrames
             /\ run.program = FreshAt(run.program.frame, run.rows)
    <2>1. reuse \in position .. reuse
      BY <1>1
    <2>2. ReplayHolds(reuse)
      BY <2>1, ReplayIs
    <2>3. QED
      BY <2>2 DEF ReplayHolds, ReplayRun
  <1> HIDE DEF run
  <1>3. phase = "replay" /\
        CASE ~run.admitted -> Refuse("refused")
          [] run.admitted /\ Overworked(run) -> Refuse("overworked")
          [] run.admitted /\ ~Overworked(run) /\ ~run.faithful -> Refuse("refused")
          [] OTHER ->
               /\ program' = run.program /\ edits' = run.rows
               /\ pending' = <<>> /\ clean' = TRUE
               /\ position' = reuse /\ lastCheckpoint' = run.checkpoint
               /\ phase' = "serving"
               /\ UNCHANGED <<journal, reuse, crashes>>
    BY DEF Replay, run
  <1>4. CASE Overworked(run)
    <2>1. Refuse("overworked")
      BY <1>2, <1>3, <1>4
    <2>2. phase' = "overworked" /\ UNCHANGED <<worker, journal, reuse, crashes>>
      BY <2>1 DEF Refuse
    <2>3. Journal'
      BY <2>2 DEF WorkerInv, Journal, Recorded, TrackAt, worker
    <2>4. WorkerTypeOK'
      BY <2>2 DEF WorkerInv, WorkerTypeOK, Serving, worker
    <2>5. Preview' /\ PreviewIsTheTimeline'
      BY <2>2 DEF WorkerInv, Preview, PreviewIsTheTimeline, Staged, Live, worker
    <2>6. QED
      BY <2>2, <2>3, <2>4, <2>5 DEF WorkerInv, OwnJournalReplays
  <1>5. CASE ~Overworked(run)
    <2>1. /\ program' = run.program /\ edits' = run.rows
          /\ pending' = <<>> /\ clean' = TRUE
          /\ position' = reuse /\ lastCheckpoint' = run.checkpoint
          /\ phase' = "serving"
          /\ UNCHANGED <<journal, reuse, crashes>>
      BY <1>2, <1>3, <1>5
    <2>2. Track(run.rows, reuse)
      <3>1. reuse \in 0 .. Len(journal)
        BY <1>1
      <3>2. QED
        BY <1>2, <3>1, TrackFacts
    <2>3. run.program # NoProgram => run.program.frame \in Frames
      BY <1>2 DEF Programs
    <2>4. Unedited'
      BY <1>2, <2>1, <2>2, <2>3 DEF Unedited, Live
    <2>5. Preview' /\ PreviewIsTheTimeline'
      BY <2>4, CleanPreview, PTL
    <2>6. Journal'
      BY <1>2, <2>1 DEF WorkerInv, Journal, Recorded, TrackAt
    <2>7. WorkerTypeOK'
      <3>1. program' \in [frame : Frames, done : Seq(Dispatches)] \cup {NoProgram}
        BY <1>2, <2>1 DEF Programs
      <3>2. edits' \in Seq(Inputs) /\ Len(edits') <= MaxInputs
        BY <2>1, <2>2 DEF Track
      <3>3. \A k \in 1 .. Len(pending') : RowOf(pending'[k]) \in Inputs
        BY <2>1, EmptySeq
      <3>4. /\ reuse' \in 0 .. Len(journal') /\ position' \in 0 .. reuse' /\ position' = reuse'
            /\ Len(journal') <= MaxEntries /\ crashes' \in 0 .. MaxCrashes
        BY <1>1, <2>1 DEF WorkerInv, WorkerTypeOK
      <3>5. phase' = "serving" /\ lastCheckpoint' \in Frames \cup {NoFrame}
        BY <1>2, <2>1
      <3>6. clean' \in BOOLEAN
        BY <2>1
      <3>7. QED
        BY <3>1, <3>2, <3>3, <3>4, <3>5, <3>6 DEF WorkerTypeOK
    <2>8. QED
      BY <2>1, <2>5, <2>6, <2>7 DEF WorkerInv, OwnJournalReplays
  <1>6. QED
    BY <1>4, <1>5

-----------------------------------------------------------------------------
(* The theorems. *)

(* Nothing moves, nothing changes. *)
LEMMA WorkerStutters ==
  ASSUME WorkerInv, UNCHANGED vars
  PROVE  WorkerInv'
  <1>1. Journal'
    BY DEF vars, worker, WorkerInv, Journal, Recorded, TrackAt
  <1>2. WorkerTypeOK'
    BY DEF vars, worker, WorkerInv, WorkerTypeOK, Serving
  <1>3. Preview' /\ PreviewIsTheTimeline'
    BY DEF vars, worker, WorkerInv, Preview, PreviewIsTheTimeline, Staged, Live
  <1>4. QED
    BY <1>1, <1>2, <1>3 DEF vars, WorkerInv, OwnJournalReplays, Checkpoints

(* Every preview, command, save, lost worker, restore and replay keeps it. *)
LEMMA StepWorkerInv == WorkerInv /\ [Next]_vars => WorkerInv'
  <1> SUFFICES ASSUME WorkerInv, [Next]_vars PROVE WorkerInv'
    OBVIOUS
  <1>1. ASSUME NEW f \in Frames, Seek(f) PROVE WorkerInv'
    BY <1>1, SeekInv
  <1>2. ASSUME NEW f \in Frames, SeekFails(f) PROVE WorkerInv'
    BY <1>2, LostProgramInv
  <1>3. ASSUME NEW f \in Frames, Record(SeekCommand(f)) PROVE WorkerInv'
    <2>1. SeekCommand(f) \in Commands
      BY DEF SeekCommand, Commands
    <2>2. SeekCommand(f).frame = f
      BY DEF SeekCommand
    <2>3. \E p, rows, entries, at : Adds(f, p, rows, entries, at)
      BY <1>3, <2>1, <2>2, RecordAdds
    <2>4. QED
      BY <2>3, InstallInv
  <1>4. ASSUME NEW f \in Frames, Save(f) PROVE WorkerInv'
    BY <1>4, SaveAdds, InstallInv
  <1>5. ASSUME NEW e \in Events, Event(e) PROVE WorkerInv'
    BY <1>5, EventInv
  <1>6. ASSUME EventFails PROVE WorkerInv'
    BY <1>6, LostProgramInv
  <1>7. ASSUME NEW f \in Frames, NEW e \in Events, Record(InputCommand(f, position, e)) PROVE WorkerInv'
    <2>1. position \in Nat
      BY TrackFacts
    <2>2. InputCommand(f, position, e) \in Commands
      BY <2>1 DEF InputCommand, Commands
    <2>3. InputCommand(f, position, e).frame = f
      BY DEF InputCommand
    <2>4. \E p, rows, entries, at : Adds(f, p, rows, entries, at)
      BY <1>7, <2>2, <2>3, RecordAdds
    <2>5. QED
      BY <2>4, InstallInv
  <1>8. ASSUME Lost PROVE WorkerInv'
    BY <1>8, LostInv
  <1>9. ASSUME Restore PROVE WorkerInv'
    BY <1>9, RestoreInv
  <1>10. ASSUME Replay PROVE WorkerInv'
    BY <1>10, ReplayInv
  <1>11. ASSUME UNCHANGED vars PROVE WorkerInv'
    BY <1>11, WorkerStutters
  <1>12. QED
    BY <1>1, <1>2, <1>3, <1>4, <1>5, <1>6, <1>7, <1>8, <1>9, <1>10, <1>11 DEF Next

(* The journal is always a record of commands admitted one after the other, each  *)
(* with the state of a fresh execution, and the worker's track the one it records. *)
THEOREM WorkerInvariant == Spec => []WorkerInv
  BY InitWorkerInv, StepWorkerInv, PTL DEF Spec

(* The types of the worker and of its journal. *)
THEOREM WorkerTyping == Spec => []WorkerTypeOK
  <1>1. WorkerInv => WorkerTypeOK
    BY DEF WorkerInv
  <1>2. QED
    BY <1>1, WorkerInvariant, PTL

(* A preview believed clean is what a render of the committed timeline would show, *)
(* whatever seeks, failures, saves and recoveries produced it.                     *)
THEOREM WorkerPreview == Spec => []PreviewIsTheTimeline
  <1>1. WorkerInv => PreviewIsTheTimeline
    BY DEF WorkerInv
  <1>2. QED
    BY <1>1, WorkerInvariant, PTL

(* The tests made when inputs are staged are enough for those a save makes of      *)
(* revisions, frames, the event count and the dispatch budget, and the execution   *)
(* it re-runs does not diverge from the display.  Byte budgets are not modelled.   *)
THEOREM WorkerStagesAdmissible == Spec => []PendingIsAdmissible
  BY WorkerInvariant, StagedIsAdmissible, PTL

(* A worker's own journal, interrupted anywhere and taken up to any of its        *)
(* entries, is never refused by another worker.                                   *)
THEOREM WorkerRecovers == Spec => []OwnJournalReplays
  <1>1. WorkerInv => OwnJournalReplays
    BY DEF WorkerInv
  <1>2. QED
    BY <1>1, WorkerInvariant, PTL

-----------------------------------------------------------------------------
(* The timeline of the journal: edits.rs and recovery.rs against EditTimeline. *)

(* The journal entry that committed a row. *)
Source(rows, m) == rows[m].revision + 1

(* The rows after n entries are the inputs on the branch of those entries, in order. *)
BranchHolds(n) ==
  LET rows == TrackAt(journal, n)
  IN /\ \A m \in 1 .. Len(rows) : /\ Source(rows, m) \in Branch(n)
                                  /\ rows[m] = RowOf(journal[Source(rows, m)].command)
     /\ \A i \in Branch(n) : \E m \in 1 .. Len(rows) : Source(rows, m) = i

(* An input abandons those of later frames, as the track does; a seek none. *)
LEMMA BranchGrows ==
  ASSUME WorkerInv, NEW n \in 1 .. Len(journal), BranchHolds(n - 1)
  PROVE  BranchHolds(n)
  <1> DEFINE c == journal[n].command
             f == c.frame
             old == TrackAt(journal, n - 1)
             new == TrackAt(journal, n)
             IsInput(i) == journal[i].command.kind = "input"
             k == Keep(old, f)
  <1>1. /\ c \in Commands /\ f \in Frames /\ f \in Int /\ n \in Nat /\ n - 1 \in Nat
        /\ PrepareAdmits(c, old, n - 1) /\ new = Prepared(c, old)
        /\ Track(new, n) /\ Track(old, n - 1)
    <2>1. /\ c \in Commands /\ f \in Frames /\ n \in Nat /\ n - 1 \in Nat
          /\ PrepareAdmits(c, old, n - 1) /\ new = Prepared(c, old)
          /\ Track(new, n) /\ Track(old, n - 1)
      BY EntrySays
    <2> HIDE DEF c, f, old, new
    <2>2. f \in Int
      BY <2>1 DEF Frames
    <2>3. QED
      BY <2>1, <2>2
  <1>2. /\ Len(old) \in Nat /\ Len(new) \in Nat
        /\ \A m \in 1 .. Len(old) : old[m] \in Inputs /\ old[m].revision \in Nat /\ old[m].frame \in Int
    BY <1>1, RowFacts DEF Track
  <1>3. /\ \A m \in 1 .. Len(old) : /\ Source(old, m) \in Branch(n - 1)
                                    /\ old[m] = RowOf(journal[Source(old, m)].command)
        /\ \A i \in Branch(n - 1) : \E m \in 1 .. Len(old) : Source(old, m) = i
    BY DEF BranchHolds
  <1>4. \A i \in 1 .. n : i = n \/ i \in 1 .. n - 1
    BY <1>1
  <1>5. \A i \in 1 .. n - 1 : i \in 1 .. n /\ n \in i + 1 .. n /\ \A j \in i + 1 .. n : j = n \/ j \in i + 1 .. n - 1
    BY <1>1
  <1>6. \A i \in 1 .. n - 1 : \A j \in i + 1 .. n - 1 : j \in i + 1 .. n
    BY <1>1
  <1>7. \A j \in n + 1 .. n : FALSE
    BY <1>1
  <1> HIDE DEF c, f, old, new
  <1>8. CASE ~IsInput(n)
    <2>1. new = old
      BY <1>1, <1>8 DEF Prepared, c
    <2>2. Branch(n) = Branch(n - 1)
      <3>1. ASSUME NEW i \in Branch(n) PROVE i \in Branch(n - 1)
        BY <1>4, <1>6, <1>8, <3>1 DEF Branch
      <3>2. ASSUME NEW i \in Branch(n - 1) PROVE i \in Branch(n)
        BY <1>5, <1>8, <3>2 DEF Branch
      <3>3. QED
        BY <3>1, <3>2
    <2>3. QED
      BY <1>3, <2>1, <2>2 DEF BranchHolds, new
  <1>9. CASE IsInput(n)
    <2>1. c.kind = "input" /\ AppendAdmits(c, old, n - 1) /\ c.revision = n - 1 /\ new = AppendRow(c, old)
      BY <1>1, <1>9 DEF c, PrepareAdmits, AppendAdmits, Prepared
    <2>2. /\ Len(new) = k + 1 /\ new[k + 1] = RowOf(c)
          /\ \A i \in 1 .. k : new[i] = old[i]
      BY <1>1, <2>1, AppendTrack DEF f
    <2>3. /\ k \in 0 .. Len(old) /\ \A i \in 1 .. Len(old) : i <= k <=> old[i].frame <= f
      BY <1>1, VisibleRows DEF Keep
    <2>4. Source(new, k + 1) = n
      <3>1. new[k + 1].revision = n - 1
        BY <2>1, <2>2 DEF RowOf
      <3>2. QED
        BY <1>1, <3>1 DEF Source
    <2> HIDE DEF k
    <2>5. \A i \in Branch(n - 1) : journal[i].command.frame <= f => i \in Branch(n)
      <3> SUFFICES ASSUME NEW i \in Branch(n - 1), journal[i].command.frame <= f PROVE i \in Branch(n)
        OBVIOUS
      <3>1. i \in 1 .. n - 1 /\ IsInput(i)
        BY DEF Branch
      <3>2. journal[i].command.frame \in Int
        <4>1. i \in 1 .. Len(journal)
          BY <1>1, <3>1, TrackFacts
        <4>2. journal[i].command.frame \in Frames
          BY <4>1, EntrySays
        <4>3. QED
          BY <4>2 DEF Frames
      <3>3. f >= journal[i].command.frame
        BY <1>1, <3>2
      <3>4. \A j \in i + 1 .. n : IsInput(j) => journal[j].command.frame >= journal[i].command.frame
        BY <1>5, <3>1, <3>3 DEF Branch, f, c
      <3>5. QED
        BY <1>5, <3>1, <3>4 DEF Branch
    <2>6. n \in Branch(n)
      <3>1. n \in 1 .. n
        BY <1>1
      <3>2. QED
        BY <1>7, <1>9, <3>1 DEF Branch
    <2>7. ASSUME NEW i \in Branch(n), i # n
          PROVE  i \in Branch(n - 1) /\ journal[i].command.frame <= f
      <3>1. i \in 1 .. n - 1 /\ n \in i + 1 .. n
        BY <1>4, <1>5, <2>7 DEF Branch
      <3>2. i \in Branch(n - 1)
        BY <1>6, <3>1 DEF Branch
      <3>3. f >= journal[i].command.frame
        BY <1>9, <3>1 DEF Branch, f, c
      <3>4. journal[i].command.frame \in Int
        <4>1. i \in 1 .. Len(journal)
          BY <1>1, <3>1, TrackFacts
        <4>2. journal[i].command.frame \in Frames
          BY <4>1, EntrySays
        <4>3. QED
          BY <4>2 DEF Frames
      <3>5. QED
        BY <1>1, <3>2, <3>3, <3>4
    <2>8. ASSUME NEW m \in 1 .. Len(new)
          PROVE  Source(new, m) \in Branch(n) /\ new[m] = RowOf(journal[Source(new, m)].command)
      <3>1. CASE m = k + 1
        BY <2>2, <2>4, <2>6, <3>1 DEF c
      <3>2. CASE m # k + 1
        <4>1. m \in 1 .. k /\ m \in 1 .. Len(old) /\ m <= k
          BY <1>2, <2>2, <2>3, <2>8, <3>2
        <4>2. new[m] = old[m] /\ Source(new, m) = Source(old, m)
          BY <2>2, <4>1 DEF Source
        <4>3. /\ Source(old, m) \in Branch(n - 1) /\ old[m] = RowOf(journal[Source(old, m)].command)
              /\ old[m].frame <= f
          BY <1>3, <2>3, <4>1
        <4>4. journal[Source(old, m)].command.frame = old[m].frame
          BY <4>3 DEF RowOf
        <4>5. QED
          BY <2>5, <4>2, <4>3, <4>4
      <3>3. QED
        BY <3>1, <3>2
    <2>9. ASSUME NEW i \in Branch(n) PROVE \E m \in 1 .. Len(new) : Source(new, m) = i
      <3>1. CASE i = n
        <4>1. k + 1 \in 1 .. Len(new)
          BY <2>2, <2>3
        <4>2. QED
          BY <2>4, <3>1, <4>1
      <3>2. CASE i # n
        <4>1. i \in Branch(n - 1) /\ journal[i].command.frame <= f
          BY <2>7, <2>9, <3>2
        <4>2. PICK m \in 1 .. Len(old) : Source(old, m) = i
          BY <1>3, <4>1
        <4>3. old[m].frame <= f
          <5>1. old[m] = RowOf(journal[i].command)
            BY <1>3, <4>2
          <5>2. old[m].frame = journal[i].command.frame
            BY <5>1 DEF RowOf
          <5>3. QED
            BY <4>1, <5>2
        <4>4. m <= k
          BY <2>3, <4>3
        <4>5. m \in 1 .. k /\ m \in 1 .. Len(new)
          BY <1>2, <2>2, <2>3, <4>4
        <4>6. Source(new, m) = i
          BY <2>2, <4>2, <4>5 DEF Source
        <4>7. QED
          BY <4>5, <4>6
      <3>3. QED
        BY <3>1, <3>2
    <2>10. QED
      BY <2>8, <2>9 DEF BranchHolds, new
  <1>10. QED
    BY <1>8, <1>9

(* So for every part of the journal. *)
LEMMA BranchIs ==
  ASSUME WorkerInv
  PROVE  \A n \in 0 .. Len(journal) : BranchHolds(n)
  <1> DEFINE Missing == {n \in 0 .. Len(journal) : ~ BranchHolds(n)}
  <1>1. Len(journal) \in Nat
    BY TrackFacts
  <1>2. BranchHolds(0)
    <2>1. TrackAt(journal, 0) = <<>> /\ Len(<<>>) = 0
      BY DEF TrackAt
    <2>2. Branch(0) = {}
      BY DEF Branch
    <2>3. QED
      BY <2>1, <2>2 DEF BranchHolds
  <1>3. Missing = {}
    <2> SUFFICES ASSUME Missing # {} PROVE FALSE
      OBVIOUS
    <2>1. Missing \in SUBSET Nat
      BY <1>1
    <2>2. PICK n \in Missing : \A k \in Missing : n <= k
      BY <2>1, LeastNat
    <2>3. n \in 1 .. Len(journal) /\ n - 1 \in 0 .. Len(journal) /\ ~ (n <= n - 1)
      <3>1. n \in 0 .. Len(journal) /\ n # 0
        BY <1>2, <2>2
      <3>2. QED
        BY <1>1, <3>1
    <2>4. BranchHolds(n - 1)
      BY <2>2, <2>3
    <2>5. QED
      BY <2>2, <2>3, <2>4, BranchGrows
  <1>4. QED
    BY <1>3

(* An increasing sequence enumerates its set: its m-th element is the m-th of the set. *)
LEMMA Enumerates ==
  ASSUME NEW n \in Nat, NEW S \in SUBSET Nat, NEW s \in [1 .. n -> S],
         \A i, j \in 1 .. n : i < j => s[i] < s[j],
         \A x \in S : \E i \in 1 .. n : s[i] = x
  PROVE  /\ Cardinality(S) = n
         /\ \A m \in 1 .. n : Nth(S, m) = s[m]
  <1>1. \A i, j \in 1 .. n : s[i] \in Nat /\ s[j] \in Nat /\ (s[i] <= s[j] <=> i <= j)
    <2> TAKE i, j \in 1 .. n
    <2>1. s[i] \in S /\ s[j] \in S
      OBVIOUS
    <2>2. s[i] \in Nat /\ s[j] \in Nat
      BY <2>1
    <2>3. i \in Int /\ j \in Int
      OBVIOUS
    <2>4. CASE i < j
      <3>1. s[i] < s[j]
        BY <2>4
      <3>2. QED
        BY <2>2, <2>3, <2>4, <3>1
    <2>5. CASE j < i
      <3>1. s[j] < s[i]
        BY <2>5
      <3>2. QED
        BY <2>2, <2>3, <2>5, <3>1
    <2>6. CASE i = j
      BY <2>2, <2>3, <2>6
    <2>7. QED
      BY <2>2, <2>3, <2>4, <2>5, <2>6
  <1>2. ASSUME NEW m \in 0 .. n
        PROVE  Cardinality({s[i] : i \in 1 .. m}) = m
    <2> DEFINE t == [i \in 1 .. m |-> s[i]]
               U == {s[i] : i \in 1 .. m}
    <2>0. \A i \in 1 .. m : i \in 1 .. n
      OBVIOUS
    <2>1. t \in Bijection(1 .. m, U)
      <3>1. t \in [1 .. m -> U]
        OBVIOUS
      <3>2. t \in Injection(1 .. m, U)
        <4>1. \A i, j \in 1 .. m : t[i] = t[j] => i = j
          <5> SUFFICES ASSUME NEW i \in 1 .. m, NEW j \in 1 .. m, t[i] = t[j] PROVE i = j
            OBVIOUS
          <5>1. s[i] = s[j]
            OBVIOUS
          <5>2. i \in 1 .. n /\ j \in 1 .. n
            BY <2>0
          <5>3. i <= j /\ j <= i
            BY <1>1, <5>1, <5>2
          <5>4. QED
            BY <5>3
        <4>2. QED
          BY <3>1, <4>1 DEF Injection, IsInjective
      <3>3. t \in Surjection(1 .. m, U)
        BY <3>1 DEF Surjection
      <3>4. QED
        BY <3>2, <3>3 DEF Bijection
    <2>2. m \in Nat
      OBVIOUS
    <2>3. IsFiniteSet(1 .. m) /\ Cardinality(1 .. m) = m
      BY <2>2, FS_Interval
    <2> HIDE DEF t, U
    <2>4. ExistsBijection(1 .. m, U)
      BY <2>1 DEF ExistsBijection
    <2>5. Cardinality(U) = m
      BY <2>3, <2>4, FS_Bijection
    <2>6. QED
      BY <2>5 DEF U
  <1>3. Cardinality(S) = n
    <2>1. S = {s[i] : i \in 1 .. n}
      <3>1. \A i \in 1 .. n : s[i] \in S
        OBVIOUS
      <3>2. QED
        BY <3>1
    <2>2. n \in 0 .. n
      OBVIOUS
    <2>3. QED
      BY <1>2, <2>1, <2>2
  <1>4. ASSUME NEW m \in 1 .. n
        PROVE  Cardinality({x \in S : x <= s[m]}) = m
    <2>1. {x \in S : x <= s[m]} = {s[i] : i \in 1 .. m}
      <3>1. ASSUME NEW x \in S, x <= s[m] PROVE \E i \in 1 .. m : x = s[i]
        <4>1. PICK i \in 1 .. n : s[i] = x
          OBVIOUS
        <4>2. i <= m
          BY <1>1, <3>1, <4>1
        <4>3. i \in 1 .. m
          BY <4>2
        <4>4. QED
          BY <4>1, <4>3
      <3>2. ASSUME NEW i \in 1 .. m PROVE s[i] \in S /\ s[i] <= s[m]
        <4>1. i \in 1 .. n /\ i <= m
          OBVIOUS
        <4>2. s[i] \in S
          BY <4>1
        <4>3. QED
          BY <1>1, <4>1, <4>2
      <3>3. QED
        BY <3>1, <3>2
    <2>2. m \in 0 .. n
      OBVIOUS
    <2>3. QED
      BY <1>2, <2>1, <2>2
  <1>5. ASSUME NEW m \in 1 .. n PROVE Nth(S, m) = s[m]
    <2>1. s[m] \in S
      OBVIOUS
    <2>2. ASSUME NEW x \in S, Cardinality({y \in S : y <= x}) = m PROVE x = s[m]
      <3>1. PICK i \in 1 .. n : s[i] = x
        OBVIOUS
      <3>2. Cardinality({y \in S : y <= s[i]}) = i
        BY <1>4
      <3>3. i = m
        BY <2>2, <3>1, <3>2
      <3>4. QED
        BY <3>1, <3>3
    <2>3. QED
      BY <1>4, <2>1, <2>2 DEF Nth
  <1>6. QED
    BY <1>3, <1>5

(* What a version of the timeline dispatches: the track the journal records there. *)
LEMMA VersionIs ==
  ASSUME WorkerInv, NEW n \in 0 .. Len(journal)
  PROVE  Version(n) = DispatchedRows(TrackAt(journal, n))
  <1> DEFINE rows == TrackAt(journal, n)
             s == [m \in 1 .. Len(rows) |-> Source(rows, m)]
  <1>1. CASE Serving /\ n = reuse
    <2>1. edits = TrackAt(journal, n)
      BY <1>1 DEF WorkerInv, WorkerTypeOK, Journal
    <2>2. QED
      BY <1>1, <2>1 DEF Version
  <1>2. CASE ~ (Serving /\ n = reuse)
    <2>1. Track(rows, n) /\ BranchHolds(n)
      BY TrackFacts, BranchIs
    <2> HIDE DEF rows
    <2>2. /\ Len(rows) \in Nat
          /\ \A m \in 1 .. Len(rows) : rows[m].revision \in Nat
      BY <2>1, RowFacts DEF Track
    <2>3. /\ \A m \in 1 .. Len(rows) : Source(rows, m) \in Branch(n) /\ rows[m] = RowOf(journal[Source(rows, m)].command)
          /\ \A i \in Branch(n) : \E m \in 1 .. Len(rows) : Source(rows, m) = i
      BY <2>1 DEF BranchHolds, rows
    <2>4. s \in [1 .. Len(rows) -> Branch(n)]
      BY <2>3
    <2>5. \A i, j \in 1 .. Len(rows) : i < j => s[i] < s[j]
      <3> SUFFICES ASSUME NEW i \in 1 .. Len(rows), NEW j \in 1 .. Len(rows), i < j PROVE s[i] < s[j]
        OBVIOUS
      <3>1. rows[i].revision < rows[j].revision
        BY <2>1 DEF Track
      <3>2. Source(rows, i) < Source(rows, j)
        BY <2>2, <3>1 DEF Source
      <3>3. QED
        BY <3>2
    <2>6. \A i \in Branch(n) : \E m \in 1 .. Len(rows) : s[m] = i
      BY <2>3
    <2>7. Branch(n) \in SUBSET Nat
      BY DEF Branch
    <2>8. \A m \in 1 .. Len(rows) : s[m] = Source(rows, m)
      OBVIOUS
    <2> HIDE DEF s
    <2>9. Cardinality(Branch(n)) = Len(rows) /\ \A m \in 1 .. Len(rows) : Nth(Branch(n), m) = s[m]
      BY <2>2, <2>4, <2>5, <2>6, <2>7, Enumerates
    <2>10. Version(n) = [m \in 1 .. Len(rows) |-> Dispatched(journal[Nth(Branch(n), m)].command)]
      BY <1>2, <2>9 DEF Version
    <2>11. ASSUME NEW m \in 1 .. Len(rows)
           PROVE  Dispatched(journal[Nth(Branch(n), m)].command) = Dispatched(rows[m])
      <3>1. Nth(Branch(n), m) = Source(rows, m)
        BY <2>8, <2>9
      <3>2. rows[m] = RowOf(journal[Source(rows, m)].command)
        BY <2>3
      <3>3. \A x : Dispatched(RowOf(x)) = Dispatched(x)
        BY DEF Dispatched, RowOf
      <3>4. QED
        BY <3>1, <3>2, <3>3
    <2>12. QED
      BY <2>10, <2>11 DEF DispatchedRows, rows
  <1>3. QED
    BY <1>1, <1>2

VersionsOf(j) == [n \in 1 .. Len(j) + 1 |-> DispatchedRows(TrackAt(j, n - 1))]

VersionsKept == Versions = VersionsOf(journal)

(* The versions of the timeline are the tracks of the journal. *)
LEMMA VersionsAre == WorkerInv => VersionsKept
  <1> SUFFICES ASSUME WorkerInv PROVE Versions = VersionsOf(journal)
    BY DEF VersionsKept
  <1>1. ASSUME NEW n \in 1 .. Len(journal) + 1
        PROVE  Version(n - 1) = DispatchedRows(TrackAt(journal, n - 1))
    <2>1. n - 1 \in 0 .. Len(journal)
      BY TrackFacts
    <2>2. QED
      BY <2>1, VersionIs
  <1>2. QED
    BY <1>1 DEF Versions, VersionsOf

(* What a version is made of. *)
LEMMA VersionFacts ==
  ASSUME NEW n, NEW rows, Track(rows, n)
  PROVE  /\ DispatchedRows(rows) \in Seq(Dispatches) /\ Len(DispatchedRows(rows)) = Len(rows)
         /\ \A i \in 1 .. Len(rows) : /\ DispatchedRows(rows)[i] = Dispatched(rows[i])
                                      /\ DispatchedRows(rows)[i].frame = rows[i].frame
  <1>1. rows \in Seq(Inputs)
    BY DEF Track
  <1>2. /\ DispatchedRows(rows) \in Seq(Dispatches) /\ Len(DispatchedRows(rows)) = Len(rows)
        /\ \A i \in 1 .. Len(rows) : DispatchedRows(rows)[i] = Dispatched(rows[i])
    BY <1>1, InputsCarry, DispatchedFacts
  <1>3. \A i \in 1 .. Len(rows) : Dispatched(rows[i]).frame = rows[i].frame
    BY DEF Dispatched
  <1>4. QED
    BY <1>2, <1>3

(* A command leaves the timeline alone, or cuts it at its frame and adds one input. *)
LEMMA CommandFollows ==
  ASSUME NEW n \in Nat, NEW rows, Track(rows, n), NEW c \in Commands, PrepareAdmits(c, rows, n)
  PROVE  Timeline!Follows(DispatchedRows(rows), DispatchedRows(Prepared(c, rows)), c.frame)
  <1> DEFINE f == c.frame
             k == Keep(rows, f)
             new == AppendRow(c, rows)
             before == DispatchedRows(rows)
             after == DispatchedRows(new)
             d == [frame |-> f, event |-> c.event]
  <1>1. CASE c.kind # "input"
    BY <1>1 DEF Prepared, Timeline!Follows
  <1>2. CASE c.kind = "input"
    <2>1. f \in Frames /\ f \in Int /\ c.event \in Events
      <3>1. f \in Frames /\ c.event \in Events
        BY <1>2, CommandFacts
      <3>2. QED
        BY <3>1 DEF Frames
    <2>2. AppendAdmits(c, rows, n) /\ Prepared(c, rows) = new
      BY <1>2 DEF PrepareAdmits, Prepared
    <2>3. /\ Track(new, n + 1) /\ Len(new) = k + 1
          /\ new[k + 1] = RowOf(c)
          /\ \A i \in 1 .. k : new[i] = rows[i]
      BY <1>2, <2>2, AppendTrack
    <2>4. k \in 0 .. Len(rows) /\ \A i \in 1 .. Len(rows) : i <= k <=> rows[i].frame <= f
      BY <2>1, VisibleRows DEF Keep
    <2>5. /\ before \in Seq(Dispatches) /\ Len(before) = Len(rows) /\ Len(rows) \in Nat
          /\ \A i \in 1 .. Len(rows) : before[i] = Dispatched(rows[i]) /\ before[i].frame = rows[i].frame
      BY VersionFacts, RowFacts DEF Track
    <2>6. /\ after \in Seq(Dispatches) /\ Len(after) = k + 1
          /\ \A i \in 1 .. k + 1 : after[i] = Dispatched(new[i])
      BY <2>3, VersionFacts
    <2>7. d \in Dispatches /\ Dispatched(RowOf(c)) = d
      BY <2>1 DEF Dispatches, Dispatched, RowOf
    <2> HIDE DEF k, new, before, after, d, f
    <2>8. k \in Nat /\ k \in 0 .. Len(before)
      BY <2>4, <2>5
    <2>9. /\ Prefix(before, k) \in Seq(Dispatches) /\ Len(Prefix(before, k)) = k
          /\ \A i \in 1 .. k : Prefix(before, k)[i] = before[i]
      BY <2>5, <2>8, PrefixOf
    <2>10. /\ Append(Prefix(before, k), d) \in Seq(Dispatches)
           /\ Len(Append(Prefix(before, k), d)) = k + 1
           /\ \A i \in 1 .. k : Append(Prefix(before, k), d)[i] = Prefix(before, k)[i]
           /\ Append(Prefix(before, k), d)[k + 1] = d
      BY <2>7, <2>9
    <2>11. \A i \in 1 .. k + 1 : after[i] = Append(Prefix(before, k), d)[i]
      <3> TAKE i \in 1 .. k + 1
      <3>1. CASE i \in 1 .. k
        <4>1. i \in 1 .. Len(rows)
          BY <2>4, <2>5, <3>1
        <4>2. after[i] = Dispatched(rows[i])
          BY <2>3, <2>6, <3>1
        <4>3. before[i] = Dispatched(rows[i])
          BY <2>5, <4>1
        <4>4. QED
          BY <2>9, <2>10, <3>1, <4>2, <4>3
      <3>2. CASE i = k + 1
        BY <2>3, <2>6, <2>7, <2>10, <3>2
      <3>3. i \in 1 .. k \/ i = k + 1
        BY <2>8
      <3>4. QED
        BY <3>1, <3>2, <3>3
    <2>12. after = Append(Prefix(before, k), d)
      BY <2>6, <2>10, <2>11, SeqEqual
    <2>13. \A i \in 1 .. Len(before) : i <= k <=> before[i].frame <= f
      BY <2>4, <2>5
    <2>14. after = Append(SubSeq(before, 1, k), [frame |-> f, event |-> c.event])
      BY <2>12 DEF Prefix, d
    <2>15. Timeline!Follows(before, after, f)
      BY <2>1, <2>8, <2>13, <2>14 DEF Timeline!Follows
    <2>16. QED
      BY <2>2, <2>15 DEF before, after, f
  <1>3. QED
    BY <1>1, <1>2

(* What a journal's versions are. *)
LEMMA VersionsShape ==
  ASSUME NEW j, Len(j) \in Nat, \A i \in 1 .. Len(j) : Track(TrackAt(j, i), i)
  PROVE  /\ VersionsOf(j) \in Seq(Seq(Dispatches)) /\ Len(VersionsOf(j)) = Len(j) + 1
         /\ \A n \in 1 .. Len(j) + 1 : VersionsOf(j)[n] = DispatchedRows(TrackAt(j, n - 1))
         /\ \A i \in 0 .. Len(j) : Track(TrackAt(j, i), i)
  <1>1. ASSUME NEW i \in 0 .. Len(j) PROVE Track(TrackAt(j, i), i)
    <2>1. CASE i = 0
      BY <2>1, EmptyTrack DEF TrackAt
    <2>2. CASE i # 0
      BY <2>2
    <2>3. QED
      BY <2>1, <2>2
  <1>2. ASSUME NEW n \in 1 .. Len(j) + 1
        PROVE  DispatchedRows(TrackAt(j, n - 1)) \in Seq(Dispatches)
    <2>1. n - 1 \in 0 .. Len(j)
      OBVIOUS
    <2>2. Track(TrackAt(j, n - 1), n - 1)
      BY <1>1, <2>1
    <2>3. QED
      BY <2>2, VersionFacts
  <1>3. VersionsOf(j) \in [1 .. Len(j) + 1 -> Seq(Dispatches)]
    BY <1>2 DEF VersionsOf
  <1>4. VersionsOf(j) \in Seq(Seq(Dispatches)) /\ Len(VersionsOf(j)) = Len(j) + 1
    <2>1. Len(j) + 1 \in Nat
      OBVIOUS
    <2>2. QED
      BY <1>3, <2>1
  <1>5. \A n \in 1 .. Len(j) + 1 : VersionsOf(j)[n] = DispatchedRows(TrackAt(j, n - 1))
    BY DEF VersionsOf
  <1>6. QED
    BY <1>1, <1>4, <1>5

(* A step that leaves the journal alone reopens one of its versions, or does nothing. *)
LEMMA ReopenTimeline ==
  ASSUME WorkerInv, WorkerInv', journal' = journal
  PROVE  Timeline!Reopen
  <1>1. Versions = VersionsOf(journal)
    BY VersionsAre DEF VersionsKept
  <1>2. Versions' = VersionsOf(journal)'
    <2>1. VersionsKept'
      BY VersionsAre, PTL
    <2>2. QED
      BY <2>1 DEF VersionsKept
  <1>3. VersionsOf(journal)' = VersionsOf(journal)
    BY DEF VersionsOf, TrackAt
  <1>4. Versions' = Versions
    BY <1>1, <1>2, <1>3
  <1>5. Len(journal) \in Nat /\ reuse' \in 0 .. Len(journal')
    BY TrackFacts DEF WorkerInv, WorkerTypeOK
  <1>6. Len(Versions) = Len(journal) + 1
    <2>1. \A i \in 1 .. Len(journal) : Track(TrackAt(journal, i), i)
      BY DEF WorkerInv, Journal, Recorded
    <2>2. QED
      BY <1>1, <1>5, <2>1, VersionsShape
  <1>7. (reuse + 1)' \in 1 .. Len(Versions)
    <2>1. reuse' \in 0 .. Len(journal)
      BY <1>5
    <2> DEFINE r == reuse'
               l == Len(journal)
    <2> HIDE DEF r, l
    <2>2. r + 1 \in 1 .. l + 1
      <3>1. l \in Nat /\ r \in 0 .. l
        BY <1>5, <2>1 DEF r, l
      <3>2. QED
        BY <3>1
    <2>3. QED
      BY <1>6, <2>2 DEF r, l
  <1>8. QED
    BY <1>4, <1>7 DEF Timeline!Reopen

(* A command or a batch commits: the version that was open stays, those after it are *)
(* replaced by what the commands leave one after the other.                          *)
LEMMA CommitTimeline ==
  ASSUME WorkerInv, WorkerInv', NEW f \in Frames, \E p, rows, entries, at : Adds(f, p, rows, entries, at)
  PROVE  Timeline!Commit(f)
  <1>0. PICK p, rows, entries, at : Adds(f, p, rows, entries, at)
    OBVIOUS
  <1> DEFINE n == Len(entries)
             j == journal'
  <1>1. /\ j = Prefix(journal, position) \o entries /\ reuse' = Len(j) /\ position = reuse
        /\ entries \in Seq(Entries) /\ entries # <<>> /\ Continues(entries)
        /\ \A m \in 1 .. n : entries[m].command.frame = f
    BY <1>0 DEF Adds, Install, WorkerInv, WorkerTypeOK
  <1>2. n \in Nat /\ n >= 1
    BY <1>1, EmptySeq
  <1> HIDE DEF j, n
  <1>3. /\ j \in Seq(Entries) /\ Len(j) = position + n
        /\ \A i \in 1 .. Len(j) : Recorded(j, i)
        /\ \A i \in 0 .. position : TrackAt(j, i) = TrackAt(journal, i)
        /\ \A m \in 1 .. n : j[position + m] = entries[m]
    BY <1>1, Extended DEF n
  <1>4. position \in Nat /\ Len(journal) \in Nat /\ Len(j) \in Nat /\ position <= Len(journal)
    BY <1>2, <1>3, TrackFacts
  <1>5. /\ VersionsOf(journal) \in Seq(Seq(Dispatches)) /\ Len(VersionsOf(journal)) = Len(journal) + 1
        /\ \A i \in 1 .. Len(journal) + 1 : VersionsOf(journal)[i] = DispatchedRows(TrackAt(journal, i - 1))
    <2>1. \A i \in 1 .. Len(journal) : Track(TrackAt(journal, i), i)
      BY DEF WorkerInv, Journal, Recorded
    <2>2. QED
      BY <1>4, <2>1, VersionsShape
  <1>6. /\ VersionsOf(j) \in Seq(Seq(Dispatches)) /\ Len(VersionsOf(j)) = Len(j) + 1
        /\ \A i \in 1 .. Len(j) + 1 : VersionsOf(j)[i] = DispatchedRows(TrackAt(j, i - 1))
        /\ \A i \in 0 .. Len(j) : Track(TrackAt(j, i), i)
    <2>1. \A i \in 1 .. Len(j) : Track(TrackAt(j, i), i)
      BY <1>3 DEF Recorded
    <2>2. QED
      BY <1>4, <2>1, VersionsShape
  <1>7. Versions = VersionsOf(journal)
    BY VersionsAre DEF VersionsKept
  <1>8. Versions' = VersionsOf(j)
    <2>1. Versions' = VersionsOf(journal)'
      <3>1. VersionsKept'
        BY VersionsAre, PTL
      <3>2. QED
        BY <3>1 DEF VersionsKept
    <2>2. VersionsOf(journal)' = VersionsOf(j)
      BY DEF VersionsOf, TrackAt, j
    <2>3. QED
      BY <2>1, <2>2
  <1>9. (reuse + 1)' = Len(Versions') /\ (reuse + 1)' > reuse + 1
    BY <1>1, <1>2, <1>3, <1>4, <1>6, <1>8
  <1>10. SubSeq(Versions', 1, reuse + 1) = SubSeq(Versions, 1, reuse + 1)
    <2>1. reuse + 1 \in Nat /\ reuse + 1 <= Len(VersionsOf(j)) /\ reuse + 1 <= Len(VersionsOf(journal))
      BY <1>1, <1>2, <1>3, <1>4, <1>5, <1>6
    <2>2. ASSUME NEW i \in 1 .. reuse + 1 PROVE VersionsOf(j)[i] = VersionsOf(journal)[i]
      <3>1. i \in 1 .. Len(j) + 1 /\ i \in 1 .. Len(journal) + 1 /\ i - 1 \in 0 .. position
        BY <1>1, <1>2, <1>3, <1>4
      <3>2. TrackAt(j, i - 1) = TrackAt(journal, i - 1)
        BY <1>3, <3>1
      <3>3. QED
        BY <1>5, <1>6, <3>1, <3>2
    <2>3. Prefix(VersionsOf(j), reuse + 1) = Prefix(VersionsOf(journal), reuse + 1)
      BY <1>5, <1>6, <2>1, <2>2, PrefixAgree
    <2>4. QED
      BY <1>7, <1>8, <2>3 DEF Prefix
  <1>11. ASSUME NEW i \in reuse + 1 + 1 .. (reuse + 1)'
         PROVE  Timeline!Follows(Versions'[i - 1], Versions'[i], f)
    <2> DEFINE q == i - 1
               m == q - position
    <2>1. /\ i \in 1 .. Len(j) + 1 /\ i - 1 \in 1 .. Len(j) + 1 /\ q \in 1 .. Len(j) /\ (i - 1) - 1 = q - 1
          /\ q - 1 \in 0 .. Len(j) /\ q - 1 \in Nat /\ m \in 1 .. n /\ position + m = q
      BY <1>1, <1>2, <1>3, <1>4
    <2>2. Versions'[i] = DispatchedRows(TrackAt(j, q)) /\ Versions'[i - 1] = DispatchedRows(TrackAt(j, q - 1))
      BY <1>6, <1>8, <2>1
    <2> HIDE DEF q, m
    <2>3. /\ PrepareAdmits(j[q].command, TrackAt(j, q - 1), q - 1)
          /\ TrackAt(j, q) = Prepared(j[q].command, TrackAt(j, q - 1))
      BY <1>3, <2>1 DEF Recorded
    <2>4. Track(TrackAt(j, q - 1), q - 1)
      BY <1>6, <2>1
    <2>5. j[q].command \in Commands
      <3>1. j[q] \in Entries
        BY <1>3, <2>1, ElementOfSeq
      <3>2. QED
        BY <3>1 DEF Entries
    <2>6. j[q].command.frame = f
      BY <1>1, <1>3, <2>1
    <2>7. Timeline!Follows(DispatchedRows(TrackAt(j, q - 1)), DispatchedRows(TrackAt(j, q)), f)
      BY <2>1, <2>3, <2>4, <2>5, <2>6, CommandFollows
    <2>8. QED
      BY <2>2, <2>7
  <1>12. QED
    BY <1>9, <1>10, <1>11 DEF Timeline!Commit

(* An empty journal has one version, the empty timeline. *)
LEMMA InitTimeline == Init => Timeline!Init
  <1> SUFFICES ASSUME Init PROVE Timeline!Init
    OBVIOUS
  <1>1. WorkerInv
    BY InitWorkerInv
  <1>2. journal = <<>> /\ Len(journal) = 0 /\ reuse = 0
    BY EmptySeq DEF Init
  <1>3. Versions = [n \in 1 .. 1 |-> DispatchedRows(TrackAt(journal, n - 1))]
    BY <1>1, <1>2, VersionsAre DEF VersionsKept, VersionsOf
  <1>4. \A n \in 1 .. 1 : DispatchedRows(TrackAt(journal, n - 1)) = <<>>
    <2> TAKE n \in 1 .. 1
    <2>1. n - 1 = 0
      OBVIOUS
    <2>2. TrackAt(journal, n - 1) = <<>>
      BY <2>1 DEF TrackAt
    <2>3. QED
      BY <2>2, BlankIsFresh
  <1>5. Versions = [n \in 1 .. 1 |-> <<>>]
    BY <1>3, <1>4
  <1>6. Versions = << <<>> >>
    BY <1>5
  <1>7. QED
    BY <1>2, <1>6 DEF Timeline!Init

(* Commands commit, recoveries reopen, and previews leave the timeline alone. *)
LEMMA StepTimeline == WorkerInv /\ WorkerInv' /\ [Next]_vars => Timeline!Next
  <1> SUFFICES ASSUME WorkerInv, WorkerInv', [Next]_vars PROVE Timeline!Next
    OBVIOUS
  <1>1. ASSUME NEW f \in Frames, \E p, rows, entries, at : Adds(f, p, rows, entries, at)
        PROVE  Timeline!Next
    BY <1>1, CommitTimeline DEF Timeline!Next
  <1>2. ASSUME journal' = journal PROVE Timeline!Next
    BY <1>2, ReopenTimeline DEF Timeline!Next
  <1>3. ASSUME NEW f \in Frames, Record(SeekCommand(f)) PROVE Timeline!Next
    <2>1. SeekCommand(f) \in Commands /\ SeekCommand(f).frame = f
      BY DEF SeekCommand, Commands
    <2>2. \E p, rows, entries, at : Adds(f, p, rows, entries, at)
      BY <1>3, <2>1, RecordAdds
    <2>3. QED
      BY <1>1, <2>2
  <1>4. ASSUME NEW f \in Frames, Save(f) PROVE Timeline!Next
    BY <1>1, <1>4, SaveAdds
  <1>5. ASSUME NEW f \in Frames, NEW e \in Events, Record(InputCommand(f, position, e)) PROVE Timeline!Next
    <2>1. position \in Nat
      BY TrackFacts
    <2>2. InputCommand(f, position, e) \in Commands /\ InputCommand(f, position, e).frame = f
      BY <2>1 DEF InputCommand, Commands
    <2>3. \E p, rows, entries, at : Adds(f, p, rows, entries, at)
      BY <1>5, <2>2, RecordAdds
    <2>4. QED
      BY <1>1, <2>3
  <1>6. ASSUME NEW f \in Frames, Seek(f) \/ SeekFails(f) PROVE Timeline!Next
    BY <1>2, <1>6 DEF Seek, SeekFails
  <1>7. ASSUME NEW e \in Events, Event(e) PROVE Timeline!Next
    BY <1>2, <1>7 DEF Event
  <1>8. ASSUME EventFails PROVE Timeline!Next
    BY <1>2, <1>8 DEF EventFails
  <1>9. ASSUME Lost PROVE Timeline!Next
    BY <1>2, <1>9 DEF Lost
  <1>10. ASSUME Restore PROVE Timeline!Next
    <2>1. journal' = journal
      BY <1>10 DEF Restore, Refuse
    <2>2. QED
      BY <1>2, <2>1
  <1>11. ASSUME Replay PROVE Timeline!Next
    <2>1. journal' = journal
      <3> DEFINE run == ReplayRun
      <3> HIDE DEF run
      <3>1. phase = "replay" /\
            CASE ~run.admitted -> Refuse("refused")
              [] run.admitted /\ Overworked(run) -> Refuse("overworked")
              [] run.admitted /\ ~Overworked(run) /\ ~run.faithful -> Refuse("refused")
              [] OTHER ->
                   /\ program' = run.program /\ edits' = run.rows
                   /\ pending' = <<>> /\ clean' = TRUE
                   /\ position' = reuse /\ lastCheckpoint' = run.checkpoint
                   /\ phase' = "serving"
                   /\ UNCHANGED <<journal, reuse, crashes>>
        BY <1>11 DEF Replay, run
      <3>2. QED
        BY <3>1 DEF Refuse
    <2>2. QED
      BY <1>2, <2>1
  <1>12. ASSUME UNCHANGED vars PROVE Timeline!Next
    BY <1>2, <1>12 DEF vars
  <1>13. QED
    BY <1>3, <1>4, <1>5, <1>6, <1>7, <1>8, <1>9, <1>10, <1>11, <1>12 DEF Next

(* The worker and its journal implement what an author is promised: every commit    *)
(* cuts the timeline at its frame and adds to it, a batch as a whole, and whatever   *)
(* is lost, restored or replayed, each version on record reopens as it was.         *)
THEOREM WorkerKeepsTheTimeline == Spec => ImplementsTimeline
  BY InitTimeline, StepTimeline, WorkerInvariant, PTL DEF Spec, ImplementsTimeline, Timeline!Spec

=============================================================================
