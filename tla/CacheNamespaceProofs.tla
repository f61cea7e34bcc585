------------------------ MODULE CacheNamespaceProofs ------------------------
(***************************************************************************)
(* What CacheNamespace promises for every set of callers, handles, stores, *)
(* keys and payloads, every ceiling and every bound: the answers it gives, *)
(* the pins its passes respect and the ceiling they reach.                 *)
(***************************************************************************)
EXTENDS CacheNamespace, FiniteSetTheorems, WellFoundedInduction, TLAPS

\* A nonempty set of naturals has a least element.
LEMMA LeastNatural ==
    ASSUME NEW T, T \subseteq Nat, T # {}
    PROVE  \E x \in T : \A y \in T : x <= y
<1> DEFINE Less == {p \in Nat \X Nat : p[1] < p[2]}
<1>1. IsWellFoundedOn(Less, Nat)
    BY NatLessThanWellFounded DEF OpToRel
<1>2. PICK x \in T : \A y \in T : ~(<<y, x>> \in Less)
    <2> HIDE DEF Less
    <2> QED  BY <1>1, WFMin
<1>3. \A y \in T : x <= y
    <2> TAKE y \in T
    <2>1. x \in Nat /\ y \in Nat
        OBVIOUS
    <2>2. ~(y < x)
        <3> SUFFICES ASSUME y < x PROVE FALSE
            OBVIOUS
        <3>1. <<y, x>> \in Less
            BY <2>1
        <3> QED  BY <3>1, <1>2
    <2> QED  BY <2>1, <2>2
<1>4. QED
    BY <1>3

----------------------------------------------------------------------------
\* Access logs

\* What a log's sequences and the index are: naturals for some of the keys.
Sequences == UNION {[S -> Nat] : S \in SUBSET Keys}

\* An access log: no entry was used later than the log has counted.
Logs == {l \in [seq : Sequences, next : Nat] :
            \A k \in DOMAIN l.seq : l.seq[k] <= l.next}

----------------------------------------------------------------------------
\* The access log's operators

\* A set of keys is finite, and so has no more members than there are keys.
LEMMA KeySets ==
    ASSUME NEW S, S \subseteq Keys
    PROVE  IsFiniteSet(S) /\ Cardinality(S) \in 0 .. Cardinality(Keys)
<1>1. IsFiniteSet(Keys)
    BY NamespaceAssumption
<1>2. IsFiniteSet(S) /\ Cardinality(S) <= Cardinality(Keys)
    BY <1>1, FS_Subset
<1>3. Cardinality(S) \in Nat /\ Cardinality(Keys) \in Nat
    BY <1>1, <1>2, FS_CardinalityType
<1>4. QED
    BY <1>2, <1>3

\* The sequences of a log.
LEMMA SequenceType ==
    ASSUME NEW S, S \subseteq Keys, NEW f \in [S -> Nat]
    PROVE  f \in Sequences
<1>1. QED
    BY DEF Sequences

\* A sequence map numbers some of the keys.
LEMMA SequenceIs ==
    ASSUME NEW f \in Sequences
    PROVE  DOMAIN f \subseteq Keys /\ f \in [DOMAIN f -> Nat]
<1>1. QED
    BY DEF Sequences

\* A log numbers keys with what is at most its counter.
LEMMA LogIs ==
    ASSUME NEW l \in Logs
    PROVE  /\ l.seq \in Sequences /\ l.next \in Nat
           /\ DOMAIN l.seq \subseteq Keys /\ l.seq \in [DOMAIN l.seq -> Nat]
           /\ \A k \in DOMAIN l.seq : l.seq[k] <= l.next
<1>1. l.seq \in Sequences
    BY DEF Logs
<1>2. QED
    BY <1>1, SequenceIs DEF Logs

\* touch gives its key the next sequence.
LEMMA TouchedLog ==
    ASSUME NEW l \in Logs, NEW k \in Keys
    PROVE  Touched(l, k) \in Logs
<1>1. PICK S \in SUBSET Keys : l.seq \in [S -> Nat]
    BY DEF Logs, Sequences
<1>2. Touched(l, k).seq \in [S \cup {k} -> Nat]
    BY <1>1, LogIs DEF Touched
<1>3. Touched(l, k).seq \in Sequences
    BY <1>2, SequenceType
<1>4. QED
    BY <1>1, <1>2, <1>3, LogIs DEF Touched, Logs

\* Dropping entries from a log leaves the others as they are.
LEMMA WithoutLog ==
    ASSUME NEW l \in Logs, NEW ks
    PROVE  /\ Without(l, ks) \in Logs
           /\ DOMAIN Without(l, ks).seq = DOMAIN l.seq \ ks
<1>1. Without(l, ks) = [seq |-> [k \in DOMAIN l.seq \ ks |-> l.seq[k]], next |-> l.next]
    BY DEF Without, Logs
<1>2. Without(l, ks).seq \in [DOMAIN l.seq \ ks -> Nat]
    BY <1>1, LogIs
<1>3. Without(l, ks).seq \in Sequences
    BY <1>2, LogIs, SequenceType
<1>4. QED
    BY <1>1, <1>2, <1>3, LogIs DEF Logs

\* After a reconciliation that reached every entry of its scan the log lists
\* what the scan found and is still stored.
LEMMA ReconciledLog ==
    ASSUME NEW l \in Logs, NEW scanned \in SUBSET Keys, NEW reached \in SUBSET Keys
    PROVE  /\ Reconciled(l, scanned, reached) \in Logs
           /\ DOMAIN Reconciled(l, scanned, reached).seq
                 = ((DOMAIN l.seq \cap scanned) \ reached) \cup (reached \cap Stored)
<1> DEFINE D == ((DOMAIN l.seq \cap scanned) \ reached) \cup (reached \cap Stored)
<1>1. Reconciled(l, scanned, reached)
        = [seq |-> [k \in D |-> IF k \in DOMAIN l.seq THEN l.seq[k] ELSE 0], next |-> l.next]
    BY DEF Reconciled, Logs
<1>2. D \subseteq Keys
    OBVIOUS
<1>3. Reconciled(l, scanned, reached).seq \in [D -> Nat]
    BY <1>1, LogIs
<1>4. Reconciled(l, scanned, reached).seq \in Sequences
    BY <1>2, <1>3, SequenceType
<1>5. QED
    BY <1>1, <1>3, <1>4, LogIs DEF Logs

\* The greater of two naturals.
LEMMA GreaterOfTwo ==
    ASSUME NEW a \in Nat, NEW b \in Nat
    PROVE  Max({a, b}) \in {a, b} /\ Max({a, b}) >= a /\ Max({a, b}) >= b
<1>1. \E x \in {a, b} : \A y \in {a, b} : x >= y
    <2>1. CASE a >= b
        BY <2>1
    <2>2. CASE b >= a
        BY <2>2
    <2> QED  BY <2>1, <2>2
<1>2. QED
    BY <1>1 DEF Max

\* A flush merges its log with the index without losing an entry or making any
\* use earlier than either side knew it.
LEMMA MergedSequences ==
    ASSUME NEW ours \in Sequences, NEW theirs \in Sequences
    PROVE  /\ Merged(ours, theirs) \in Sequences
           /\ DOMAIN Merged(ours, theirs) = DOMAIN ours \cup DOMAIN theirs
           /\ \A k \in DOMAIN ours : Merged(ours, theirs)[k] >= ours[k]
           /\ \A k \in DOMAIN theirs : Merged(ours, theirs)[k] >= theirs[k]
<1> DEFINE M == Merged(ours, theirs)
<1>1. /\ DOMAIN ours \subseteq Keys /\ ours \in [DOMAIN ours -> Nat]
      /\ DOMAIN theirs \subseteq Keys /\ theirs \in [DOMAIN theirs -> Nat]
    BY SequenceIs
<1>2. DOMAIN M = DOMAIN ours \cup DOMAIN theirs
    BY DEF Merged
<1>3. ASSUME NEW k \in DOMAIN M
      PROVE  /\ M[k] \in Nat
             /\ k \in DOMAIN ours => M[k] >= ours[k]
             /\ k \in DOMAIN theirs => M[k] >= theirs[k]
    <2>1. CASE k \notin DOMAIN theirs
        BY <1>1, <1>2, <2>1 DEF Merged
    <2>2. CASE k \notin DOMAIN ours
        BY <1>1, <1>2, <2>2 DEF Merged
    <2>3. CASE k \in DOMAIN theirs /\ k \in DOMAIN ours
        <3>1. ours[k] \in Nat /\ theirs[k] \in Nat
            BY <1>1, <2>3
        <3>2. M[k] = Max({ours[k], theirs[k]})
            BY <1>2, <2>3 DEF Merged
        <3> QED  BY <3>1, <3>2, GreaterOfTwo
    <2> QED  BY <2>1, <2>2, <2>3
<1>4. M \in [DOMAIN M -> Nat]
    BY <1>3 DEF Merged
<1>5. M \in Sequences
    BY <1>1, <1>2, <1>4, SequenceType
<1>6. QED
    BY <1>1, <1>2, <1>3, <1>5

\* Eviction order is a strict total order on the entries of a log.
LEMMA EvictionOrder ==
    ASSUME NEW seq \in Sequences
    PROVE  \A i, j, k \in DOMAIN seq :
              /\ ~Before(seq, k, k)
              /\ Before(seq, i, j) /\ Before(seq, j, k) => Before(seq, i, k)
              /\ i # j => Before(seq, i, j) \/ Before(seq, j, i)
<1>1. TAKE i, j, k \in DOMAIN seq
<1>2. /\ i \in Nat /\ j \in Nat /\ k \in Nat
      /\ seq[i] \in Nat /\ seq[j] \in Nat /\ seq[k] \in Nat
    BY SequenceIs, NamespaceAssumption
<1>3. QED
    BY <1>2 DEF Before

\* rebase_sequences keeps every entry, keeps the eviction order exactly, and
\* leaves the next sequence above all of them: the use recorded next is the
\* latest one.
THEOREM RebaseKeepsOrder ==
    ASSUME NEW seq \in Sequences
    PROVE  /\ Rebase(seq) \in Logs
           /\ DOMAIN Rebase(seq).seq = DOMAIN seq
           /\ \A k \in DOMAIN seq : Rebase(seq).seq[k] < Rebase(seq).next
           /\ \A j, k \in DOMAIN seq :
                 Before(Rebase(seq).seq, j, k) <=> Before(seq, j, k)
<1> DEFINE D == DOMAIN seq
           Earlier(k) == {j \in D : Before(seq, j, k)}
           rank == Rebase(seq).seq
<1>1. D \subseteq Keys
    BY SequenceIs
<1>2. /\ DOMAIN rank = D
      /\ \A k \in D : rank[k] = Cardinality(Earlier(k))
      /\ Rebase(seq) = [seq |-> rank, next |-> Cardinality(D)]
    BY DEF Rebase
<1>3. \A k \in D : k \notin Earlier(k)
    BY EvictionOrder
<1>4. ASSUME NEW k \in D
      PROVE  rank[k] \in Nat /\ rank[k] < Cardinality(D)
    <2>1. IsFiniteSet(D) /\ IsFiniteSet(Earlier(k))
        BY <1>1, KeySets
    <2>2. Earlier(k) \subseteq D /\ Earlier(k) # D
        BY <1>3
    <2>3. Cardinality(Earlier(k)) < Cardinality(D) /\ Cardinality(Earlier(k)) \in Nat
        <3> HIDE DEF Earlier, D
        <3> QED  BY <2>1, <2>2, FS_Subset, FS_CardinalityType
    <2> QED  BY <2>3, <1>2
<1>5. ASSUME NEW j \in D, NEW k \in D, Before(seq, j, k)
      PROVE  rank[j] < rank[k]
    <2>1. IsFiniteSet(Earlier(j)) /\ IsFiniteSet(Earlier(k))
        BY <1>1, KeySets
    <2>2. Earlier(j) \subseteq Earlier(k)
        BY <1>5, EvictionOrder
    <2>3. j \in Earlier(k) /\ j \notin Earlier(j)
        BY <1>3, <1>5
    <2>4. Cardinality(Earlier(j)) < Cardinality(Earlier(k))
        <3>1. Earlier(j) # Earlier(k)
            BY <2>3
        <3>2. Cardinality(Earlier(j)) \in Nat /\ Cardinality(Earlier(k)) \in Nat
            BY <2>1, FS_CardinalityType
        <3> HIDE DEF Earlier
        <3> QED  BY <2>1, <2>2, <3>1, <3>2, FS_Subset
    <2> QED  BY <2>4, <1>2
<1>6. ASSUME NEW j \in D, NEW k \in D
      PROVE  Before(rank, j, k) <=> Before(seq, j, k)
    <2>1. rank[j] \in Nat /\ rank[k] \in Nat /\ j \in Nat /\ k \in Nat
        BY <1>1, <1>4, NamespaceAssumption
    <2>2. CASE j = k
        BY <2>1, <2>2, EvictionOrder DEF Before
    <2>3. CASE j # k /\ Before(seq, j, k)
        <3>1. rank[j] < rank[k]
            BY <2>3, <1>5
        <3> QED  BY <2>3, <3>1, <2>1 DEF Before
    <2>4. CASE j # k /\ ~Before(seq, j, k)
        <3>1. Before(seq, k, j)
            BY <2>4, EvictionOrder
        <3>2. rank[k] < rank[j]
            BY <3>1, <1>5
        <3>3. ~Before(rank, j, k)
            BY <2>1, <3>2 DEF Before
        <3> QED  BY <2>4, <3>3
    <2> HIDE DEF rank
    <2> QED  BY <2>2, <2>3, <2>4
<1>7. rank \in [D -> Nat]
    <2>1. rank = [k \in D |-> rank[k]]
        BY DEF Rebase
    <2> QED  BY <2>1, <1>4
<1>8. rank \in Sequences
    <2> HIDE DEF rank
    <2> QED  BY <1>1, <1>7, SequenceType
<1>9. Cardinality(D) \in Nat
    BY <1>1, KeySets
<1>10. Rebase(seq) \in Logs
    <2>1. Rebase(seq).seq = rank /\ Rebase(seq).next = Cardinality(D)
        BY <1>2
    <2>2. \A k \in D : rank[k] <= Cardinality(D)
        BY <1>4, <1>9
    <2> HIDE DEF rank
    <2> QED  BY <1>2, <1>8, <1>9, <2>1, <2>2 DEF Logs
<1>11. QED
    BY <1>2, <1>4, <1>6, <1>10

\* The index of a new namespace lists nothing.
LEMMA EmptyLog == EmptySeq \in Sequences
<1>1. EmptySeq \in [{} -> Nat]
    BY DEF EmptySeq
<1>2. QED
    BY <1>1, SequenceType

\* The next victim of a pass is a candidate, before every other in eviction order.
LEMMA VictimIsEarliest ==
    ASSUME NEW c \in Callers,
           LogOf(c) \in Logs, call[c].left \subseteq DOMAIN LogOf(c).seq, call[c].left # {}
    PROVE  /\ Victim(c) \in call[c].left
           /\ \A j \in call[c].left \ {Victim(c)} : Before(LogOf(c).seq, Victim(c), j)
<1> DEFINE seq == LogOf(c).seq
           left == call[c].left
<1>1. DOMAIN seq \subseteq Keys /\ \A k \in DOMAIN seq : seq[k] \in Nat /\ k \in Nat
    BY LogIs, NamespaceAssumption
<1> HIDE DEF seq
<1> DEFINE used == {seq[k] : k \in left}
<1>2. used \subseteq Nat /\ used # {}
    BY <1>1 DEF seq
<1>3. PICK m \in used : \A n \in used : m <= n
    <2> HIDE DEF used
    <2> QED  BY <1>2, LeastNatural
<1> DEFINE oldest == {k \in left : seq[k] = m}
<1>4. oldest \subseteq Nat /\ oldest # {}
    BY <1>1, <1>3 DEF seq
<1>5. PICK v \in oldest : \A j \in oldest : v <= j
    <2> HIDE DEF oldest
    <2> QED  BY <1>4, LeastNatural
<1>6. ASSUME NEW j \in left \ {v}
      PROVE  Before(seq, v, j)
    <2>1. /\ v \in Nat /\ j \in Nat /\ seq[v] \in Nat /\ seq[j] \in Nat
          /\ seq[v] = m /\ m <= seq[j] /\ v # j
        BY <1>1, <1>3, <1>5 DEF seq
    <2>2. seq[j] = m => v <= j
        BY <1>5
    <2> QED  BY <2>1, <2>2 DEF Before
<1>7. v \in left
    BY <1>5
<1>8. QED
    BY <1>6, <1>7 DEF Victim, seq

----------------------------------------------------------------------------
\* The inductive invariant

Locations ==
    {"idle", "read", "remove", "create", "incumbent", "touch", "forget", "read_rejected",
     "remove_rejected", "merge", "write", "scan", "reconcile", "snapshot", "evict", "finish"}

CallRecords ==
    [op : Operations \cup {"none"}, pc : Locations, key : Keys \cup {NoKey},
     payload : Payloads \cup {Absent}, seen : Payloads \cup {Absent, Corrupt},
     scanned : SUBSET Keys, left : SUBSET Keys, total : 0 .. Cardinality(Keys),
     pinned : SUBSET Keys]

Typing ==
    /\ object \in [Keys -> Payloads \cup {Absent, Corrupt}]
    /\ index \in Sequences
    /\ log \in [Handles -> Logs]
    /\ logOwner \in [Handles -> Callers \cup {Nobody}]
    /\ pins \in [Stores -> [Keys -> 0 .. MaxPins]]
    /\ call \in [Callers -> CallRecords]
    /\ published \in [Keys -> SUBSET Payloads]
    /\ created \in [Callers -> SUBSET Keys]
    /\ guarded \in [Callers -> SUBSET Keys]

\* What a call at each location is working for.
Stages ==
    \A c \in Callers :
        /\ call[c].pc \in {"read", "remove", "create", "incumbent", "touch", "forget",
                           "read_rejected", "remove_rejected"} => call[c].key \in Keys
        /\ call[c].pc \in {"read", "remove"} => call[c].op = "get"
        /\ call[c].pc \in {"create", "incumbent"} =>
              call[c].op = "put" /\ call[c].payload \in Payloads

\* A pass and a flush hold the mutex of the log they work on.
Owns(c) == call[c].pc \in {"write", "snapshot", "evict", "finish"}

Owners == \A c \in Callers : Owns(c) => logOwner[HandleOf[c]] = c

\* Whatever parses on the disk was published there.
Provenance == \A k \in Keys : object[k] \in Payloads => object[k] \in published[k]

\* A key guarded from a pass is pinned now, and the pass's snapshot has it.
Guards ==
    \A c \in Callers :
        /\ \A k \in guarded[c] : pins[StoreOfCaller(c)][k] > 0
        /\ At(c, "evict") => guarded[c] \subseteq call[c].pinned

\* The entries a pass is accountable for.
Old(c) == Stored \ created[c]

\* How a pass keeps count: nothing it is accountable for escapes its scan, then
\* the log it owns, then the candidates it has left and the pins it respects.
Passes ==
    \A c \in Callers :
        /\ At(c, "reconcile") => Old(c) \subseteq call[c].scanned
        /\ At(c, "snapshot") =>
              /\ Old(c) \subseteq DOMAIN LogOf(c).seq
              /\ call[c].total = Cardinality(DOMAIN LogOf(c).seq)
        /\ At(c, "evict") =>
              /\ call[c].left \subseteq DOMAIN LogOf(c).seq
              /\ Old(c) \subseteq call[c].left \cup call[c].pinned
              /\ Cardinality(Old(c) \cup call[c].left) <= call[c].total

CacheInv ==
    /\ Typing /\ Stages /\ Owners
    /\ Provenance /\ AnswersArePublished
    /\ Guards
    /\ Passes /\ PassMeetsTheCeiling

----------------------------------------------------------------------------
\* Every step keeps the types and the stages of calls

\* An idle call is a call record.
LEMMA IdleIsTyped == Idle \in CallRecords
<1>1. 0 \in 0 .. Cardinality(Keys)
    BY KeySets
<1>2. QED
    BY <1>1 DEF Idle, CallRecords, NoKey, Locations

\* What beginning a call changes.
LEMMA BeginEffect ==
    ASSUME Typing, Stages, NEW c \in Callers, Calls(c)
    PROVE  Typing' /\ Stages'
<1>1. ASSUME NEW op, NEW pc, NEW k, NEW p,
             k \in Keys \cup {NoKey}, p \in Payloads \cup {Absent},
             pc \in {"read", "create", "read_rejected"} => k \in Keys,
             pc = "read" => op = "get",
             pc = "create" => op = "put" /\ p \in Payloads,
             pc \in {"read", "create", "read_rejected", "merge", "scan"},
             Begin(c, op, pc, k, p), guarded' \in [Callers -> SUBSET Keys]
      PROVE  Typing' /\ Stages'
    <2> DEFINE r == [Idle EXCEPT !.op = op, !.pc = pc, !.key = k, !.payload = p]
    <2>1. op \in Operations
        BY <1>1, NamespaceAssumption DEF Begin
    <2>2. r \in CallRecords
        BY <1>1, <2>1, IdleIsTyped DEF CallRecords, Locations
    <2>3. r.op = op /\ r.pc = pc /\ r.key = k /\ r.payload = p
        BY DEF Idle
    <2>4. call' = [call EXCEPT ![c] = r] /\ UNCHANGED <<files, log, logOwner, pins, published, created>>
        BY <1>1 DEF Begin
    <2> HIDE DEF r
    <2>5. call' \in [Callers -> CallRecords]
        BY <2>2, <2>4 DEF Typing
    <2>6. Typing'
        BY <1>1, <2>4, <2>5 DEF Typing, files
    <2>7. call'[c] = r /\ \A d \in Callers \ {c} : call'[d] = call[d]
        BY <2>4 DEF Typing
    <2>8. Stages'
        BY <1>1, <2>3, <2>7 DEF Stages
    <2> QED  BY <2>6, <2>8
<1>2. guarded \in [Callers -> SUBSET Keys]
    BY DEF Typing
<1>3. CASE \E k \in Keys : Get(c, k)
    <2>1. PICK k \in Keys : Get(c, k)
        BY <1>3
    <2> QED  BY <1>1, <1>2, <2>1 DEF Get
<1>4. CASE \E k \in Keys, p \in Payloads : Put(c, k, p) \/ EvictRejected(c, k, p)
    <2>1. PICK k \in Keys, p \in Payloads : Put(c, k, p) \/ EvictRejected(c, k, p)
        BY <1>4
    <2>2. CASE Put(c, k, p)
        BY <1>1, <1>2, <2>2 DEF Put
    <2>3. CASE EvictRejected(c, k, p)
        BY <1>1, <1>2, <2>3 DEF EvictRejected
    <2> QED  BY <2>1, <2>2, <2>3
<1>5. CASE Flush(c)
    BY <1>1, <1>2, <1>5 DEF Flush
<1>6. CASE Usage(c)
    BY <1>1, <1>2, <1>6 DEF Usage
<1>7. CASE EvictToCeiling(c)
    <2>1. guarded' \in [Callers -> SUBSET Keys]
        BY <1>2, <1>7 DEF EvictToCeiling
    <2> QED  BY <1>1, <1>7, <2>1 DEF EvictToCeiling
<1>8. QED
    BY <1>3, <1>4, <1>5, <1>6, <1>7 DEF Calls

\* The pieces steps are made of: a return, a move to another location, a new
\* record, a new log and a change of the mutex.
LEMMA ReturnKeeps ==
    ASSUME Typing, Stages, NEW c \in Callers, Return(c)
    PROVE  /\ call' \in [Callers -> CallRecords] /\ Stages'
           /\ created' \in [Callers -> SUBSET Keys] /\ guarded' \in [Callers -> SUBSET Keys]
           /\ call'[c] = Idle /\ \A d \in Callers \ {c} : call'[d] = call[d]
<1>1. /\ call' = [call EXCEPT ![c] = Idle]
      /\ created' = [created EXCEPT ![c] = {}] /\ guarded' = [guarded EXCEPT ![c] = {}]
    BY DEF Return
<1>2. call'[c] = Idle /\ \A d \in Callers \ {c} : call'[d] = call[d]
    BY <1>1 DEF Typing
<1>3. call' \in [Callers -> CallRecords]
    BY <1>1, IdleIsTyped DEF Typing
<1>4. created' \in [Callers -> SUBSET Keys] /\ guarded' \in [Callers -> SUBSET Keys]
    BY <1>1 DEF Typing
<1>5. Stages'
    BY <1>2 DEF Stages, Idle
<1>6. QED
    BY <1>2, <1>3, <1>4, <1>5

\* A call that moves on with its key, operation and payload keeps the stages.
LEMMA RecordKeeps ==
    ASSUME Typing, Stages, NEW c \in Callers, NEW r \in CallRecords,
           call' = [call EXCEPT ![c] = r],
           r.key = call[c].key, r.op = call[c].op, r.payload = call[c].payload,
           \/ r.pc \in {"merge", "write", "scan", "reconcile", "snapshot", "evict", "finish"}
           \/ /\ call[c].key \in Keys
              /\ r.pc \in {"touch", "forget", "remove_rejected"}
           \/ /\ r.pc = "remove" /\ call[c].pc = "read"
           \/ /\ r.pc = "incumbent" /\ call[c].pc = "create"
    PROVE  /\ call' \in [Callers -> CallRecords] /\ Stages'
           /\ call'[c] = r /\ \A d \in Callers \ {c} : call'[d] = call[d]
<1>1. call'[c] = r /\ \A d \in Callers \ {c} : call'[d] = call[d]
    BY DEF Typing
<1>2. call' \in [Callers -> CallRecords]
    BY DEF Typing
<1>3. Stages'
    BY <1>1 DEF Stages
<1>4. QED
    BY <1>1, <1>2, <1>3

\* So does one that only moves on.
LEMMA GotoKeeps ==
    ASSUME Typing, Stages, NEW c \in Callers, NEW pc \in Locations, Goto(c, pc),
           \/ pc \in {"merge", "write", "scan", "reconcile", "snapshot", "evict", "finish"}
           \/ /\ call[c].key \in Keys
              /\ pc \in {"touch", "forget", "remove_rejected"}
           \/ /\ pc = "incumbent" /\ call[c].pc = "create"
    PROVE  /\ call' \in [Callers -> CallRecords] /\ Stages'
           /\ call'[c] = [call[c] EXCEPT !.pc = pc]
           /\ \A d \in Callers \ {c} : call'[d] = call[d]
<1> DEFINE r == [call[c] EXCEPT !.pc = pc]
<1>1. call[c] \in CallRecords
    BY DEF Typing
<1>2. /\ r \in CallRecords /\ r.pc = pc
      /\ r.key = call[c].key /\ r.op = call[c].op /\ r.payload = call[c].payload
    BY <1>1 DEF CallRecords
<1>3. call' = [call EXCEPT ![c] = r]
    BY DEF Goto
<1> HIDE DEF r
<1>4. QED
    BY <1>2, <1>3, RecordKeeps DEF r

\* Setting a caller's log leaves the other handles' logs.
LEMMA SetLogKeeps ==
    ASSUME Typing, NEW c \in Callers, NEW l \in Logs, SetLog(c, l)
    PROVE  /\ log' \in [Handles -> Logs]
           /\ log'[HandleOf[c]] = l
           /\ \A h \in Handles \ {HandleOf[c]} : log'[h] = log[h]
<1>1. HandleOf[c] \in Handles
    BY NamespaceAssumption
<1>2. QED
    BY <1>1 DEF SetLog, Typing

\* Locking and unlocking concern the caller's handle alone.
LEMMA MutexKeeps ==
    ASSUME Typing, NEW c \in Callers, LockLog(c) \/ UnlockLog(c)
    PROVE  /\ logOwner' \in [Handles -> Callers \cup {Nobody}]
           /\ logOwner'[HandleOf[c]] = (IF LockLog(c) THEN c ELSE Nobody)
           /\ \A h \in Handles \ {HandleOf[c]} : logOwner'[h] = logOwner[h]
<1>1. HandleOf[c] \in Handles
    BY NamespaceAssumption
<1>2. QED
    BY <1>1 DEF LockLog, UnlockLog, Typing

\* A caller's own record and log.
LEMMA CallerTypes ==
    ASSUME Typing, NEW c \in Callers
    PROVE  /\ HandleOf[c] \in Handles /\ StoreOfCaller(c) \in Stores
           /\ call[c] \in CallRecords /\ LogOf(c) \in Logs
<1>1. QED
    BY NamespaceAssumption DEF Typing, StoreOfCaller, LogOf

\* A step of a call changes that call only, and keeps the types and the stages.
LEMMA ContinuesTypes ==
    ASSUME Typing, Stages, NEW c \in Callers, Continues(c)
    PROVE  Typing' /\ Stages' /\ \A d \in Callers \ {c} : call'[d] = call[d]
<1>1. /\ HandleOf[c] \in Handles /\ call[c] \in CallRecords /\ LogOf(c) \in Logs
    BY CallerTypes
<1>2. /\ index \in Sequences /\ LogOf(c).seq \in Sequences
    BY <1>1, LogIs DEF Typing
<1>3. CASE Touch(c)
    <2>1. call[c].key \in Keys
        BY <1>3 DEF Touch, At, Stages
    <2>2. log' \in [Handles -> Logs]
        BY <1>1, <1>3, <2>1, TouchedLog, SetLogKeeps DEF Touch
    <2>3. CASE Return(c)
        BY <1>3, <2>2, <2>3, ReturnKeeps DEF Touch, Typing, files, environment
    <2>4. CASE Goto(c, "merge") /\ UNCHANGED <<created, guarded>>
        <3>1. "merge" \in Locations
            BY DEF Locations
        <3> QED  BY <1>3, <2>2, <2>4, <3>1, GotoKeeps DEF Touch, Typing, files, environment
    <2> QED  BY <1>3, <2>3, <2>4 DEF Touch
<1>4. CASE Forget(c)
    <2>1. log' \in [Handles -> Logs]
        BY <1>1, <1>4, WithoutLog, SetLogKeeps DEF Forget
    <2> QED  BY <1>4, <2>1, ReturnKeeps DEF Forget, Typing, files, environment
<1>5. CASE ReadEntry(c)
    <2> DEFINE bytes == object[call[c].key]
               pc == CASE bytes = Absent    -> "forget"
                       [] Verified(bytes)   -> "touch"
                       [] ~Verified(bytes)  -> "remove"
               r == [call[c] EXCEPT !.seen = bytes, !.pc = pc]
    <2>1. call[c].key \in Keys /\ call[c].pc = "read"
        BY <1>5 DEF ReadEntry, At, Stages
    <2>2. bytes \in Payloads \cup {Absent, Corrupt}
        BY <2>1 DEF Typing
    <2>3. pc \in {"forget", "touch", "remove"}
        OBVIOUS
    <2>4. call' = [call EXCEPT ![c] = r]
        <3>1. call' = [call EXCEPT ![c].seen = bytes, ![c].pc = pc]
            BY <1>5 DEF ReadEntry
        <3> HIDE DEF bytes, pc
        <3> QED  BY <1>1, <3>1 DEF Typing, CallRecords
    <2> HIDE DEF bytes, pc
    <2>5. /\ r \in CallRecords /\ r.pc = pc
          /\ r.key = call[c].key /\ r.op = call[c].op /\ r.payload = call[c].payload
        BY <1>1, <2>2, <2>3 DEF CallRecords, Locations
    <2> HIDE DEF r
    <2>6. /\ call' \in [Callers -> CallRecords] /\ Stages'
          /\ \A d \in Callers \ {c} : call'[d] = call[d]
        BY <2>1, <2>3, <2>4, <2>5, RecordKeeps
    <2>7. UNCHANGED <<files, log, logOwner, pins, environment, history>>
        BY <1>5 DEF ReadEntry
    <2> QED  BY <2>6, <2>7 DEF Typing, files, history
<1>6. CASE RemoveCorrupt(c)
    <2>1. call[c].key \in Keys /\ "forget" \in Locations
        BY <1>6 DEF RemoveCorrupt, At, Stages, Locations
    <2>2. object' \in [Keys -> Payloads \cup {Absent, Corrupt}]
        BY <1>6 DEF RemoveCorrupt, Typing
    <2> QED  BY <1>6, <2>1, <2>2, GotoKeeps DEF RemoveCorrupt, Typing, history
<1>7. CASE CreateEntry(c)
    <2>1. /\ call[c].key \in Keys /\ call[c].payload \in Payloads /\ call[c].pc = "create"
          /\ "touch" \in Locations /\ "incumbent" \in Locations
        BY <1>7 DEF CreateEntry, At, Stages, Locations
    <2>2. /\ object' \in [Keys -> Payloads \cup {Absent, Corrupt}]
          /\ published' \in [Keys -> SUBSET Payloads]
        BY <1>7, <2>1 DEF CreateEntry, Typing
    <2>3. created' \in [Callers -> SUBSET Keys]
        BY <1>7, <2>1 DEF CreateEntry, Typing
    <2>4. Goto(c, "touch") \/ Goto(c, "incumbent")
        BY <1>7 DEF CreateEntry
    <2>5. /\ call' \in [Callers -> CallRecords] /\ Stages'
          /\ \A d \in Callers \ {c} : call'[d] = call[d]
        BY <2>1, <2>4, GotoKeeps
    <2> QED  BY <1>7, <2>2, <2>3, <2>5 DEF CreateEntry, Typing
<1>8. CASE ReadIncumbent(c)
    <2>1. call[c].key \in Keys /\ "touch" \in Locations
        BY <1>8 DEF ReadIncumbent, At, Stages, Locations
    <2>2. \/ Goto(c, "touch") /\ UNCHANGED <<created, guarded>>
          \/ Return(c)
        BY <1>8 DEF ReadIncumbent
    <2>3. CASE Goto(c, "touch") /\ UNCHANGED <<created, guarded>>
        BY <1>8, <2>1, <2>3, GotoKeeps DEF ReadIncumbent, Typing, files
    <2>4. CASE Return(c)
        BY <1>8, <2>4, ReturnKeeps DEF ReadIncumbent, Typing, files
    <2> QED  BY <2>2, <2>3, <2>4
<1>9. CASE MergeIndex(c)
    <2>1. Rebase(Merged(LogOf(c).seq, index)) \in Logs
        BY <1>2, MergedSequences, RebaseKeepsOrder
    <2>2. log' \in [Handles -> Logs]
        BY <1>9, <2>1, SetLogKeeps DEF MergeIndex
    <2>3. logOwner' \in [Handles -> Callers \cup {Nobody}]
        BY <1>9, MutexKeeps DEF MergeIndex
    <2>4. "write" \in Locations
        BY DEF Locations
    <2> QED  BY <1>9, <2>2, <2>3, <2>4, GotoKeeps DEF MergeIndex, Typing, files, history
<1>10. CASE WriteIndex(c)
    <2>1. index' \in Sequences
        BY <1>2, <1>10 DEF WriteIndex
    <2>2. logOwner' \in [Handles -> Callers \cup {Nobody}]
        BY <1>10, MutexKeeps DEF WriteIndex
    <2> QED  BY <1>10, <2>1, <2>2, ReturnKeeps DEF WriteIndex, Typing
<1>11. CASE ReadRejected(c)
    <2>1. /\ call[c].key \in Keys
          /\ "forget" \in Locations /\ "remove_rejected" \in Locations
        BY <1>11 DEF ReadRejected, At, Stages, Locations
    <2>2. \/ (Goto(c, "forget") \/ Goto(c, "remove_rejected")) /\ UNCHANGED <<created, guarded>>
          \/ Return(c)
        BY <1>11 DEF ReadRejected
    <2>3. CASE (Goto(c, "forget") \/ Goto(c, "remove_rejected")) /\ UNCHANGED <<created, guarded>>
        <3>1. /\ call' \in [Callers -> CallRecords] /\ Stages'
              /\ \A d \in Callers \ {c} : call'[d] = call[d]
            BY <2>1, <2>3, GotoKeeps
        <3> QED  BY <1>11, <2>3, <3>1 DEF ReadRejected, Typing, files
    <2>4. CASE Return(c)
        BY <1>11, <2>4, ReturnKeeps DEF ReadRejected, Typing, files
    <2> QED  BY <2>2, <2>3, <2>4
<1>12. CASE RemoveRejected(c)
    <2>1. call[c].key \in Keys /\ "forget" \in Locations
        BY <1>12 DEF RemoveRejected, At, Stages, Locations
    <2>2. object' \in [Keys -> Payloads \cup {Absent, Corrupt}]
        BY <1>12 DEF RemoveRejected, Typing
    <2> QED  BY <1>12, <2>1, <2>2, GotoKeeps DEF RemoveRejected, Typing, history
<1>13. CASE Scan(c)
    <2> DEFINE r == [call[c] EXCEPT !.pc = "reconcile", !.scanned = Stored]
    <2>1. call' = [call EXCEPT ![c] = r]
        BY <1>1, <1>13 DEF Scan, Typing, CallRecords
    <2>2. /\ r \in CallRecords /\ r.pc = "reconcile"
          /\ r.key = call[c].key /\ r.op = call[c].op /\ r.payload = call[c].payload
        BY <1>1 DEF CallRecords, Locations, Stored
    <2> HIDE DEF r
    <2>3. /\ call' \in [Callers -> CallRecords] /\ Stages'
          /\ \A d \in Callers \ {c} : call'[d] = call[d]
        BY <2>1, <2>2, RecordKeeps
    <2>4. created' \in [Callers -> SUBSET Keys]
        BY <1>13 DEF Scan, Typing
    <2> QED  BY <1>13, <2>3, <2>4 DEF Scan, Typing, files
<1>14. CASE Reconcile(c)
    <2> DEFINE l == Reconciled(LogOf(c), call[c].scanned, call[c].scanned)
               n == Cardinality(DOMAIN l.seq)
               pc == IF n > Ceiling THEN "snapshot" ELSE "finish"
               r == [call[c] EXCEPT !.total = n, !.pc = pc]
    <2>1. l \in Logs
        <3>1. call[c].scanned \in SUBSET Keys
            BY <1>1 DEF CallRecords
        <3> QED  BY <1>1, <3>1, ReconciledLog
    <2>2. log' \in [Handles -> Logs]
        BY <1>14, <2>1, SetLogKeeps DEF Reconcile
    <2>3. n \in 0 .. Cardinality(Keys)
        BY <2>1, LogIs, KeySets
    <2>4. CASE Return(c) /\ UNCHANGED logOwner
        BY <1>14, <2>2, <2>4, ReturnKeeps DEF Reconcile, Typing, files
    <2>5. CASE /\ call' = [call EXCEPT ![c].total = n, ![c].pc = pc]
               /\ LockLog(c) /\ UNCHANGED <<created, guarded>>
        <3>1. call' = [call EXCEPT ![c] = r]
            <4> HIDE DEF l, n
            <4> QED  BY <1>1, <2>5 DEF Typing, CallRecords
        <3>2. /\ r \in CallRecords /\ r.pc \in {"snapshot", "finish"}
              /\ r.key = call[c].key /\ r.op = call[c].op /\ r.payload = call[c].payload
            <4> HIDE DEF n
            <4> QED  BY <1>1, <2>3 DEF CallRecords, Locations
        <3>3. /\ call' \in [Callers -> CallRecords] /\ Stages'
              /\ \A d \in Callers \ {c} : call'[d] = call[d]
            <4> HIDE DEF r
            <4> QED  BY <3>1, <3>2, RecordKeeps
        <3>4. logOwner' \in [Handles -> Callers \cup {Nobody}]
            BY <2>5, MutexKeeps
        <3> HIDE DEF l, n, r
        <3> QED  BY <1>14, <2>2, <2>5, <3>3, <3>4 DEF Reconcile, Typing, files
    <2> QED  BY <1>14, <2>4, <2>5 DEF Reconcile
<1>15. CASE Snapshot(c)
    <2> DEFINE pinned == {k \in Keys : pins[StoreOfCaller(c)][k] > 0}
               left == DOMAIN LogOf(c).seq
               r == [call[c] EXCEPT !.pinned = pinned, !.left = left, !.pc = "evict"]
    <2>1. call' = [call EXCEPT ![c] = r]
        BY <1>1, <1>15 DEF Snapshot, Typing, CallRecords
    <2>2. pinned \subseteq Keys /\ left \subseteq Keys
        BY <1>1, LogIs
    <2>3. /\ r \in CallRecords /\ r.pc = "evict"
          /\ r.key = call[c].key /\ r.op = call[c].op /\ r.payload = call[c].payload
        <3> HIDE DEF pinned, left
        <3> QED  BY <1>1, <2>2 DEF CallRecords, Locations
    <2> HIDE DEF r
    <2>4. /\ call' \in [Callers -> CallRecords] /\ Stages'
          /\ \A d \in Callers \ {c} : call'[d] = call[d]
        BY <2>1, <2>3, RecordKeeps
    <2> QED  BY <1>15, <2>4 DEF Snapshot, Typing, files, history
<1>16. CASE SkipPinned(c)
    <2> DEFINE r == [call[c] EXCEPT !.left = @ \ {Victim(c)}]
    <2>1. call' = [call EXCEPT ![c] = r]
        BY <1>1, <1>16 DEF SkipPinned, Typing, CallRecords
    <2>2. /\ r \in CallRecords /\ r.pc = "evict"
          /\ r.key = call[c].key /\ r.op = call[c].op /\ r.payload = call[c].payload
        BY <1>1, <1>16 DEF CallRecords, SkipPinned, At
    <2> HIDE DEF r
    <2>3. /\ call' \in [Callers -> CallRecords] /\ Stages'
          /\ \A d \in Callers \ {c} : call'[d] = call[d]
        BY <2>1, <2>2, RecordKeeps
    <2> QED  BY <1>16, <2>3 DEF SkipPinned, Typing, files, history
<1>17. CASE EvictVictim(c)
    <2> DEFINE r == [call[c] EXCEPT !.left = @ \ {Victim(c)}, !.total = @ - 1]
    <2>1. call' = [call EXCEPT ![c] = r]
        BY <1>1, <1>17 DEF EvictVictim, Typing, CallRecords
    <2>2. call[c].total - 1 \in 0 .. Cardinality(Keys)
        <3>1. call[c].total \in 0 .. Cardinality(Keys) /\ call[c].total > Ceiling
            BY <1>1, <1>17, KeySets, NamespaceAssumption
            DEF EvictVictim, PassIsOver, CallRecords
        <3>2. Cardinality(Keys) \in Nat
            BY KeySets
        <3> QED  BY <3>1, <3>2, NamespaceAssumption
    <2>3. /\ r \in CallRecords /\ r.pc = "evict"
          /\ r.key = call[c].key /\ r.op = call[c].op /\ r.payload = call[c].payload
        BY <1>1, <1>17, <2>2 DEF CallRecords, EvictVictim, At
    <2> HIDE DEF r
    <2>4. /\ call' \in [Callers -> CallRecords] /\ Stages'
          /\ \A d \in Callers \ {c} : call'[d] = call[d]
        BY <2>1, <2>3, RecordKeeps
    <2>5. log' \in [Handles -> Logs]
        BY <1>1, <1>17, WithoutLog, SetLogKeeps DEF EvictVictim
    <2>6. object' \in [Keys -> Payloads \cup {Absent, Corrupt}]
        BY <1>17 DEF EvictVictim, Typing
    <2> QED  BY <1>17, <2>4, <2>5, <2>6 DEF EvictVictim, Typing, history
<1>18. CASE EndPass(c)
    <2>1. "finish" \in Locations
        BY DEF Locations
    <2> QED  BY <1>18, <2>1, GotoKeeps DEF EndPass, Typing, files, history
<1>19. CASE FinishPass(c)
    <2> DEFINE l == Rebase(LogOf(c).seq)
    <2>1. l \in Logs
        BY <1>2, RebaseKeepsOrder
    <2>2. l.seq \in Sequences
        BY <2>1, LogIs
    <2>3. log' \in [Handles -> Logs] /\ index' \in Sequences
        <3>1. SetLog(c, l) /\ (index' = l.seq \/ index' = index)
            BY <1>19 DEF FinishPass
        <3> HIDE DEF l
        <3> QED  BY <1>2, <2>1, <2>2, <3>1, SetLogKeeps
    <2>4. logOwner' \in [Handles -> Callers \cup {Nobody}]
        BY <1>19, MutexKeeps DEF FinishPass
    <2>5. Return(c) /\ UNCHANGED <<object, pins, environment, published>>
        BY <1>19 DEF FinishPass
    <2> QED  BY <2>3, <2>4, <2>5, ReturnKeeps DEF Typing
<1>20. CASE CallFails(c)
    BY <1>20, ReturnKeeps DEF CallFails, Typing, files
<1>21. CASE ReconcileFails(c)
    <2>1. PICK k \in call[c].scanned :
             SetLog(c, Reconciled(LogOf(c), call[c].scanned, {j \in call[c].scanned : j < k}))
        BY <1>21 DEF ReconcileFails
    <2>2. call[c].scanned \in SUBSET Keys
        BY <1>1 DEF CallRecords
    <2>3. log' \in [Handles -> Logs]
        BY <1>1, <2>1, <2>2, ReconciledLog, SetLogKeeps
    <2> QED  BY <1>21, <2>3, ReturnKeeps DEF ReconcileFails, Typing, files
<1>22. CASE EvictionFails(c)
    <2>1. logOwner' \in [Handles -> Callers \cup {Nobody}]
        BY <1>22, MutexKeeps DEF EvictionFails
    <2> QED  BY <1>22, <2>1, ReturnKeeps DEF EvictionFails, Typing, files
<1>23. QED
    BY <1>3, <1>4, <1>5, <1>6, <1>7, <1>8, <1>9, <1>10, <1>11, <1>12, <1>13, <1>14, <1>15,
       <1>16, <1>17, <1>18, <1>19, <1>20, <1>21, <1>22 DEF Continues

\* Pins, damage and the death of a process keep the types and the stages.
LEMMA EnvironmentTypes ==
    ASSUME Typing, Stages,
           \/ \E s \in Stores : \/ \E k \in Keys : Pin(s, k) \/ Unpin(s, k)
                                \/ Restart(s)
           \/ Damage
    PROVE  Typing' /\ Stages'
<1>0. MaxPins \in Nat
    BY NamespaceAssumption
<1>1. ASSUME NEW s \in Stores, NEW k \in Keys, Pin(s, k)
      PROVE  Typing' /\ Stages'
    <2>1. pins[s][k] \in 0 .. MaxPins /\ pins[s] \in [Keys -> 0 .. MaxPins]
        BY DEF Typing
    <2>2. pins' \in [Stores -> [Keys -> 0 .. MaxPins]]
        BY <1>0, <1>1, <2>1 DEF Pin, Typing
    <2> QED  BY <1>1, <2>2 DEF Pin, Typing, Stages, files, history
<1>2. ASSUME NEW s \in Stores, NEW k \in Keys, Unpin(s, k)
      PROVE  Typing' /\ Stages'
    <2>1. pins[s][k] \in 0 .. MaxPins /\ pins[s] \in [Keys -> 0 .. MaxPins]
        BY DEF Typing
    <2>2. pins' \in [Stores -> [Keys -> 0 .. MaxPins]]
        BY <1>0, <1>2, <2>1 DEF Unpin, Typing
    <2>3. guarded' \in [Callers -> SUBSET Keys]
        BY <1>2 DEF Unpin, Unguard, Typing
    <2> QED  BY <1>2, <2>2, <2>3 DEF Unpin, Typing, Stages, files
<1>3. ASSUME NEW s \in Stores, Restart(s)
      PROVE  Typing' /\ Stages'
    <2>1. pins' \in [Stores -> [Keys -> 0 .. MaxPins]]
        <3>1. [k \in Keys |-> 0] \in [Keys -> 0 .. MaxPins]
            BY <1>0
        <3> QED  BY <1>3, <3>1 DEF Restart, Typing
    <2>2. log' \in [Handles -> Logs]
        <3>1. index \in Sequences
            BY DEF Typing
        <3>2. Rebase(index) \in Logs
            BY <3>1, RebaseKeepsOrder
        <3> QED  BY <1>3, <3>2 DEF Restart, Typing
    <2>3. logOwner' \in [Handles -> Callers \cup {Nobody}]
        BY <1>3 DEF Restart, Typing
    <2>4. /\ call' = [c \in Callers |-> IF StoreOfCaller(c) = s THEN Idle ELSE call[c]]
          /\ created' = [c \in Callers |-> IF StoreOfCaller(c) = s THEN {} ELSE created[c]]
          /\ guarded' = [c \in Callers |-> IF StoreOfCaller(c) = s THEN {} ELSE guarded[c]]
        BY <1>3 DEF Restart
    <2>5. call' \in [Callers -> CallRecords]
        BY <2>4, IdleIsTyped DEF Typing
    <2>6. created' \in [Callers -> SUBSET Keys] /\ guarded' \in [Callers -> SUBSET Keys]
        BY <2>4 DEF Typing
    <2>7. Stages'
        BY <2>4 DEF Stages, Idle
    <2>8. UNCHANGED <<object, index, published>>
        BY <1>3 DEF Restart, files
    <2> QED  BY <2>1, <2>2, <2>3, <2>5, <2>6, <2>7, <2>8 DEF Typing
<1>4. CASE Damage
    <2>1. object' \in [Keys -> Payloads \cup {Absent, Corrupt}]
        BY <1>4 DEF Damage, Typing
    <2>2. index' \in Sequences
        BY <1>4, EmptyLog DEF Damage, Typing
    <2> QED  BY <1>4, <2>1, <2>2 DEF Damage, Typing, Stages, history
<1>5. QED
    BY <1>1, <1>2, <1>3, <1>4

\* Every step keeps the types and the stages.
LEMMA TypesKept ==
    ASSUME Typing, Stages, [Next]_vars
    PROVE  Typing' /\ Stages'
<1>1. ASSUME NEW c \in Callers, Calls(c) \/ Continues(c)
      PROVE  Typing' /\ Stages'
    BY <1>1, BeginEffect, ContinuesTypes
<1>2. CASE \/ \E s \in Stores : \/ \E k \in Keys : Pin(s, k) \/ Unpin(s, k)
                                \/ Restart(s)
           \/ Damage
    BY <1>2, EnvironmentTypes
<1>3. CASE UNCHANGED vars
    BY <1>3 DEF vars, files, environment, history, Typing, Stages
<1>4. QED
    BY <1>1, <1>2, <1>3 DEF Next

\* The initial states.
LEMMA InitTypes ==
    ASSUME Init
    PROVE  Typing /\ Stages
<1>1. Rebase(EmptySeq) \in Logs /\ EmptySeq \in Sequences
    BY EmptyLog, RebaseKeepsOrder
<1>2. MaxPins \in Nat
    BY NamespaceAssumption
<1>3. pins \in [Stores -> [Keys -> 0 .. MaxPins]]
    BY <1>2 DEF Init
<1>4. call \in [Callers -> CallRecords]
    BY IdleIsTyped DEF Init
<1>5. Stages
    BY DEF Init, Stages, Idle
<1>6. QED
    BY <1>1, <1>3, <1>4, <1>5 DEF Init, Typing

----------------------------------------------------------------------------
\* The mutex of an access log

\* A step that touches a log or its mutex touches the caller's own, and finds it
\* free or already the caller's.
LEMMA LogsWorked ==
    ASSUME NEW c \in Callers, Continues(c)
    PROVE  \/ UNCHANGED <<log, logOwner>>
           \/ /\ LogIsFree(c) \/ Owns(c)
              /\ UNCHANGED log \/ \E l : SetLog(c, l)
              /\ UNCHANGED logOwner \/ LockLog(c) \/ UnlockLog(c)
<1>1. CASE Touch(c) \/ Forget(c) \/ MergeIndex(c) \/ Reconcile(c) \/ ReconcileFails(c)
    BY <1>1, Zenon DEF Touch, Forget, MergeIndex, Reconcile, ReconcileFails
<1>2. CASE WriteIndex(c) \/ EvictVictim(c) \/ FinishPass(c) \/ EvictionFails(c)
    <2>1. Owns(c)
        BY <1>2 DEF WriteIndex, EvictVictim, FinishPass, EvictionFails, At, Owns
    <2> QED  BY <1>2, <2>1, Zenon DEF WriteIndex, EvictVictim, FinishPass, EvictionFails
<1>3. CASE ReadEntry(c) \/ RemoveCorrupt(c) \/ CreateEntry(c) \/ ReadIncumbent(c)
           \/ ReadRejected(c) \/ RemoveRejected(c) \/ Scan(c) \/ Snapshot(c) \/ SkipPinned(c)
           \/ EndPass(c) \/ CallFails(c)
    BY <1>3 DEF ReadEntry, RemoveCorrupt, CreateEntry, ReadIncumbent, ReadRejected,
       RemoveRejected, Scan, Snapshot, SkipPinned, EndPass, CallFails
<1>4. QED
    BY <1>1, <1>2, <1>3 DEF Continues

\* While a call owns a log, no other call changes it.
LEMMA OwnedLogStays ==
    ASSUME Typing, Owners, NEW c \in Callers, Continues(c),
           NEW d \in Callers \ {c}, Owns(d)
    PROVE  logOwner'[HandleOf[d]] = d /\ LogOf(d)' = LogOf(d)
<1>1. logOwner[HandleOf[d]] = d /\ HandleOf[d] \in Handles /\ HandleOf[c] \in Handles
    BY NamespaceAssumption DEF Owners
<1>2. CASE UNCHANGED <<log, logOwner>>
    BY <1>1, <1>2 DEF LogOf
<1>3. CASE /\ LogIsFree(c) \/ Owns(c)
           /\ UNCHANGED log \/ \E l : SetLog(c, l)
           /\ UNCHANGED logOwner \/ LockLog(c) \/ UnlockLog(c)
    <2>1. HandleOf[c] # HandleOf[d]
        BY <1>1, <1>3, NamespaceAssumption DEF LogIsFree, Owners
    <2>2. log'[HandleOf[d]] = log[HandleOf[d]]
        BY <1>1, <1>3, <2>1 DEF SetLog, Typing
    <2>3. logOwner'[HandleOf[d]] = logOwner[HandleOf[d]]
        BY <1>1, <1>3, <2>1 DEF LockLog, UnlockLog, Typing
    <2> QED  BY <1>1, <2>2, <2>3 DEF LogOf
<1>4. QED
    BY <1>2, <1>3, LogsWorked

\* A call that comes to own its log has locked it; one that owned it and still
\* does has not let it go.
LEMMA OwnerLocks ==
    ASSUME Typing, Stages, Owners, NEW c \in Callers, Continues(c), Owns(c)'
    PROVE  logOwner'[HandleOf[c]] = c
<1>1. HandleOf[c] \in Handles /\ (Owns(c) => logOwner[HandleOf[c]] = c)
    BY NamespaceAssumption DEF Owners
<1>2. ASSUME LockLog(c)
      PROVE  logOwner'[HandleOf[c]] = c
    BY <1>1, <1>2 DEF LockLog, Typing
<1>3. ASSUME Return(c)
      PROVE  FALSE
    BY <1>3, ReturnKeeps DEF Owns, Idle
<1>4. ASSUME NEW pc, Goto(c, pc), pc \in {"touch", "forget", "remove_rejected", "merge", "incumbent"}
      PROVE  FALSE
    <2>1. call'[c].pc = pc
        BY <1>4 DEF Goto, Typing, CallRecords
    <2> QED  BY <1>4, <2>1 DEF Owns
<1>5. CASE Touch(c)
    BY <1>3, <1>4, <1>5 DEF Touch
<1>6. CASE Forget(c) \/ WriteIndex(c) \/ FinishPass(c) \/ CallFails(c) \/ ReconcileFails(c)
           \/ EvictionFails(c)
    BY <1>3, <1>6 DEF Forget, WriteIndex, FinishPass, CallFails, ReconcileFails, EvictionFails
<1>7. CASE ReadEntry(c)
    <2>1. call'[c].pc \in {"forget", "touch", "remove"}
        BY <1>7 DEF ReadEntry, Typing, CallRecords
    <2> QED  BY <2>1 DEF Owns
<1>8. CASE RemoveCorrupt(c) \/ RemoveRejected(c)
    BY <1>4, <1>8 DEF RemoveCorrupt, RemoveRejected
<1>9. CASE CreateEntry(c) \/ ReadIncumbent(c) \/ ReadRejected(c)
    BY <1>3, <1>4, <1>9 DEF CreateEntry, ReadIncumbent, ReadRejected
<1>10. CASE MergeIndex(c)
    BY <1>2, <1>10 DEF MergeIndex
<1>11. CASE Scan(c)
    <2>1. call'[c].pc = "reconcile"
        BY <1>11 DEF Scan, Typing, CallRecords
    <2> QED  BY <2>1 DEF Owns
<1>12. CASE Reconcile(c)
    BY <1>2, <1>3, <1>12 DEF Reconcile
<1>13. CASE Snapshot(c) \/ SkipPinned(c) \/ EvictVictim(c) \/ EndPass(c)
    <2>1. Owns(c)
        BY <1>13 DEF Snapshot, SkipPinned, EvictVictim, EndPass, At, Owns
    <2>2. UNCHANGED logOwner
        BY <1>13 DEF Snapshot, SkipPinned, EvictVictim, EndPass
    <2> QED  BY <1>1, <2>1, <2>2
<1>14. QED
    BY <1>5, <1>6, <1>7, <1>8, <1>9, <1>10, <1>11, <1>12, <1>13 DEF Continues

\* A call begins at its first location, and nothing but its record and what it
\* is guarded from changes.
LEMMA CallBegins ==
    ASSUME Typing, NEW c \in Callers, Calls(c)
    PROVE  /\ UNCHANGED <<files, log, logOwner, pins, environment, published, created>>
           /\ At(c, "idle")
           /\ call'[c].pc \in {"read", "create", "read_rejected", "merge", "scan"}
           /\ \A d \in Callers \ {c} : call'[d] = call[d] /\ guarded'[d] = guarded[d]
           /\ \/ guarded' = guarded
              \/ guarded'[c] = {k \in Keys : pins[StoreOfCaller(c)][k] > 0}
<1>1. ASSUME NEW op, NEW pc, NEW k, NEW p, Begin(c, op, pc, k, p)
      PROVE  /\ UNCHANGED <<files, log, logOwner, pins, environment, published, created>>
             /\ At(c, "idle") /\ call'[c].pc = pc
             /\ \A d \in Callers \ {c} : call'[d] = call[d]
    BY <1>1 DEF Begin, Typing, Idle
<1>2. CASE \E k \in Keys : Get(c, k)
    <2>1. PICK k \in Keys : Begin(c, "get", "read", k, Absent) /\ UNCHANGED guarded
        BY <1>2 DEF Get
    <2> QED  BY <1>1, <2>1
<1>3. CASE \E k \in Keys, p \in Payloads : Put(c, k, p) \/ EvictRejected(c, k, p)
    <2>1. PICK k \in Keys, p \in Payloads :
             /\ \/ Begin(c, "put", "create", k, p)
                \/ Begin(c, "evict_rejected", "read_rejected", k, p)
             /\ UNCHANGED guarded
        BY <1>3 DEF Put, EvictRejected
    <2> QED  BY <1>1, <2>1
<1>4. CASE Flush(c)
    BY <1>1, <1>4 DEF Flush
<1>5. CASE Usage(c)
    BY <1>1, <1>5 DEF Usage
<1>6. CASE EvictToCeiling(c)
    <2>1. Begin(c, "maintain", "scan", NoKey, Absent)
        BY <1>6 DEF EvictToCeiling
    <2>2. /\ guarded'[c] = {k \in Keys : pins[StoreOfCaller(c)][k] > 0}
          /\ \A d \in Callers \ {c} : guarded'[d] = guarded[d]
        BY <1>6 DEF EvictToCeiling, Typing
    <2> QED  BY <1>1, <2>1, <2>2
<1>7. QED
    BY <1>2, <1>3, <1>4, <1>5, <1>6 DEF Calls

\* The death of a process ends its calls and leaves those of the others, their
\* logs and their mutexes alone.
LEMMA RestartEffect ==
    ASSUME Typing, NEW s \in Stores, Restart(s)
    PROVE  /\ UNCHANGED <<object, index, published>>
           /\ \A d \in Callers :
                 IF StoreOfCaller(d) = s
                 THEN call'[d] = Idle /\ created'[d] = {} /\ guarded'[d] = {}
                 ELSE /\ call'[d] = call[d] /\ created'[d] = created[d]
                      /\ guarded'[d] = guarded[d] /\ LogOf(d)' = LogOf(d)
                      /\ logOwner'[HandleOf[d]] = logOwner[HandleOf[d]]
                      /\ pins'[StoreOfCaller(d)] = pins[StoreOfCaller(d)]
<1>1. /\ call' = [c \in Callers |-> IF StoreOfCaller(c) = s THEN Idle ELSE call[c]]
      /\ created' = [c \in Callers |-> IF StoreOfCaller(c) = s THEN {} ELSE created[c]]
      /\ guarded' = [c \in Callers |-> IF StoreOfCaller(c) = s THEN {} ELSE guarded[c]]
      /\ pins' = [pins EXCEPT ![s] = [k \in Keys |-> 0]]
      /\ log' = [h \in Handles |-> IF StoreOf[h] = s THEN Rebase(index) ELSE log[h]]
      /\ logOwner' = [h \in Handles |-> IF StoreOf[h] = s THEN Nobody ELSE logOwner[h]]
    BY DEF Restart
<1>2. ASSUME NEW d \in Callers, StoreOfCaller(d) # s
      PROVE  /\ LogOf(d)' = LogOf(d)
             /\ logOwner'[HandleOf[d]] = logOwner[HandleOf[d]]
             /\ pins'[StoreOfCaller(d)] = pins[StoreOfCaller(d)]
    <2>1. HandleOf[d] \in Handles /\ StoreOf[HandleOf[d]] # s /\ StoreOf[HandleOf[d]] \in Stores
        BY <1>2, NamespaceAssumption DEF StoreOfCaller
    <2> QED  BY <1>1, <2>1 DEF LogOf, StoreOfCaller, Typing
<1>3. UNCHANGED <<object, index, published>>
    BY DEF Restart, files
<1>4. QED
    BY <1>1, <1>2, <1>3

\* Mutual exclusion on the access logs holds through every step.
LEMMA OwnersKept ==
    ASSUME Typing, Stages, Owners, [Next]_vars
    PROVE  Owners'
<1>1. ASSUME NEW c \in Callers, Calls(c)
      PROVE  Owners'
    BY <1>1, CallBegins DEF Owners, Owns
<1>2. ASSUME NEW c \in Callers, Continues(c)
      PROVE  Owners'
    <2>1. ASSUME NEW d \in Callers, Owns(d)'
          PROVE  logOwner'[HandleOf[d]] = d
        <3>1. CASE d = c
            BY <1>2, <2>1, <3>1, OwnerLocks
        <3>2. CASE d # c
            <4>1. Owns(d)
                BY <1>2, <2>1, <3>2, ContinuesTypes DEF Owns
            <4> QED  BY <1>2, <3>2, <4>1, OwnedLogStays
        <3> QED  BY <3>1, <3>2
    <2> QED  BY <2>1 DEF Owners
<1>3. ASSUME NEW s \in Stores, Restart(s)
      PROVE  Owners'
    BY <1>3, RestartEffect DEF Owners, Owns, Idle
<1>4. ASSUME NEW s \in Stores, NEW k \in Keys, Pin(s, k) \/ Unpin(s, k)
      PROVE  Owners'
    BY <1>4 DEF Pin, Unpin, Owners, Owns
<1>5. CASE Damage
    BY <1>5 DEF Damage, Owners, Owns
<1>6. CASE UNCHANGED vars
    BY <1>6 DEF vars, Owners, Owns
<1>7. QED
    BY <1>1, <1>2, <1>3, <1>4, <1>5, <1>6 DEF Next

----------------------------------------------------------------------------
\* Answers

\* What a call at "touch" is about to answer was published under its key.
Sourced(c) ==
    At(c, "touch") =>
        LET answer == IF call[c].op = "get" THEN call[c].seen ELSE call[c].payload
        IN call[c].op \in {"get", "put"} => answer \in published[call[c].key]

\* What a step of a call does to the disk: it publishes its payload where there
\* was nothing, or it removes.
LEMMA DiskWorked ==
    ASSUME Typing, Stages, NEW c \in Callers, Continues(c)
    PROVE  \/ UNCHANGED <<object, published>>
           \/ /\ UNCHANGED published
              /\ \E k : object' = [object EXCEPT ![k] = Absent]
           \/ /\ At(c, "create") /\ object[call[c].key] = Absent
              /\ object' = [object EXCEPT ![call[c].key] = call[c].payload]
              /\ published' = [published EXCEPT ![call[c].key] = @ \cup {call[c].payload}]
              /\ created' = [d \in Callers |-> IF At(d, "idle") THEN {}
                                                 ELSE created[d] \cup {call[c].key}]
              /\ Goto(c, "touch")
<1>1. CASE RemoveCorrupt(c) \/ RemoveRejected(c) \/ EvictVictim(c)
    BY <1>1, Zenon DEF RemoveCorrupt, RemoveRejected, EvictVictim, history
<1>2. CASE CreateEntry(c)
    BY <1>2 DEF CreateEntry
<1>3. CASE Touch(c) \/ Forget(c) \/ ReadEntry(c) \/ ReadIncumbent(c) \/ MergeIndex(c)
           \/ WriteIndex(c) \/ ReadRejected(c) \/ Scan(c) \/ Reconcile(c) \/ Snapshot(c)
           \/ SkipPinned(c) \/ EndPass(c) \/ FinishPass(c) \/ CallFails(c) \/ ReconcileFails(c)
           \/ EvictionFails(c)
    BY <1>3 DEF Touch, Forget, ReadEntry, ReadIncumbent, MergeIndex, WriteIndex, ReadRejected,
       Scan, Reconcile, Snapshot, SkipPinned, EndPass, FinishPass, CallFails, ReconcileFails,
       EvictionFails, files, history
<1>4. QED
    BY <1>1, <1>2, <1>3 DEF Continues

\* What parses on the disk stays something that was published there, and no
\* publication is forgotten.
LEMMA ProvenanceKept ==
    ASSUME Typing, Stages, Provenance, [Next]_vars
    PROVE  Provenance' /\ \A k \in Keys : published[k] \subseteq published'[k]
<1>0. /\ object \in [Keys -> Payloads \cup {Absent, Corrupt}]
      /\ published \in [Keys -> SUBSET Payloads]
      /\ Absent \notin Payloads /\ Corrupt \notin Payloads
    BY NamespaceAssumption DEF Typing
<1>1. CASE UNCHANGED <<object, published>>
    BY <1>1 DEF Provenance
<1>2. ASSUME UNCHANGED published, NEW k, object' = [object EXCEPT ![k] = Absent]
      PROVE  Provenance' /\ \A j \in Keys : published[j] \subseteq published'[j]
    BY <1>0, <1>2 DEF Provenance
<1>3. ASSUME NEW k \in Keys, NEW p,
             object' = [object EXCEPT ![k] = p],
             published' = [published EXCEPT ![k] = @ \cup {p}]
      PROVE  Provenance' /\ \A j \in Keys : published[j] \subseteq published'[j]
    BY <1>0, <1>3 DEF Provenance
<1>4. ASSUME NEW c \in Callers, Calls(c)
      PROVE  UNCHANGED <<object, published>>
    BY <1>4, CallBegins DEF files
<1>5. ASSUME NEW c \in Callers, Continues(c)
      PROVE  Provenance' /\ \A j \in Keys : published[j] \subseteq published'[j]
    <2>1. At(c, "create") => call[c].key \in Keys
        BY DEF At, Stages
    <2> QED  BY <1>1, <1>2, <1>3, <1>5, <2>1, DiskWorked
<1>6. ASSUME NEW s \in Stores, NEW k \in Keys, Pin(s, k) \/ Unpin(s, k)
      PROVE  UNCHANGED <<object, published>>
    BY <1>6 DEF Pin, Unpin, files, history
<1>7. ASSUME NEW s \in Stores, Restart(s)
      PROVE  UNCHANGED <<object, published>>
    BY <1>7, RestartEffect
<1>8. CASE Damage
    BY <1>0, <1>8 DEF Damage, Provenance, history
<1>9. CASE UNCHANGED vars
    BY <1>1, <1>9 DEF vars, files, history
<1>10. QED
    BY <1>1, <1>4, <1>5, <1>6, <1>7, <1>8, <1>9 DEF Next

\* A call reaches "touch" with an answer that was published, and keeps it.
LEMMA AnswersKept ==
    ASSUME Typing, Stages, Provenance, AnswersArePublished, [Next]_vars
    PROVE  AnswersArePublished'
<1>0. ASSUME NEW d \in Callers, call'[d] = call[d]
      PROVE  Sourced(d)'
    <2>1. Sourced(d)
        BY DEF AnswersArePublished, Sourced
    <2>2. At(d, "touch") => call[d].key \in Keys
        BY DEF At, Stages
    <2> QED  BY <1>0, <2>1, <2>2, ProvenanceKept DEF Sourced, At
<1>1. ASSUME NEW c \in Callers, Continues(c), At(c, "touch")'
      PROVE  Sourced(c)'
    <2>1. call[c] \in CallRecords /\ call \in [Callers -> CallRecords]
        BY DEF Typing
    <2>2. ASSUME Return(c)
          PROVE  FALSE
        BY <1>1, <2>2, ReturnKeeps DEF At, Idle
    <2>3. ASSUME NEW pc, Goto(c, pc), pc # "touch"
          PROVE  FALSE
        BY <1>1, <2>1, <2>3 DEF Goto, At, CallRecords
    <2>4. CASE ReadEntry(c)
        <3>1. call[c].key \in Keys /\ call[c].op = "get"
            BY <2>4 DEF ReadEntry, At, Stages
        <3>2. /\ call'[c].seen = object[call[c].key] /\ call'[c].key = call[c].key
              /\ call'[c].op = call[c].op
              /\ Verified(object[call[c].key])
            BY <1>1, <2>1, <2>4 DEF ReadEntry, At, CallRecords
        <3>3. object[call[c].key] \in published[call[c].key]
            BY <3>1, <3>2 DEF Verified, Provenance
        <3>4. published' = published
            BY <2>4 DEF ReadEntry, history
        <3> QED  BY <3>1, <3>2, <3>3, <3>4 DEF Sourced
    <2>5. ASSUME Goto(c, "touch"), call[c].op = "put", call[c].payload \in published'[call[c].key]
          PROVE  Sourced(c)'
        <3>1. call'[c] = [call[c] EXCEPT !.pc = "touch"]
            BY <2>1, <2>5 DEF Goto
        <3>2. call'[c].op = "put" /\ call'[c].key = call[c].key /\ call'[c].payload = call[c].payload
            BY <2>1, <2>5, <3>1 DEF CallRecords
        <3> QED  BY <2>5, <3>2 DEF Sourced
    <2>6. CASE CreateEntry(c)
        <3>1. call[c].key \in Keys /\ call[c].op = "put" /\ call[c].payload \in Payloads
            BY <2>6 DEF CreateEntry, At, Stages
        <3>2. CASE Goto(c, "incumbent")
            BY <2>3, <3>2
        <3>3. CASE /\ published' = [published EXCEPT ![call[c].key] = @ \cup {call[c].payload}]
                   /\ Goto(c, "touch")
            <4>1. call[c].payload \in published'[call[c].key]
                BY <3>1, <3>3 DEF Typing
            <4> QED  BY <2>5, <3>1, <3>3, <4>1
        <3> QED  BY <2>6, <3>2, <3>3 DEF CreateEntry
    <2>7. CASE ReadIncumbent(c)
        <3>1. /\ call[c].key \in Keys /\ call[c].op = "put" /\ call[c].payload \in Payloads
              /\ published' = published
            BY <2>7 DEF ReadIncumbent, At, Stages
        <3>2. CASE Return(c)
            BY <2>2, <3>2
        <3>3. CASE object[call[c].key] = call[c].payload /\ Goto(c, "touch")
            BY <2>5, <3>1, <3>3 DEF Provenance
        <3> QED  BY <2>7, <3>2, <3>3 DEF ReadIncumbent
    <2>8. CASE Touch(c) \/ Forget(c) \/ WriteIndex(c) \/ ReadRejected(c) \/ FinishPass(c)
               \/ CallFails(c) \/ ReconcileFails(c) \/ EvictionFails(c)
        BY <2>2, <2>3, <2>8 DEF Touch, Forget, WriteIndex, ReadRejected, FinishPass, CallFails,
           ReconcileFails, EvictionFails
    <2>9. CASE RemoveCorrupt(c) \/ MergeIndex(c) \/ RemoveRejected(c) \/ EndPass(c)
        BY <2>3, <2>9 DEF RemoveCorrupt, MergeIndex, RemoveRejected, EndPass
    <2>10. CASE Scan(c) \/ Snapshot(c)
        BY <1>1, <2>1, <2>10 DEF Scan, Snapshot, At, CallRecords
    <2>11. CASE SkipPinned(c) \/ EvictVictim(c)
        BY <1>1, <2>1, <2>11 DEF SkipPinned, EvictVictim, At, CallRecords
    <2>12. CASE Reconcile(c)
        <3>1. CASE Return(c)
            BY <2>2, <3>1
        <3>2. ASSUME NEW n, NEW b,
                     call' = [call EXCEPT ![c].total = n,
                                          ![c].pc = IF b THEN "snapshot" ELSE "finish"]
              PROVE  FALSE
            BY <1>1, <2>1, <3>2 DEF At, CallRecords
        <3> QED  BY <2>12, <3>1, <3>2 DEF Reconcile
    <2> QED
        BY <1>1, <2>4, <2>6, <2>7, <2>8, <2>9, <2>10, <2>11, <2>12 DEF Continues
<1>2. ASSUME NEW d \in Callers
      PROVE  Sourced(d)'
    <2>1. ASSUME NEW c \in Callers, Calls(c)
          PROVE  Sourced(d)'
        <3>1. CASE d = c
            BY <2>1, <3>1, CallBegins DEF Sourced, At
        <3>2. CASE d # c
            BY <1>0, <2>1, <3>2, CallBegins
        <3> QED  BY <3>1, <3>2
    <2>2. ASSUME NEW c \in Callers, Continues(c)
          PROVE  Sourced(d)'
        <3>1. CASE d = c
            BY <1>1, <2>2, <3>1 DEF Sourced
        <3>2. CASE d # c
            BY <1>0, <2>2, <3>2, ContinuesTypes
        <3> QED  BY <3>1, <3>2
    <2>3. ASSUME NEW s \in Stores, NEW k \in Keys, Pin(s, k) \/ Unpin(s, k)
          PROVE  Sourced(d)'
        BY <1>0, <2>3 DEF Pin, Unpin
    <2>4. ASSUME NEW s \in Stores, Restart(s)
          PROVE  Sourced(d)'
        BY <1>0, <2>4, RestartEffect DEF Sourced, At, Idle
    <2>5. CASE Damage
        BY <1>0, <2>5 DEF Damage
    <2>6. CASE UNCHANGED vars
        BY <1>0, <2>6 DEF vars
    <2> QED  BY <2>1, <2>2, <2>3, <2>4, <2>5, <2>6 DEF Next
<1>3. QED
    BY <1>2 DEF AnswersArePublished, Sourced

----------------------------------------------------------------------------
\* Passes

\* The steps that bring a call to the locations of a pass.
LEMMA PassSteps ==
    ASSUME Typing, Stages, NEW c \in Callers, Continues(c)
    PROVE  /\ At(c, "reconcile")' => Scan(c)
           /\ At(c, "snapshot")' => Reconcile(c)
           /\ At(c, "evict")' => Snapshot(c) \/ SkipPinned(c) \/ EvictVictim(c)
           /\ At(c, "finish")' => Reconcile(c) \/ EndPass(c)
<1> DEFINE here == call'[c].pc
<1>0. call[c] \in CallRecords /\ call \in [Callers -> CallRecords]
    BY DEF Typing
<1>1. ASSUME Return(c)
      PROVE  here = "idle"
    BY <1>1, ReturnKeeps DEF Idle
<1>2. ASSUME NEW pc, Goto(c, pc)
      PROVE  here = pc
    BY <1>0, <1>2 DEF Goto, CallRecords
<1>3. CASE ReadEntry(c)
    <2>1. here \in {"forget", "touch", "remove"}
        BY <1>0, <1>3 DEF ReadEntry, CallRecords
    <2> QED  BY <2>1 DEF At
<1>4. CASE Touch(c) \/ Forget(c) \/ WriteIndex(c) \/ ReadRejected(c) \/ FinishPass(c)
           \/ CallFails(c) \/ ReconcileFails(c) \/ EvictionFails(c)
    <2>1. here \in {"idle", "merge", "forget", "remove_rejected"}
        BY <1>1, <1>2, <1>4 DEF Touch, Forget, WriteIndex, ReadRejected, FinishPass,
           CallFails, ReconcileFails, EvictionFails
    <2> QED  BY <2>1 DEF At
<1>5. CASE RemoveCorrupt(c) \/ CreateEntry(c) \/ ReadIncumbent(c) \/ MergeIndex(c)
           \/ RemoveRejected(c)
    <2>1. here \in {"idle", "forget", "touch", "incumbent", "write"}
        BY <1>1, <1>2, <1>5 DEF RemoveCorrupt, CreateEntry, ReadIncumbent, MergeIndex,
           RemoveRejected
    <2> QED  BY <2>1 DEF At
<1>6. CASE Scan(c)
    <2>1. here = "reconcile"
        BY <1>0, <1>6 DEF Scan, CallRecords
    <2> QED  BY <1>6, <2>1 DEF At
<1>7. CASE Reconcile(c)
    <2>1. ASSUME NEW n, NEW b,
                 call' = [call EXCEPT ![c].total = n,
                                      ![c].pc = IF b THEN "snapshot" ELSE "finish"]
          PROVE  here \in {"snapshot", "finish"}
        BY <1>0, <2>1 DEF CallRecords
    <2>2. here \in {"idle", "snapshot", "finish"}
        BY <1>1, <1>7, <2>1 DEF Reconcile
    <2> QED  BY <1>7, <2>2 DEF At
<1>8. CASE Snapshot(c)
    <2>1. here = "evict"
        BY <1>0, <1>8 DEF Snapshot, CallRecords
    <2> QED  BY <1>8, <2>1 DEF At
<1>9. CASE SkipPinned(c) \/ EvictVictim(c)
    <2>1. here = "evict"
        BY <1>0, <1>9 DEF SkipPinned, EvictVictim, At, CallRecords
    <2> QED  BY <1>9, <2>1 DEF At
<1>10. CASE EndPass(c)
    <2>1. here = "finish"
        BY <1>2, <1>10 DEF EndPass
    <2> QED  BY <1>10, <2>1 DEF At
<1>11. QED
    BY <1>3, <1>4, <1>5, <1>6, <1>7, <1>8, <1>9, <1>10 DEF Continues

\* A key is guarded from a pass no longer than it is pinned, and a pass respects
\* every pin there was when it took its snapshot.
Guarded(c) ==
    /\ \A k \in guarded[c] : pins[StoreOfCaller(c)][k] > 0
    /\ At(c, "evict") => guarded[c] \subseteq call[c].pinned

\* What an eviction must spare stays spared by every step.
LEMMA GuardsKept ==
    ASSUME Typing, Stages, Guards, [Next]_vars
    PROVE  Guards'
<1>0. ASSUME NEW d \in Callers
      PROVE  /\ Guarded(d) /\ call[d] \in CallRecords /\ StoreOfCaller(d) \in Stores
             /\ guarded[d] \subseteq Keys
    BY CallerTypes DEF Guards, Guarded, Typing
<1>1. ASSUME NEW d \in Callers, call'[d] = call[d], guarded'[d] \subseteq guarded[d],
             \A k \in guarded'[d] : pins'[StoreOfCaller(d)][k] > 0
      PROVE  Guarded(d)'
    BY <1>0, <1>1 DEF Guarded, At, StoreOfCaller
<1>2. ASSUME NEW c \in Callers, Continues(c), NEW d \in Callers
      PROVE  Guarded(d)'
    <2>1. pins' = pins
        BY <1>2 DEF Continues, Touch, Forget, ReadEntry, RemoveCorrupt, CreateEntry,
           ReadIncumbent, MergeIndex, WriteIndex, ReadRejected, RemoveRejected, Scan, Reconcile,
           Snapshot, SkipPinned, EvictVictim, EndPass, FinishPass, CallFails, ReconcileFails,
           EvictionFails
    <2>2. guarded' = guarded \/ guarded' = [guarded EXCEPT ![c] = {}]
        BY <1>2 DEF Continues, Touch, Forget, ReadEntry, RemoveCorrupt, CreateEntry,
           ReadIncumbent, MergeIndex, WriteIndex, ReadRejected, RemoveRejected, Scan, Reconcile,
           Snapshot, SkipPinned, EvictVictim, EndPass, FinishPass, CallFails, ReconcileFails,
           EvictionFails, Return, history
    <2>3. guarded'[d] \subseteq guarded[d]
        BY <2>2 DEF Typing
    <2>4. \A k \in guarded'[d] : pins'[StoreOfCaller(d)][k] > 0
        BY <1>0, <2>1, <2>3 DEF Guarded
    <2>5. CASE d # c
        BY <1>1, <1>2, <2>3, <2>4, <2>5, ContinuesTypes
    <2>6. CASE d = c /\ ~At(c, "evict")'
        BY <2>4, <2>6 DEF Guarded, StoreOfCaller
    <2>7. CASE d = c /\ Snapshot(c)
        <3>1. call'[c].pinned = {k \in Keys : pins[StoreOfCaller(c)][k] > 0}
            BY <1>0, <2>7 DEF Snapshot, CallRecords, Typing
        <3>2. guarded'[c] \subseteq call'[c].pinned
            BY <1>0, <2>3, <2>7, <3>1 DEF Guarded
        <3> QED  BY <2>4, <2>7, <3>2 DEF Guarded, StoreOfCaller
    <2>8. CASE d = c /\ (SkipPinned(c) \/ EvictVictim(c))
        <3>1. call'[c].pinned = call[c].pinned /\ At(c, "evict")
            BY <1>0, <2>8 DEF SkipPinned, EvictVictim, CallRecords, Typing
        <3>2. guarded'[c] \subseteq call'[c].pinned
            BY <1>0, <2>3, <2>8, <3>1 DEF Guarded
        <3> QED  BY <2>4, <2>8, <3>2 DEF Guarded, StoreOfCaller
    <2> QED  BY <1>2, <2>5, <2>6, <2>7, <2>8, PassSteps
<1>3. ASSUME NEW c \in Callers, Calls(c), NEW d \in Callers
      PROVE  Guarded(d)'
    <2>1. pins' = pins
        BY <1>3, CallBegins
    <2>2. CASE d # c
        BY <1>0, <1>1, <1>3, <2>1, <2>2, CallBegins DEF Guarded
    <2>3. CASE d = c
        <3>1. ~At(c, "evict")'
            BY <1>3, CallBegins DEF At
        <3>2. \A k \in guarded'[c] : pins[StoreOfCaller(c)][k] > 0
            BY <1>0, <1>3, CallBegins DEF Guarded
        <3> QED  BY <2>1, <2>3, <3>1, <3>2 DEF Guarded, StoreOfCaller
    <2> QED  BY <2>2, <2>3
<1>4. ASSUME NEW s \in Stores, NEW j \in Keys, Pin(s, j), NEW d \in Callers
      PROVE  Guarded(d)'
    <2>1. ASSUME NEW k \in Keys, pins[StoreOfCaller(d)][k] > 0
          PROVE  pins'[StoreOfCaller(d)][k] > 0
        <3>1. CASE StoreOfCaller(d) = s /\ k = j
            <4>1. pins'[s][j] = pins[s][j] + 1
                BY <1>4 DEF Pin, Typing
            <4>2. pins[s][j] \in Nat
                BY NamespaceAssumption DEF Typing
            <4> QED  BY <2>1, <3>1, <4>1, <4>2
        <3>2. CASE ~(StoreOfCaller(d) = s /\ k = j)
            <4>1. pins'[StoreOfCaller(d)][k] = pins[StoreOfCaller(d)][k]
                BY <1>0, <1>4, <3>2 DEF Pin, Typing
            <4> QED  BY <2>1, <4>1
        <3> QED  BY <3>1, <3>2
    <2> QED  BY <1>0, <1>1, <1>4, <2>1 DEF Pin, history, Guarded
<1>5. ASSUME NEW s \in Stores, NEW j \in Keys, Unpin(s, j), NEW d \in Callers
      PROVE  Guarded(d)'
    <2>1. guarded'[d] = IF StoreOfCaller(d) = s
                        THEN guarded[d] \ (IF pins[s][j] = 1 THEN {j} ELSE {})
                        ELSE guarded[d]
        BY <1>5 DEF Unpin, Unguard
    <2>2. ASSUME NEW k \in guarded'[d]
          PROVE  pins'[StoreOfCaller(d)][k] > 0
        <3>1. k \in Keys /\ k \in guarded[d] /\ pins[StoreOfCaller(d)][k] > 0
            BY <1>0, <2>1, <2>2 DEF Guarded
        <3>2. pins[s][j] \in Nat /\ pins[StoreOfCaller(d)][k] \in Nat
            BY <1>0, <3>1, NamespaceAssumption DEF Typing
        <3>3. CASE StoreOfCaller(d) = s /\ k = j
            <4>1. pins[s][j] # 1
                BY <2>1, <2>2, <3>3
            <4>2. pins'[s][j] = pins[s][j] - 1
                BY <1>5 DEF Unpin, Typing
            <4> QED  BY <3>1, <3>2, <3>3, <4>1, <4>2
        <3>4. CASE ~(StoreOfCaller(d) = s /\ k = j)
            <4>1. pins'[StoreOfCaller(d)][k] = pins[StoreOfCaller(d)][k]
                BY <1>0, <1>5, <3>1, <3>4 DEF Unpin, Typing
            <4> QED  BY <3>1, <4>1
        <3> QED  BY <3>3, <3>4
    <2>3. guarded'[d] \subseteq guarded[d] /\ call' = call
        BY <1>5, <2>1 DEF Unpin
    <2> QED  BY <1>1, <2>2, <2>3
<1>6. ASSUME NEW s \in Stores, Restart(s), NEW d \in Callers
      PROVE  Guarded(d)'
    <2>1. CASE StoreOfCaller(d) = s
        BY <1>6, <2>1, RestartEffect DEF Guarded, At, Idle
    <2>2. CASE StoreOfCaller(d) # s
        BY <1>0, <1>1, <1>6, <2>2, RestartEffect DEF Guarded
    <2> QED  BY <2>1, <2>2
<1>7. ASSUME Damage \/ UNCHANGED vars, NEW d \in Callers
      PROVE  Guarded(d)'
    <2>1. UNCHANGED <<call, guarded, pins>>
        BY <1>7 DEF Damage, vars, history
    <2> QED  BY <1>0, <2>1 DEF Guarded, At, StoreOfCaller
<1>8. ASSUME NEW d \in Callers
      PROVE  Guarded(d)'
    BY <1>2, <1>3, <1>4, <1>5, <1>6, <1>7 DEF Next
<1>9. QED
    BY <1>8 DEF Guards, Guarded

\* What one pass is accountable for, at each of its locations.
Accounted(c) ==
    /\ At(c, "reconcile") => Old(c) \subseteq call[c].scanned
    /\ At(c, "snapshot") =>
          /\ Old(c) \subseteq DOMAIN LogOf(c).seq
          /\ call[c].total = Cardinality(DOMAIN LogOf(c).seq)
    /\ At(c, "evict") =>
          /\ call[c].left \subseteq DOMAIN LogOf(c).seq
          /\ Old(c) \subseteq call[c].left \cup call[c].pinned
          /\ Cardinality(Old(c) \cup call[c].left) <= call[c].total
    /\ At(c, "finish") =>
          /\ Cardinality(Old(c)) <= call[c].total
          /\ call[c].total > Ceiling => Old(c) \subseteq call[c].pinned

\* A pass that goes on where it was, over a log nobody else touched, stays
\* accountable when the entries it is accountable for have become fewer.
LEMMA FewerEntries ==
    ASSUME Typing, NEW d \in Callers, Accounted(d),
           call'[d] = call[d], Old(d)' \subseteq Old(d),
           Owns(d) => LogOf(d)' = LogOf(d)
    PROVE  Accounted(d)'
<1>1. /\ call[d] \in CallRecords /\ Old(d) \subseteq Keys /\ call[d].left \subseteq Keys
      /\ call[d].total \in Nat
    BY DEF Typing, CallRecords, Old, Stored
<1>2. /\ Cardinality(Old(d)') <= Cardinality(Old(d))
      /\ Cardinality(Old(d)' \cup call[d].left) <= Cardinality(Old(d) \cup call[d].left)
      /\ Cardinality(Old(d)') \in Nat /\ Cardinality(Old(d)) \in Nat
      /\ Cardinality(Old(d)' \cup call[d].left) \in Nat
      /\ Cardinality(Old(d) \cup call[d].left) \in Nat
    <2>1. /\ Old(d)' \cup call[d].left \subseteq Old(d) \cup call[d].left
          /\ IsFiniteSet(Old(d)) /\ IsFiniteSet(Old(d) \cup call[d].left)
        BY <1>1, KeySets
    <2> HIDE DEF Old
    <2> QED  BY <2>1, FS_Subset, FS_CardinalityType
<1>3. CASE At(d, "finish")
    <2>1. /\ Cardinality(Old(d)') <= call[d].total
          /\ call[d].total > Ceiling => Old(d)' \subseteq call[d].pinned
        BY <1>1, <1>2, <1>3 DEF Accounted
    <2> QED  BY <1>3, <2>1 DEF Accounted, At
<1>4. CASE At(d, "evict")
    <2>1. LogOf(d)' = LogOf(d)
        BY <1>4 DEF Owns, At
    <2>2. /\ call[d].left \subseteq DOMAIN LogOf(d).seq
          /\ Old(d)' \subseteq call[d].left \cup call[d].pinned
          /\ Cardinality(Old(d)' \cup call[d].left) <= call[d].total
        BY <1>1, <1>2, <1>4 DEF Accounted
    <2> QED  BY <1>4, <2>1, <2>2 DEF Accounted, At
<1>5. CASE At(d, "snapshot")
    <2>1. LogOf(d)' = LogOf(d)
        BY <1>5 DEF Owns, At
    <2>2. /\ Old(d)' \subseteq DOMAIN LogOf(d).seq
          /\ call[d].total = Cardinality(DOMAIN LogOf(d).seq)
        BY <1>5 DEF Accounted
    <2> QED  BY <1>5, <2>1, <2>2 DEF Accounted, At
<1>6. CASE At(d, "reconcile")
    <2>1. Old(d)' \subseteq call[d].scanned
        BY <1>6 DEF Accounted
    <2> QED  BY <1>6, <2>1 DEF Accounted, At
<1>7. QED
    BY <1>3, <1>4, <1>5, <1>6 DEF Accounted, At

\* What another call creates a running pass is not accountable for; what it
\* removes there is no more.
LEMMA OthersShrink ==
    ASSUME Typing, Stages, NEW c \in Callers, Continues(c), NEW d \in Callers \ {c},
           ~At(d, "idle")
    PROVE  Old(d)' \subseteq Old(d)
<1>1. ASSUME UNCHANGED <<object, created>> \/
             (UNCHANGED object /\ created' = [created EXCEPT ![c] = {}])
      PROVE  Old(d)' \subseteq Old(d)
    BY <1>1 DEF Old, Stored, Typing
<1>2. ASSUME NEW k, object' = [object EXCEPT ![k] = Absent], UNCHANGED created
      PROVE  Old(d)' \subseteq Old(d)
    BY <1>2 DEF Old, Stored, Typing
<1>3. CASE CreateEntry(c)
    <2>1. CASE /\ object' = [object EXCEPT ![call[c].key] = call[c].payload]
               /\ created' = [e \in Callers |-> IF At(e, "idle") THEN {}
                                                  ELSE created[e] \cup {call[c].key}]
        BY <2>1 DEF Old, Stored, Typing
    <2>2. CASE UNCHANGED <<object, created>>
        BY <1>1, <2>2
    <2> QED  BY <1>3, <2>1, <2>2 DEF CreateEntry
<1>4. CASE RemoveCorrupt(c) \/ RemoveRejected(c) \/ EvictVictim(c)
    <2>1. UNCHANGED created /\ (UNCHANGED object \/ \E k : object' = [object EXCEPT ![k] = Absent])
        BY <1>4, Zenon DEF RemoveCorrupt, RemoveRejected, EvictVictim, history
    <2> QED  BY <1>1, <1>2, <2>1
<1>5. CASE Touch(c) \/ Forget(c) \/ ReadEntry(c) \/ ReadIncumbent(c) \/ MergeIndex(c)
           \/ WriteIndex(c) \/ ReadRejected(c) \/ Scan(c) \/ Reconcile(c) \/ Snapshot(c)
           \/ SkipPinned(c) \/ EndPass(c) \/ FinishPass(c) \/ CallFails(c) \/ ReconcileFails(c)
           \/ EvictionFails(c)
    <2>1. UNCHANGED object /\ (UNCHANGED created \/ created' = [created EXCEPT ![c] = {}])
        BY <1>5 DEF Touch, Forget, ReadEntry, ReadIncumbent, MergeIndex, WriteIndex,
           ReadRejected, Scan, Reconcile, Snapshot, SkipPinned, EndPass, FinishPass, CallFails,
           ReconcileFails, EvictionFails, files, history, Return
    <2> QED  BY <1>1, <2>1
<1>6. QED
    BY <1>3, <1>4, <1>5 DEF Continues

\* A pass's own steps keep its account: the scan, the reconciliation, the
\* snapshot, each candidate skipped or evicted, and the end.
LEMMA OwnSteps ==
    ASSUME Typing, Stages, NEW c \in Callers, Continues(c), Accounted(c)
    PROVE  Accounted(c)'
<1>0. /\ call[c] \in CallRecords /\ call \in [Callers -> CallRecords]
      /\ HandleOf[c] \in Handles /\ LogOf(c) \in Logs
      /\ Old(c) \subseteq Stored /\ Stored \subseteq Keys
    BY CallerTypes DEF Typing, Old, Stored
<1>1. CASE Scan(c)
    <2>1. call'[c].pc = "reconcile" /\ call'[c].scanned = Stored /\ Stored' = Stored
        BY <1>0, <1>1 DEF Scan, CallRecords, Stored, files
    <2>2. Old(c)' \subseteq call'[c].scanned
        BY <2>1 DEF Old
    <2> QED  BY <2>1, <2>2 DEF Accounted, At
<1>2. CASE Reconcile(c) /\ ~At(c, "idle")'
    <2> DEFINE scanned == call[c].scanned
               l == Reconciled(LogOf(c), scanned, scanned)
               n == Cardinality(DOMAIN l.seq)
    <2>1. Old(c) \subseteq scanned /\ scanned \in SUBSET Keys
        BY <1>0, <1>2 DEF Reconcile, Accounted, At, CallRecords
    <2>2. l \in Logs /\ DOMAIN l.seq = scanned \cap Stored
        <3>1. /\ l \in Logs
              /\ DOMAIN l.seq = ((DOMAIN LogOf(c).seq \cap scanned) \ scanned)
                                   \cup (scanned \cap Stored)
            BY <1>0, <2>1, ReconciledLog
        <3> HIDE DEF l
        <3> QED  BY <3>1
    <2>3. /\ SetLog(c, l)
          /\ call' = [call EXCEPT ![c].total = n,
                                  ![c].pc = IF n > Ceiling THEN "snapshot" ELSE "finish"]
          /\ UNCHANGED <<object, created>>
        <3>1. ~Return(c)
            BY <1>2, ReturnKeeps DEF At, Idle
        <3> QED  BY <1>2, <3>1 DEF Reconcile, files
    <2>4. LogOf(c)' = l
        <3> HIDE DEF l
        <3> QED  BY <1>0, <2>3, SetLogKeeps, <2>2 DEF LogOf
    <2>5. /\ call'[c].total = n
          /\ call'[c].pc = IF n > Ceiling THEN "snapshot" ELSE "finish"
        <3> HIDE DEF l, n
        <3> QED  BY <1>0, <2>3 DEF CallRecords
    <2>6. Old(c)' = Old(c) /\ Old(c) \subseteq DOMAIN l.seq
        BY <1>0, <2>1, <2>2, <2>3 DEF Old, Stored
    <2>7. /\ Cardinality(Old(c)) <= n /\ n \in Nat
        <3>1. DOMAIN l.seq \subseteq Keys
            BY <1>0, <2>2
        <3>2. IsFiniteSet(DOMAIN l.seq)
            <4> HIDE DEF l
            <4> QED  BY <3>1, KeySets
        <3> HIDE DEF l
        <3> QED  BY <2>6, <3>2, FS_Subset, FS_CardinalityType
    <2>8. n > Ceiling \/ n <= Ceiling
        BY <2>7, NamespaceAssumption
    <2> HIDE DEF l, n
    <2>9. CASE n > Ceiling
        <3>1. /\ Old(c)' \subseteq DOMAIN LogOf(c)'.seq
              /\ call'[c].total = Cardinality(DOMAIN LogOf(c)'.seq)
            BY <2>4, <2>5, <2>6 DEF n
        <3> QED  BY <2>5, <2>9, <3>1 DEF Accounted, At
    <2>10. CASE n <= Ceiling
        <3>1. ~(n > Ceiling)
            BY <2>7, <2>10, NamespaceAssumption
        <3>2. Cardinality(Old(c)') <= call'[c].total /\ ~(call'[c].total > Ceiling)
            BY <2>5, <2>6, <2>7, <3>1
        <3> QED  BY <2>5, <3>1, <3>2 DEF Accounted, At
    <2> QED  BY <2>8, <2>9, <2>10
<1>3. CASE Snapshot(c)
    <2>1. /\ Old(c) \subseteq DOMAIN LogOf(c).seq
          /\ call[c].total = Cardinality(DOMAIN LogOf(c).seq)
        BY <1>3 DEF Snapshot, Accounted
    <2>2. /\ call'[c].pc = "evict" /\ call'[c].left = DOMAIN LogOf(c).seq
          /\ call'[c].total = call[c].total
          /\ UNCHANGED <<object, created, log>>
        BY <1>0, <1>3 DEF Snapshot, CallRecords, files, history
    <2>3. Old(c)' = Old(c) /\ LogOf(c)' = LogOf(c)
        BY <2>2 DEF Old, Stored, LogOf
    <2>4. Old(c) \cup DOMAIN LogOf(c).seq = DOMAIN LogOf(c).seq
        BY <2>1
    <2>5. Cardinality(DOMAIN LogOf(c).seq) <= Cardinality(DOMAIN LogOf(c).seq)
        <3>1. Cardinality(DOMAIN LogOf(c).seq) \in Nat
            BY <1>0, LogIs, KeySets
        <3> QED  BY <3>1
    <2>6. /\ call'[c].left \subseteq DOMAIN LogOf(c)'.seq
          /\ Old(c)' \subseteq call'[c].left \cup call'[c].pinned
          /\ Cardinality(Old(c)' \cup call'[c].left) <= call'[c].total
        BY <2>1, <2>2, <2>3, <2>4, <2>5
    <2> QED  BY <2>2, <2>6 DEF Accounted, At
<1>4. ASSUME At(c, "evict"), ~PassIsOver(c)
      PROVE  /\ call[c].left \subseteq DOMAIN LogOf(c).seq
             /\ Old(c) \subseteq call[c].left \cup call[c].pinned
             /\ Cardinality(Old(c) \cup call[c].left) <= call[c].total
             /\ Victim(c) \in call[c].left
    <2>1. call[c].left # {}
        BY <1>4 DEF PassIsOver
    <2> QED  BY <1>0, <1>4, <2>1, VictimIsEarliest DEF Accounted
<1>5. CASE SkipPinned(c)
    <2>1. At(c, "evict") /\ ~PassIsOver(c) /\ Victim(c) \in call[c].pinned
        BY <1>5 DEF SkipPinned
    <2>2. /\ call'[c].pc = "evict" /\ call'[c].left = call[c].left \ {Victim(c)}
          /\ call'[c].total = call[c].total /\ call'[c].pinned = call[c].pinned
          /\ UNCHANGED <<object, created, log>>
        BY <1>0, <1>5 DEF SkipPinned, At, CallRecords, files, history
    <2>3. Old(c)' = Old(c) /\ LogOf(c)' = LogOf(c)
        BY <2>2 DEF Old, Stored, LogOf
    <2>4. Cardinality(Old(c) \cup (call[c].left \ {Victim(c)}))
             <= Cardinality(Old(c) \cup call[c].left)
        <3>1. /\ Old(c) \cup (call[c].left \ {Victim(c)}) \subseteq Old(c) \cup call[c].left
              /\ Old(c) \cup call[c].left \subseteq Keys
            BY <1>0 DEF CallRecords
        <3>2. IsFiniteSet(Old(c) \cup call[c].left)
            BY <3>1, KeySets
        <3> QED  BY <3>1, <3>2, FS_Subset
    <2>5. Cardinality(Old(c) \cup (call[c].left \ {Victim(c)})) <= call[c].total
        <3>1. /\ Old(c) \cup (call[c].left \ {Victim(c)}) \subseteq Keys
              /\ Old(c) \cup call[c].left \subseteq Keys
            BY <1>0 DEF CallRecords
        <3>2. /\ Cardinality(Old(c) \cup (call[c].left \ {Victim(c)})) \in Int
              /\ Cardinality(Old(c) \cup call[c].left) \in Int
              /\ call[c].total \in Int
            BY <1>0, <3>1, KeySets DEF CallRecords
        <3>3. Cardinality(Old(c) \cup call[c].left) <= call[c].total
            BY <1>4, <2>1
        <3> QED  BY <2>4, <3>2, <3>3
    <2>6. /\ call'[c].left \subseteq DOMAIN LogOf(c)'.seq
          /\ Old(c)' \subseteq call'[c].left \cup call'[c].pinned
          /\ Cardinality(Old(c)' \cup call'[c].left) <= call'[c].total
        BY <1>4, <2>1, <2>2, <2>3, <2>5
    <2> QED  BY <2>2, <2>6 DEF Accounted, At
<1>6. CASE EvictVictim(c)
    <2> DEFINE v == Victim(c)
               before == Old(c) \cup call[c].left
               after == Old(c)' \cup (call[c].left \ {v})
    <2>1. At(c, "evict") /\ ~PassIsOver(c)
        BY <1>6 DEF EvictVictim
    <2>2. /\ call'[c].pc = "evict" /\ call'[c].left = call[c].left \ {v}
          /\ call'[c].total = call[c].total - 1 /\ call'[c].pinned = call[c].pinned
          /\ object' = [object EXCEPT ![v] = Absent]
          /\ SetLog(c, Without(LogOf(c), {v})) /\ created' = created
        BY <1>0, <1>6 DEF EvictVictim, At, CallRecords, history
    <2>3. v \in call[c].left /\ v \in Keys
        BY <1>0, <1>4, <2>1 DEF CallRecords
    <2> HIDE DEF v
    <2>4. Old(c)' = Old(c) \ {v}
        BY <2>2, <2>3 DEF Old, Stored, Typing
    <2>5. DOMAIN LogOf(c)'.seq = DOMAIN LogOf(c).seq \ {v}
        <3>1. /\ Without(LogOf(c), {v}) \in Logs
              /\ DOMAIN Without(LogOf(c), {v}).seq = DOMAIN LogOf(c).seq \ {v}
            BY <1>0, WithoutLog
        <3>2. LogOf(c)' = Without(LogOf(c), {v})
            BY <1>0, <2>2, <3>1, SetLogKeeps DEF LogOf
        <3> QED  BY <3>1, <3>2
    <2>6. after = before \ {v} /\ v \in before /\ before \subseteq Keys
        BY <1>0, <2>3, <2>4 DEF CallRecords
    <2>7. Cardinality(after) = Cardinality(before) - 1
        <3>1. IsFiniteSet(before)
            BY <2>6, KeySets
        <3> HIDE DEF before, after
        <3> QED  BY <2>6, <3>1, FS_RemoveElement
    <2>8. Cardinality(after) <= call[c].total - 1
        <3>1. Cardinality(before) \in Int /\ call[c].total \in Int
            BY <1>0, <2>6, KeySets DEF CallRecords
        <3>2. Cardinality(before) <= call[c].total
            BY <1>4, <2>1
        <3> HIDE DEF before, after
        <3> QED  BY <2>7, <3>1, <3>2
    <2>9. /\ call'[c].left \subseteq DOMAIN LogOf(c)'.seq
          /\ Old(c)' \subseteq call'[c].left \cup call'[c].pinned
          /\ Cardinality(Old(c)' \cup call'[c].left) <= call'[c].total
        BY <1>4, <2>1, <2>2, <2>4, <2>5, <2>8
    <2> QED  BY <2>2, <2>9 DEF Accounted, At
<1>7. CASE EndPass(c)
    <2>1. At(c, "evict") /\ PassIsOver(c)
        BY <1>7 DEF EndPass
    <2>2. /\ call'[c].pc = "finish" /\ call'[c].total = call[c].total
          /\ call'[c].pinned = call[c].pinned
          /\ UNCHANGED <<object, created>>
        BY <1>0, <1>7 DEF EndPass, Goto, CallRecords, files, history
    <2>3. Old(c)' = Old(c)
        BY <2>2 DEF Old, Stored
    <2>4. /\ Old(c) \subseteq call[c].left \cup call[c].pinned
          /\ Cardinality(Old(c) \cup call[c].left) <= call[c].total
        BY <2>1 DEF Accounted
    <2>5. Cardinality(Old(c)) <= call[c].total
        <3>1. /\ Old(c) \cup call[c].left \subseteq Keys /\ Old(c) \subseteq Keys
              /\ call[c].total \in Int
            BY <1>0 DEF CallRecords
        <3>2. /\ IsFiniteSet(Old(c) \cup call[c].left)
              /\ Cardinality(Old(c) \cup call[c].left) \in Int /\ Cardinality(Old(c)) \in Int
            BY <3>1, KeySets
        <3>3. Cardinality(Old(c)) <= Cardinality(Old(c) \cup call[c].left)
            <4>1. Old(c) \subseteq Old(c) \cup call[c].left
                OBVIOUS
            <4> QED  BY <3>2, <4>1, FS_Subset
        <3> QED  BY <2>4, <3>1, <3>2, <3>3
    <2>6. call[c].total > Ceiling => Old(c) \subseteq call[c].pinned
        <3>1. call[c].total \in Int /\ Ceiling \in Int
            BY <1>0, NamespaceAssumption DEF CallRecords
        <3> QED  BY <2>1, <2>4, <3>1 DEF PassIsOver
    <2> QED  BY <2>2, <2>3, <2>5, <2>6 DEF Accounted, At
<1>8. CASE /\ ~Scan(c) /\ ~Reconcile(c) /\ ~Snapshot(c)
           /\ ~SkipPinned(c) /\ ~EvictVictim(c) /\ ~EndPass(c)
    <2>1. ~At(c, "reconcile")' /\ ~At(c, "snapshot")' /\ ~At(c, "evict")' /\ ~At(c, "finish")'
        BY <1>8, PassSteps
    <2> QED  BY <2>1 DEF Accounted
<1>9. CASE At(c, "idle")'
    BY <1>9 DEF Accounted, At
<1>10. QED
    BY <1>1, <1>2, <1>3, <1>5, <1>6, <1>7, <1>8, <1>9

\* Every step keeps every pass accountable.
LEMMA AccountsKept ==
    ASSUME Typing, Stages, Owners, \A d \in Callers : Accounted(d), [Next]_vars
    PROVE  \A d \in Callers : Accounted(d)'
<1>0. TAKE d \in Callers
<1>1. Accounted(d)
    OBVIOUS
<1>2. CASE At(d, "idle") /\ call'[d] = call[d]
    BY <1>2 DEF Accounted, At
<1>3. ASSUME NEW c \in Callers, Calls(c)
      PROVE  Accounted(d)'
    <2>1. UNCHANGED <<object, created, log>>
        BY <1>3, CallBegins DEF files
    <2>2. Old(d)' = Old(d) /\ LogOf(d)' = LogOf(d)
        BY <2>1 DEF Old, Stored, LogOf
    <2>3. CASE d = c
        BY <1>3, <2>3, CallBegins DEF Accounted, At
    <2>4. CASE d # c
        BY <1>1, <1>3, <2>2, <2>4, CallBegins, FewerEntries
    <2> QED  BY <2>3, <2>4
<1>4. ASSUME NEW c \in Callers, Continues(c)
      PROVE  Accounted(d)'
    <2>1. CASE d = c
        BY <1>1, <1>4, <2>1, OwnSteps
    <2>2. CASE d # c /\ ~At(d, "idle")
        <3>1. Old(d)' \subseteq Old(d) /\ call'[d] = call[d]
            BY <1>4, <2>2, OthersShrink, ContinuesTypes
        <3>2. Owns(d) => LogOf(d)' = LogOf(d)
            BY <1>4, <2>2, OwnedLogStays
        <3> QED  BY <1>1, <3>1, <3>2, FewerEntries
    <2>3. CASE d # c /\ At(d, "idle")
        BY <1>2, <1>4, <2>3, ContinuesTypes
    <2> QED  BY <2>1, <2>2, <2>3
<1>5. ASSUME NEW s \in Stores, NEW k \in Keys, Pin(s, k) \/ Unpin(s, k)
      PROVE  Accounted(d)'
    <2>1. UNCHANGED <<object, created, log, call>>
        BY <1>5 DEF Pin, Unpin, files, history
    <2>2. Old(d)' = Old(d) /\ LogOf(d)' = LogOf(d) /\ call'[d] = call[d]
        BY <2>1 DEF Old, Stored, LogOf
    <2> QED  BY <1>1, <2>2, FewerEntries
<1>6. ASSUME NEW s \in Stores, Restart(s)
      PROVE  Accounted(d)'
    <2>1. CASE StoreOfCaller(d) = s
        BY <1>6, <2>1, RestartEffect DEF Accounted, At, Idle
    <2>2. CASE StoreOfCaller(d) # s
        <3>1. /\ call'[d] = call[d] /\ created'[d] = created[d] /\ LogOf(d)' = LogOf(d)
              /\ object' = object
            BY <1>6, <2>2, RestartEffect
        <3>2. Old(d)' = Old(d)
            BY <3>1 DEF Old, Stored
        <3> QED  BY <1>1, <3>1, <3>2, FewerEntries
    <2> QED  BY <2>1, <2>2
<1>7. CASE Damage
    <2>1. UNCHANGED <<created, log, call>> /\ Stored' = Stored
        BY <1>7, NamespaceAssumption DEF Damage, history, Stored, Typing
    <2>2. Old(d)' = Old(d) /\ LogOf(d)' = LogOf(d) /\ call'[d] = call[d]
        BY <2>1 DEF Old, LogOf
    <2> QED  BY <1>1, <2>2, FewerEntries
<1>8. CASE UNCHANGED vars
    <2>1. UNCHANGED <<object, created, log, call>>
        BY <1>8 DEF vars, files, history
    <2>2. Old(d)' = Old(d) /\ LogOf(d)' = LogOf(d) /\ call'[d] = call[d]
        BY <2>1 DEF Old, Stored, LogOf
    <2> QED  BY <1>1, <2>2, FewerEntries
<1>9. QED
    BY <1>3, <1>4, <1>5, <1>6, <1>7, <1>8 DEF Next

\* The accounts are what the invariant and the property say of passes.
LEMMA Accounts ==
    (Passes /\ PassMeetsTheCeiling) <=> \A c \in Callers : Accounted(c)
<1>1. QED
    BY DEF Passes, PassMeetsTheCeiling, Accounted, Old

----------------------------------------------------------------------------
\* The theorems

\* The inductive invariant: types, the location and the purpose of every call,
\* who owns which access log, where what is on the disk and what is about to be
\* answered came from, which pins each pass respects, and its count.
THEOREM CacheInvariant == Spec => []CacheInv
<1>1. Init => CacheInv
    <2> SUFFICES ASSUME Init PROVE CacheInv
        OBVIOUS
    <2>1. Typing /\ Stages
        BY InitTypes
    <2>2. \A c \in Callers : call[c].pc = "idle" /\ guarded[c] = {}
        BY DEF Init, Idle
    <2>3. Owners /\ AnswersArePublished /\ Guards
        BY <2>2 DEF Owners, Owns, AnswersArePublished, Guards, At
    <2>4. Provenance
        BY NamespaceAssumption DEF Provenance, Init
    <2>5. Passes /\ PassMeetsTheCeiling
        BY <2>2 DEF Passes, PassMeetsTheCeiling, At
    <2> QED  BY <2>1, <2>3, <2>4, <2>5 DEF CacheInv
<1>2. CacheInv /\ [Next]_vars => CacheInv'
    <2> SUFFICES ASSUME CacheInv, [Next]_vars PROVE CacheInv'
        OBVIOUS
    <2>1. /\ Typing /\ Stages /\ Owners /\ Provenance /\ AnswersArePublished /\ Guards
          /\ Passes /\ PassMeetsTheCeiling
        BY DEF CacheInv
    <2>2. Typing' /\ Stages'
        BY <2>1, TypesKept
    <2>3. Owners'
        BY <2>1, OwnersKept
    <2>4. Provenance' /\ AnswersArePublished'
        BY <2>1, ProvenanceKept, AnswersKept
    <2>5. Guards'
        BY <2>1, GuardsKept
    <2>6. Passes' /\ PassMeetsTheCeiling'
        <3>1. \A d \in Callers : Accounted(d)'
            BY <2>1, Accounts, AccountsKept
        <3>2. (Passes /\ PassMeetsTheCeiling)' <=> \A c \in Callers : Accounted(c)'
            BY DEF Passes, PassMeetsTheCeiling, Accounted, Old
        <3> QED  BY <3>1, <3>2
    <2> QED  BY <2>2, <2>3, <2>4, <2>5, <2>6 DEF CacheInv
<1>3. QED
    BY <1>1, <1>2, PTL DEF Spec

\* Whatever threads do to the disk, to the logs and to each other, the files, the
\* index, the logs, the pins and the totals stay what their types say.
THEOREM CacheTyping == Spec => []CacheTypeOK
<1>1. CacheInv => CacheTypeOK
    <2> SUFFICES ASSUME CacheInv PROVE CacheTypeOK
        OBVIOUS
    <2>1. Typing
        BY DEF CacheInv
    <2>2. DOMAIN index \subseteq Keys
        BY <2>1, SequenceIs DEF Typing
    <2>3. ASSUME NEW h \in Handles
          PROVE  /\ DOMAIN log[h].seq \subseteq Keys /\ log[h].next \in Nat
                 /\ \A k \in DOMAIN log[h].seq : log[h].seq[k] \in 0 .. log[h].next
        <3>1. log[h] \in Logs
            BY <2>1 DEF Typing
        <3> QED  BY <3>1, LogIs
    <2>4. \A c \in Callers : call[c].total \in 0 .. Cardinality(Keys)
        BY <2>1 DEF Typing, CallRecords
    <2> QED  BY <2>1, <2>2, <2>3, <2>4 DEF CacheTypeOK, Typing
<1>2. QED
    BY <1>1, CacheInvariant, PTL

\* "Never a wrong read": a hit returns and a successful put offered bytes that
\* were published under the key, whatever was damaged, evicted, republished or
\* restarted in between, for any number of processes and threads.
THEOREM CacheAnswers == Spec => []AnswersArePublished
<1>1. CacheInv => AnswersArePublished
    BY DEF CacheInv
<1>2. QED
    BY <1>1, CacheInvariant, PTL

\* A pass never leaves more of what it scanned than it reports, nor more than
\* the ceiling unless all of it was pinned.
THEOREM CacheCeiling == Spec => []PassMeetsTheCeiling
<1>1. CacheInv => PassMeetsTheCeiling
    BY DEF CacheInv
<1>2. QED
    BY <1>1, CacheInvariant, PTL

\* No pass removes a key that has been pinned in its process since before the
\* pass began.
THEOREM CachePins == Spec => PinnedThroughoutSurvives
<1>1. CacheInv /\ [Next]_vars =>
         [\A c \in Callers, k \in Keys : Evicts(c, k) => k \notin guarded[c]]_vars
    <2> SUFFICES ASSUME CacheInv, [Next]_vars,
                        NEW c \in Callers, NEW k \in Keys, Evicts(c, k)
                 PROVE  k \notin guarded[c]
        OBVIOUS
    <2>1. Typing /\ Stages /\ Guards
        BY DEF CacheInv
    <2>2. /\ At(c, "evict") /\ call'[c] # call[c]
          /\ object[k] # Absent /\ object'[k] = Absent
        BY DEF Evicts
    <2>3. Continues(c)
        <3>1. ASSUME NEW d \in Callers, Calls(d)
              PROVE  FALSE
            BY <2>1, <2>2, <3>1, CallBegins DEF files
        <3>2. ASSUME NEW d \in Callers, Continues(d)
              PROVE  d = c
            BY <2>1, <2>2, <3>2, ContinuesTypes
        <3>3. ASSUME NEW s \in Stores, NEW j \in Keys, Pin(s, j) \/ Unpin(s, j)
              PROVE  FALSE
            BY <2>2, <3>3 DEF Pin, Unpin
        <3>4. ASSUME NEW s \in Stores, Restart(s)
              PROVE  FALSE
            BY <2>1, <2>2, <3>4, RestartEffect
        <3>5. ~Damage /\ ~UNCHANGED vars
            BY <2>2 DEF Damage, vars
        <3> QED  BY <3>1, <3>2, <3>3, <3>4, <3>5 DEF Next
    <2>4. EvictVictim(c)
        BY <2>2, <2>3 DEF Continues, At, Touch, Forget, ReadEntry, RemoveCorrupt, CreateEntry,
           ReadIncumbent, MergeIndex, WriteIndex, ReadRejected, RemoveRejected, Scan, Reconcile,
           Snapshot, SkipPinned, EndPass, FinishPass, CallFails, ReconcileFails, EvictionFails,
           files
    <2>5. k = Victim(c) /\ Victim(c) \notin call[c].pinned
        BY <2>1, <2>2, <2>4 DEF EvictVictim, Typing
    <2>6. guarded[c] \subseteq call[c].pinned
        BY <2>1, <2>2 DEF Guards
    <2> QED  BY <2>5, <2>6
<1>2. QED
    BY <1>1, CacheInvariant, PTL DEF Spec, PinnedThroughoutSurvives

============================================================================
