------------------------- MODULE CacheRecencyProofs -------------------------
(***************************************************************************)
(* A sole user of a namespace gets exact least-recently-used eviction, for *)
(* every set of keys, every ceiling and every bound.  What is stored, and  *)
(* what a pass has left, comes from the invariant of CacheNamespaceProofs. *)
(***************************************************************************)
EXTENDS CacheRecency, CacheNamespaceProofs

\* Keys used in this order have been numbered accordingly.
Follows(order, seq) ==
    \A j, k \in Keys : <<j, k>> \in order =>
        /\ {<<j, j>>, <<k, k>>} \subseteq order
        /\ {j, k} \subseteq DOMAIN seq
        /\ j # k => Before(seq, j, k)

\* The sequences are ranks, as rebase_sequences leaves them.
Ranked(seq) == Rebase(seq).seq = seq

\* The log stands for the order of uses, and its next number is a later one.
LogInOrder(c) ==
    /\ recent \subseteq Stored \X Stored
    /\ Follows(recent, LogOf(c).seq)
    /\ \A k \in Used(recent) : LogOf(c).seq[k] < LogOf(c).next

\* The index stands for the order of uses that was written to it.
IndexInOrder ==
    /\ durable \subseteq Keys \X Keys
    /\ Follows(durable, index)
    /\ Ranked(index)

\* The log is ahead of the index, except that a flush has numbered it anew and
\* not written it yet.
LogAhead(c) ==
    /\ At(c, "write") => /\ Ranked(LogOf(c).seq)
                         /\ LogOf(c).next = Cardinality(DOMAIN LogOf(c).seq)
    /\ ~At(c, "write") =>
          /\ \A k \in DOMAIN index : index[k] <= LogOf(c).next
          /\ \A k \in Used(recent) \cap DOMAIN index : index[k] <= LogOf(c).seq[k]

\* What a touch is about to number is stored, and a scan has missed nothing.
Present(c) ==
    /\ At(c, "touch") => call[c].key \in Stored
    /\ At(c, "reconcile") => Stored \subseteq call[c].scanned

Ordered(c) == LogInOrder(c) /\ IndexInOrder /\ LogAhead(c) /\ Present(c)

RecencyInv == \A c \in Callers : Ordered(c)

----------------------------------------------------------------------------
\* Orders and the numbers that stand for them

\* Dropping keys from an order leaves the others where they are.
LEMMA PrunedFollows ==
    ASSUME NEW order, NEW seq, NEW ks, Follows(order, seq)
    PROVE  /\ Follows(InOrder(order, ks), seq)
           /\ Used(InOrder(order, ks)) = Used(order) \cap ks
<1>1. QED
    BY DEF Follows, InOrder, Used

\* Numbers that order the used keys alike stand for the same order.
LEMMA RenumberedFollows ==
    ASSUME NEW order, NEW old, NEW new, Follows(order, old),
           Used(order) \subseteq DOMAIN new,
           \A j, k \in Used(order) : Before(old, j, k) => Before(new, j, k)
    PROVE  Follows(order, new)
<1>1. ASSUME NEW j \in Keys, NEW k \in Keys, <<j, k>> \in order
      PROVE  /\ {<<j, j>>, <<k, k>>} \subseteq order
             /\ {j, k} \subseteq DOMAIN new
             /\ j # k => Before(new, j, k)
    <2>1. {<<j, j>>, <<k, k>>} \subseteq order /\ (j # k => Before(old, j, k))
        BY <1>1 DEF Follows
    <2>2. j \in Used(order) /\ k \in Used(order)
        BY <2>1 DEF Used
    <2> QED  BY <2>1, <2>2
<1>2. QED
    BY <1>1 DEF Follows

\* In particular where no used key has got another number.
LEMMA SameNumbersFollow ==
    ASSUME NEW order, NEW old, NEW new, Follows(order, old),
           Used(order) \subseteq DOMAIN new,
           \A k \in Used(order) : new[k] = old[k]
    PROVE  Follows(order, new)
<1>1. \A j, k \in Used(order) : Before(old, j, k) => Before(new, j, k)
    BY DEF Before
<1>2. QED
    BY <1>1, RenumberedFollows

\* Used keys are numbered.
LEMMA UsedAreNumbered ==
    ASSUME NEW order, NEW seq, Follows(order, seq)
    PROVE  Used(order) \subseteq DOMAIN seq
<1>1. QED
    BY DEF Follows, Used

\* A key used now comes after all that were used and have smaller numbers.
LEMMA UseFollows ==
    ASSUME NEW order, NEW old, NEW new, NEW k \in Keys, Follows(order, old),
           k \notin Used(order), k \in DOMAIN new, Used(order) \subseteq DOMAIN new,
           \A j \in Used(order) : new[j] = old[j] /\ new[j] < new[k]
    PROVE  /\ Follows(ThenUsed(order, {k}), new)
           /\ Used(ThenUsed(order, {k})) = Used(order) \cup {k}
<1> DEFINE later == ThenUsed(order, {k})
<1>1. \A p : p \in later <=> p \in order \/ \E j \in Used(order) \cup {k} : p = <<j, k>>
    BY DEF ThenUsed
<1>2. Follows(order, new)
    BY SameNumbersFollow
<1>3. \A i \in Used(order) : <<i, i>> \in order /\ i \in Keys
    BY DEF Used
<1> HIDE DEF later
<1>4. ASSUME NEW i \in Keys, NEW j \in Keys, <<i, j>> \in later
      PROVE  /\ {<<i, i>>, <<j, j>>} \subseteq later
             /\ {i, j} \subseteq DOMAIN new
             /\ i # j => Before(new, i, j)
    <2>1. CASE <<i, j>> \in order
        BY <1>1, <1>2, <2>1 DEF Follows
    <2>2. CASE i \in Used(order) \cup {k} /\ j = k
        <3>1. <<k, k>> \in later
            BY <1>1
        <3>2. <<i, i>> \in later
            BY <1>1, <1>3, <2>2, <3>1
        <3>3. i # j => new[i] < new[j]
            BY <2>2
        <3> QED  BY <2>2, <3>1, <3>2, <3>3 DEF Before
    <2> QED  BY <1>1, <1>4, <2>1, <2>2
<1>5. Used(later) = Used(order) \cup {k}
    <2>1. \A i \in Keys : <<i, i>> \in later <=> <<i, i>> \in order \/ i = k
        BY <1>1, <1>3
    <2> QED  BY <2>1 DEF Used
<1>6. QED
    BY <1>4, <1>5 DEF Follows, later

\* Renumbering a second time changes nothing.
LEMMA RebaseIsRanked ==
    ASSUME NEW seq \in Sequences
    PROVE  /\ Ranked(Rebase(seq).seq)
           /\ Rebase(seq).next = Cardinality(DOMAIN seq)
<1> DEFINE rank == Rebase(seq).seq
<1>1. /\ DOMAIN rank = DOMAIN seq
      /\ \A j, k \in DOMAIN seq : Before(rank, j, k) <=> Before(seq, j, k)
    BY RebaseKeepsOrder
<1>2. rank = [k \in DOMAIN seq |-> Cardinality({j \in DOMAIN seq : Before(seq, j, k)})]
    BY DEF Rebase
<1>3. Rebase(rank).seq
        = [k \in DOMAIN rank |-> Cardinality({j \in DOMAIN rank : Before(rank, j, k)})]
    BY DEF Rebase
<1> HIDE DEF rank
<1>4. \A k \in DOMAIN seq :
         {j \in DOMAIN rank : Before(rank, j, k)} = {j \in DOMAIN seq : Before(seq, j, k)}
    BY <1>1
<1>5. Rebase(rank).seq = rank
    BY <1>1, <1>2, <1>3, <1>4
<1>6. Rebase(seq).next = Cardinality(DOMAIN seq)
    BY DEF Rebase
<1>7. QED
    BY <1>5, <1>6 DEF Ranked, rank

\* Ranks are below the number of entries.
LEMMA RanksAreLow ==
    ASSUME NEW seq \in Sequences, Ranked(seq)
    PROVE  \A k \in DOMAIN seq : seq[k] < Cardinality(DOMAIN seq)
<1>1. QED
    BY RebaseKeepsOrder, RebaseIsRanked DEF Ranked

\* An order survives a rebase.
LEMMA RebaseFollows ==
    ASSUME NEW order, NEW seq \in Sequences, Follows(order, seq)
    PROVE  Follows(order, Rebase(seq).seq)
<1>1. QED
    BY UsedAreNumbered, RebaseKeepsOrder, RenumberedFollows

----------------------------------------------------------------------------
\* What a step records

\* A step that completes no touch and no removal only loses the keys whose
\* entries go; the other two have their key last, or not at all.
LEMMA UseIs ==
    ASSUME NEW c \in Callers, RecordUse, restarts' = restarts
    PROVE  /\ ~Leaves(c, "touch") /\ ~Leaves(c, "forget") =>
                 recent' = InOrder(recent, Stored')
           /\ Leaves(c, "touch") =>
                 recent' = ThenUsed(InOrder(recent, Stored' \ {call[c].key}), {call[c].key})
           /\ Leaves(c, "forget") => recent' = InOrder(recent, Stored' \ {call[c].key})
<1> DEFINE touched == {call[d].key : d \in {e \in Callers : Leaves(e, "touch")}}
           forgotten == {call[d].key : d \in {e \in Callers : Leaves(e, "forget")}}
<1>1. recent' = ThenUsed(InOrder(recent, (Keys \ (touched \cup forgotten)) \cap Stored'), touched)
    BY DEF RecordUse
<1>2. Stored' \subseteq Keys
    BY DEF Stored
<1>3. \A d \in Callers : d = c
    BY SoleUserAssumption
<1>4. touched = (IF Leaves(c, "touch") THEN {call[c].key} ELSE {})
    BY <1>3
<1>5. forgotten = (IF Leaves(c, "forget") THEN {call[c].key} ELSE {})
    BY <1>3
<1>6. ~(Leaves(c, "touch") /\ Leaves(c, "forget"))
    BY DEF Leaves, At
<1> HIDE DEF touched, forgotten
<1>7. \A order : ThenUsed(order, {}) = order
    BY DEF ThenUsed
<1>8. CASE ~Leaves(c, "touch") /\ ~Leaves(c, "forget")
    <2>1. (Keys \ (touched \cup forgotten)) \cap Stored' = Stored' /\ touched = {}
        BY <1>2, <1>4, <1>5, <1>8
    <2> QED  BY <1>1, <1>7, <1>8, <2>1
<1>9. CASE Leaves(c, "touch")
    <2>1. /\ (Keys \ (touched \cup forgotten)) \cap Stored' = Stored' \ {call[c].key}
          /\ touched = {call[c].key}
        BY <1>2, <1>4, <1>5, <1>6, <1>9
    <2> QED  BY <1>1, <1>6, <1>9, <2>1
<1>10. CASE Leaves(c, "forget")
    <2>1. /\ (Keys \ (touched \cup forgotten)) \cap Stored' = Stored' \ {call[c].key}
          /\ touched = {}
        BY <1>2, <1>4, <1>5, <1>6, <1>10
    <2> QED  BY <1>1, <1>6, <1>7, <1>10, <2>1
<1>11. QED
    BY <1>8, <1>9, <1>10

\* A step that writes the index makes the order of uses durable; any other only
\* loses the keys whose entries go.
LEMMA WriteIs ==
    ASSUME NEW c \in Callers, RecordWrite, damage' = damage
    PROVE  /\ ~Leaves(c, "write") /\ ~Leaves(c, "finish") => durable' = InOrder(durable, Stored')
           /\ (Leaves(c, "write") \/ Leaves(c, "finish")) /\ index' = log'[HandleOf[c]].seq =>
                 durable' = recent
<1> DEFINE written == \E d \in Callers : /\ Leaves(d, "write") \/ Leaves(d, "finish")
                                         /\ index' = log'[HandleOf[d]].seq
<1>1. durable' = (CASE written -> recent
                    [] damage' # damage /\ UNCHANGED object -> {}
                    [] OTHER -> InOrder(durable, Stored'))
    BY DEF RecordWrite
<1>2. \A d \in Callers : d = c
    BY SoleUserAssumption
<1>3. written <=> /\ Leaves(c, "write") \/ Leaves(c, "finish")
                  /\ index' = log'[HandleOf[c]].seq
    BY <1>2
<1> HIDE DEF written
<1>4. QED
    BY <1>1, <1>3

\* Steps that leave the numbers of the keys that stay leave the order standing.
LEMMA NumbersKept ==
    ASSUME NEW c \in Callers, NEW ks, LogInOrder(c),
           recent' = InOrder(recent, ks), ks \subseteq Stored',
           LogOf(c)'.next = LogOf(c).next,
           \A k \in Used(recent) \cap ks :
              k \in DOMAIN LogOf(c)'.seq /\ LogOf(c)'.seq[k] = LogOf(c).seq[k]
    PROVE  LogInOrder(c)' /\ Used(recent') = Used(recent) \cap ks
<1>1. Follows(recent', LogOf(c).seq) /\ Used(recent') = Used(recent) \cap ks
    BY PrunedFollows DEF LogInOrder
<1> DEFINE after == LogOf(c)'.seq
<1>2. Used(recent') \subseteq DOMAIN after /\ \A k \in Used(recent') : after[k] = LogOf(c).seq[k]
    BY <1>1
<1> HIDE DEF after
<1>3. Follows(recent', after)
    BY <1>1, <1>2, SameNumbersFollow
<1>4. recent' \subseteq Stored' \X Stored'
    BY DEF InOrder
<1>5. \A k \in Used(recent') : after[k] < LogOf(c)'.next
    BY <1>1, <1>2 DEF LogInOrder
<1>6. QED
    BY <1>1, <1>3, <1>4, <1>5 DEF LogInOrder, Follows, Used, after

\* An index that stays stands for what is left of the order written to it.
LEMMA IndexKept ==
    ASSUME IndexInOrder, index' = index, durable' = InOrder(durable, Stored')
    PROVE  IndexInOrder'
<1>1. Follows(durable', index)
    BY PrunedFollows DEF IndexInOrder
<1>2. durable' \subseteq Keys \X Keys
    BY DEF IndexInOrder, InOrder
<1>3. QED
    BY <1>1, <1>2 DEF IndexInOrder, Follows, Ranked

\* Putting both together, where no flush is about to write.
LEMMA OrderedKept ==
    ASSUME NEW c \in Callers, NEW ks, Ordered(c), Present(c)',
           index' = index, durable' = InOrder(durable, Stored'),
           recent' = InOrder(recent, ks), ks \subseteq Stored',
           LogOf(c)'.next = LogOf(c).next,
           \A k \in Used(recent) \cap ks :
              k \in DOMAIN LogOf(c)'.seq /\ LogOf(c)'.seq[k] = LogOf(c).seq[k],
           \/ ~At(c, "write") /\ ~At(c, "write")'
           \/ LogOf(c)' = LogOf(c) /\ At(c, "write") = At(c, "write")'
    PROVE  Ordered(c)'
<1>1. LogInOrder(c)' /\ Used(recent') = Used(recent) \cap ks
    BY NumbersKept DEF Ordered
<1>2. IndexInOrder'
    BY IndexKept DEF Ordered
<1>3. LogAhead(c)'
    <2>1. CASE ~At(c, "write") /\ ~At(c, "write")'
        <3>1. /\ \A k \in DOMAIN index : index[k] <= LogOf(c).next
              /\ \A k \in Used(recent) \cap DOMAIN index : index[k] <= LogOf(c).seq[k]
            BY <2>1 DEF Ordered, LogAhead
        <3>2. /\ \A k \in DOMAIN index' : index'[k] <= LogOf(c)'.next
              /\ \A k \in Used(recent') \cap DOMAIN index' : index'[k] <= LogOf(c)'.seq[k]
            BY <1>1, <3>1
        <3>3. Used(recent)' = Used(recent')
            BY DEF Used
        <3> QED  BY <2>1, <3>2, <3>3 DEF LogAhead
    <2>2. CASE LogOf(c)' = LogOf(c) /\ At(c, "write") = At(c, "write")'
        <3>1. Used(recent)' \subseteq Used(recent)
            BY <1>1 DEF Used
        <3> QED  BY <2>2, <3>1 DEF Ordered, LogAhead, Ranked
    <2> QED  BY <2>1, <2>2
<1>4. QED
    BY <1>1, <1>2, <1>3 DEF Ordered

----------------------------------------------------------------------------
\* Steps that number nothing

\* The steps of a call that neither touch the log nor write the index.
Quiet(c) ==
    \/ Calls(c)
    \/ ReadEntry(c) \/ RemoveCorrupt(c) \/ CreateEntry(c) \/ ReadIncumbent(c)
    \/ ReadRejected(c) \/ RemoveRejected(c)
    \/ Scan(c) \/ Snapshot(c) \/ SkipPinned(c) \/ EndPass(c)

\* Where they start and end, and what they leave alone.
LEMMA QuietEffect ==
    ASSUME Typing, Stages, NEW c \in Callers, Quiet(c)
    PROVE  /\ UNCHANGED <<index, log, environment>>
           /\ call[c].pc \notin {"touch", "forget", "write", "finish"}
           /\ call'[c].pc # "write"
           /\ Present(c)'
<1>1. call[c] \in CallRecords
    BY CallerTypes
<1>2. ASSUME NEW pc, Goto(c, pc)
      PROVE  call'[c].pc = pc /\ call'[c].key = call[c].key
    BY <1>1, <1>2 DEF Goto, Typing, CallRecords
<1>3. Return(c) => call'[c].pc = "idle"
    BY ReturnKeeps DEF Idle
<1>4. call'[c].pc \notin {"touch", "reconcile"} => Present(c)'
    BY DEF Present, At
<1>5. CASE Calls(c)
    BY <1>4, <1>5, CallBegins DEF At, files
<1>6. CASE ReadEntry(c)
    <2> DEFINE bytes == object[call[c].key]
               pc == CASE bytes = Absent    -> "forget"
                       [] Verified(bytes)   -> "touch"
                       [] ~Verified(bytes)  -> "remove"
    <2>1. call' = [call EXCEPT ![c].seen = bytes, ![c].pc = pc]
        BY <1>6 DEF ReadEntry
    <2>2. pc \in {"forget", "touch", "remove"} /\ (pc = "touch" => Verified(bytes) \/ bytes # Absent)
        OBVIOUS
    <2>3. call[c].pc = "read" /\ call[c].key \in Keys
        BY <1>6 DEF ReadEntry, At, Stages
    <2>4. pc = "touch" => call[c].key \in Stored
        <3>1. Absent \notin Payloads
            BY NamespaceAssumption
        <3> QED  BY <2>3, <3>1 DEF Stored, Verified
    <2> HIDE DEF bytes, pc
    <2>5. call'[c].pc = pc /\ call'[c].key = call[c].key
        BY <1>1, <2>1 DEF Typing, CallRecords
    <2>6. UNCHANGED <<object, index, log, environment>>
        BY <1>6 DEF ReadEntry, files
    <2>7. Present(c)'
        BY <2>2, <2>4, <2>5, <2>6 DEF Present, At, Stored
    <2> QED  BY <2>2, <2>3, <2>5, <2>6, <2>7
<1>7. CASE RemoveCorrupt(c)
    <2>1. Goto(c, "forget") /\ call[c].pc = "remove"
        BY <1>7 DEF RemoveCorrupt, At
    <2> QED  BY <1>2, <1>4, <1>7, <2>1 DEF RemoveCorrupt
<1>8. CASE CreateEntry(c)
    <2>1. call[c].pc = "create" /\ call[c].key \in Keys /\ call[c].payload \in Payloads
        BY <1>8 DEF CreateEntry, At, Stages
    <2>2. CASE object[call[c].key] = Absent
        <3>1. Goto(c, "touch") /\ object' = [object EXCEPT ![call[c].key] = call[c].payload]
            BY <1>8, <2>2 DEF CreateEntry
        <3>2. call[c].key \in Stored'
            BY <2>1, <3>1, NamespaceAssumption DEF Stored, Typing
        <3>3. Present(c)'
            BY <1>2, <3>1, <3>2 DEF Present, At
        <3> QED  BY <1>2, <1>8, <2>1, <3>1, <3>3 DEF CreateEntry
    <2>3. CASE object[call[c].key] # Absent
        <3>1. Goto(c, "incumbent")
            BY <1>8, <2>3 DEF CreateEntry
        <3> QED  BY <1>2, <1>4, <1>8, <2>1, <3>1 DEF CreateEntry
    <2> QED  BY <2>2, <2>3
<1>9. CASE ReadIncumbent(c)
    <2>1. call[c].pc = "incumbent" /\ call[c].key \in Keys /\ call[c].payload \in Payloads
        BY <1>9 DEF ReadIncumbent, At, Stages
    <2>2. UNCHANGED <<object, index, log, environment>>
        BY <1>9 DEF ReadIncumbent, files
    <2>3. CASE Goto(c, "touch") /\ object[call[c].key] = call[c].payload
        <3>1. call[c].key \in Stored'
            BY <2>1, <2>2, <2>3, NamespaceAssumption DEF Stored
        <3>2. Present(c)'
            BY <1>2, <2>3, <3>1 DEF Present, At
        <3> QED  BY <1>2, <2>1, <2>2, <2>3, <3>2
    <2>4. CASE Return(c)
        BY <1>3, <1>4, <2>1, <2>2, <2>4
    <2> QED  BY <1>9, <2>3, <2>4 DEF ReadIncumbent
<1>10. CASE ReadRejected(c)
    <2>1. Goto(c, "forget") \/ Goto(c, "remove_rejected") \/ Return(c)
        BY <1>10 DEF ReadRejected
    <2>2. call[c].pc = "read_rejected" /\ UNCHANGED <<index, log, environment>>
        BY <1>10 DEF ReadRejected, At, files
    <2> QED  BY <1>2, <1>3, <1>4, <2>1, <2>2
<1>11. CASE RemoveRejected(c)
    <2>1. Goto(c, "forget") /\ call[c].pc = "remove_rejected"
        BY <1>11 DEF RemoveRejected, At
    <2> QED  BY <1>2, <1>4, <1>11, <2>1 DEF RemoveRejected
<1>12. CASE Scan(c)
    <2>1. /\ call[c].pc = "scan"
          /\ call'[c].pc = "reconcile" /\ call'[c].scanned = Stored
        BY <1>1, <1>12 DEF Scan, At, Typing, CallRecords
    <2>2. UNCHANGED <<object, index, log, environment>>
        BY <1>12 DEF Scan, files
    <2>3. Present(c)'
        BY <2>1, <2>2 DEF Present, At, Stored
    <2> QED  BY <2>1, <2>2, <2>3
<1>13. CASE Snapshot(c)
    <2>1. /\ call[c].pc = "snapshot" /\ call'[c].pc = "evict"
        BY <1>1, <1>13 DEF Snapshot, At, Typing, CallRecords
    <2> QED  BY <1>4, <1>13, <2>1 DEF Snapshot, files
<1>14. CASE SkipPinned(c)
    <2>1. /\ call[c].pc = "evict" /\ call'[c].pc = "evict"
        BY <1>1, <1>14 DEF SkipPinned, At, Typing, CallRecords
    <2> QED  BY <1>4, <1>14, <2>1 DEF SkipPinned, files
<1>15. CASE EndPass(c)
    <2>1. Goto(c, "finish") /\ call[c].pc = "evict"
        BY <1>15 DEF EndPass, At
    <2> QED  BY <1>2, <1>4, <1>15, <2>1 DEF EndPass, files
<1>16. QED
    BY <1>5, <1>6, <1>7, <1>8, <1>9, <1>10, <1>11, <1>12, <1>13, <1>14, <1>15 DEF Quiet

\* They keep the order.
LEMMA QuietKept ==
    ASSUME Typing, Stages, NEW c \in Callers, Ordered(c), RecordUse, RecordWrite, Quiet(c)
    PROVE  Ordered(c)'
<1>1. /\ UNCHANGED <<index, log, environment>>
      /\ call[c].pc \notin {"touch", "forget", "write", "finish"}
      /\ call'[c].pc # "write" /\ Present(c)'
    BY QuietEffect
<1>2. /\ ~Leaves(c, "touch") /\ ~Leaves(c, "forget")
      /\ ~Leaves(c, "write") /\ ~Leaves(c, "finish")
    BY <1>1 DEF Leaves, At
<1>3. recent' = InOrder(recent, Stored') /\ durable' = InOrder(durable, Stored')
    BY <1>1, <1>2, UseIs, WriteIs DEF environment
<1>4. LogOf(c)' = LogOf(c) /\ ~At(c, "write") /\ ~At(c, "write")'
    BY <1>1 DEF LogOf, At
<1>5. \A k \in Used(recent) : k \in DOMAIN LogOf(c).seq
    BY UsedAreNumbered DEF Ordered, LogInOrder
<1>6. QED
    BY <1>1, <1>3, <1>4, <1>5, OrderedKept

\* So does whoever leaves the files, the log and the call alone.
LEMMA IdleKept ==
    ASSUME NEW c \in Callers, Ordered(c), RecordUse, RecordWrite,
           UNCHANGED <<index, log, call, environment>>, Stored' = Stored
    PROVE  Ordered(c)'
<1>1. /\ ~Leaves(c, "touch") /\ ~Leaves(c, "forget")
      /\ ~Leaves(c, "write") /\ ~Leaves(c, "finish")
    BY DEF Leaves, At
<1>2. recent' = InOrder(recent, Stored') /\ durable' = InOrder(durable, Stored')
    BY <1>1, UseIs, WriteIs DEF environment
<1>3. LogOf(c)' = LogOf(c) /\ At(c, "write")' = At(c, "write") /\ Present(c)'
    BY DEF LogOf, At, Present, Ordered
<1>4. \A k \in Used(recent) : k \in DOMAIN LogOf(c).seq
    BY UsedAreNumbered DEF Ordered, LogInOrder
<1>5. QED
    BY <1>2, <1>3, <1>4, OrderedKept

----------------------------------------------------------------------------
\* Steps that number, forget or write

\* touch makes its key the last in both: the next number is above every other.
LEMMA TouchKept ==
    ASSUME Typing, Stages, NEW c \in Callers, Ordered(c), RecordUse, RecordWrite, Touch(c)
    PROVE  Ordered(c)'
<1> DEFINE k == call[c].key
           old == LogOf(c)
           new == LogOf(c)'
           left == InOrder(recent, Stored' \ {k})
<1>1. /\ At(c, "touch") /\ k \in Keys /\ old \in Logs
      /\ call[c] \in CallRecords
    BY CallerTypes DEF Touch, Stages, At
<1>2. UNCHANGED <<object, index, environment>>
    BY DEF Touch, files
<1>3. new = Touched(old, k)
    <2>1. Touched(old, k) \in Logs
        BY <1>1, TouchedLog
    <2> QED  BY <2>1, SetLogKeeps DEF Touch, LogOf
<1>4. call'[c].pc \in {"merge", "idle"}
    <2>1. CASE Return(c)
        BY <2>1, ReturnKeeps DEF Idle
    <2>2. CASE Goto(c, "merge")
        BY <1>1, <2>2 DEF Goto, Typing, CallRecords
    <2> QED  BY <2>1, <2>2 DEF Touch
<1>5. /\ Leaves(c, "touch") /\ ~Leaves(c, "write") /\ ~Leaves(c, "finish")
      /\ ~At(c, "write") /\ ~At(c, "write")' /\ Present(c)'
    BY <1>1, <1>2, <1>4 DEF Leaves, At, environment, Present
<1>6. recent' = ThenUsed(left, {k}) /\ durable' = InOrder(durable, Stored')
    BY <1>2, <1>5, UseIs, WriteIs DEF environment
<1>7. /\ Follows(recent, old.seq) /\ recent \subseteq Stored \X Stored
      /\ \A j \in Used(recent) : old.seq[j] < old.next
    BY DEF Ordered, LogInOrder
<1>8. Follows(left, old.seq) /\ Used(left) = Used(recent) \cap (Stored' \ {k})
    BY <1>7, PrunedFollows
<1>9. Used(left) \subseteq DOMAIN old.seq
    BY <1>8, UsedAreNumbered
<1>10. /\ old.next \in Nat /\ new.next = old.next + 1
       /\ DOMAIN new.seq = DOMAIN old.seq \cup {k} /\ new.seq[k] = old.next
       /\ \A j \in DOMAIN old.seq : j # k => new.seq[j] = old.seq[j]
    BY <1>1, <1>3, LogIs DEF Touched
<1> HIDE DEF k, old, new, left
<1>11. \A j \in Used(left) : new.seq[j] = old.seq[j] /\ new.seq[j] < new.seq[k]
    BY <1>7, <1>8, <1>9, <1>10
<1>12. /\ Follows(recent', new.seq) /\ Used(recent') = Used(left) \cup {k}
    BY <1>1, <1>6, <1>8, <1>9, <1>10, <1>11, UseFollows
<1>13. recent' \subseteq Stored' \X Stored'
    <2>1. k \in Stored'
        BY <1>1, <1>2 DEF Ordered, Present, Stored, k
    <2>2. left \subseteq Stored' \X Stored'
        BY DEF left, InOrder
    <2>3. Used(left) \subseteq Stored'
        BY <2>2 DEF Used
    <2> QED  BY <1>6, <2>1, <2>2, <2>3 DEF ThenUsed
<1>14. \A j \in Used(recent') : new.seq[j] < new.next
    <2>1. \A j \in Used(left) : old.seq[j] \in Nat /\ old.seq[j] < old.next
        BY <1>1, <1>7, <1>8, <1>9, LogIs DEF old
    <2>2. \A j \in Used(left) : new.seq[j] < new.next
        BY <1>10, <1>11, <2>1
    <2>3. new.seq[k] < new.next
        BY <1>10
    <2> QED  BY <1>12, <2>2, <2>3
<1>15. LogInOrder(c)'
    BY <1>12, <1>13, <1>14 DEF LogInOrder, new, Follows, Used
<1>16. IndexInOrder'
    BY <1>2, <1>6, IndexKept DEF Ordered
<1>17. LogAhead(c)'
    <2>1. /\ \A j \in DOMAIN index : index[j] <= old.next
          /\ \A j \in Used(recent) \cap DOMAIN index : index[j] <= old.seq[j]
        BY <1>5 DEF Ordered, LogAhead, old
    <2>2. \A j \in DOMAIN index : index[j] \in Nat
        BY SequenceIs DEF Typing
    <2>3. \A j \in DOMAIN index : index[j] <= new.next
        BY <1>10, <2>1, <2>2
    <2>4. \A j \in Used(recent') \cap DOMAIN index : index[j] <= new.seq[j]
        BY <1>8, <1>10, <1>11, <1>12, <2>1
    <2> QED  BY <1>2, <1>5, <2>3, <2>4 DEF LogAhead, new, Used
<1>18. QED
    BY <1>5, <1>15, <1>16, <1>17 DEF Ordered

\* Without drops entries and keeps the numbers of the others.
LEMMA WithoutKeeps ==
    ASSUME NEW l \in Logs, NEW ks
    PROVE  /\ Without(l, ks).next = l.next
           /\ \A k \in DOMAIN l.seq \ ks :
                 k \in DOMAIN Without(l, ks).seq /\ Without(l, ks).seq[k] = l.seq[k]
<1>1. Without(l, ks) = [seq |-> [k \in DOMAIN l.seq \ ks |-> l.seq[k]], next |-> l.next]
    BY DEF Without, Logs
<1>2. QED
    BY <1>1

\* forget drops its key from both.
LEMMA ForgetKept ==
    ASSUME Typing, Stages, NEW c \in Callers, Ordered(c), RecordUse, RecordWrite, Forget(c)
    PROVE  Ordered(c)'
<1> DEFINE k == call[c].key
<1>1. At(c, "forget") /\ LogOf(c) \in Logs
    BY CallerTypes DEF Forget
<1>2. UNCHANGED <<object, index, environment>>
    BY DEF Forget, files
<1>3. LogOf(c)' = Without(LogOf(c), {k})
    <2>1. Without(LogOf(c), {k}) \in Logs
        BY <1>1, WithoutLog
    <2> QED  BY <2>1, SetLogKeeps DEF Forget, LogOf
<1>4. call'[c].pc = "idle"
    BY ReturnKeeps DEF Forget, Idle
<1>5. /\ Leaves(c, "forget") /\ ~Leaves(c, "write") /\ ~Leaves(c, "finish")
      /\ ~At(c, "write") /\ ~At(c, "write")' /\ Present(c)'
    BY <1>1, <1>2, <1>4 DEF Leaves, At, environment, Present
<1>6. recent' = InOrder(recent, Stored' \ {k}) /\ durable' = InOrder(durable, Stored')
    BY <1>2, <1>5, UseIs, WriteIs DEF environment
<1>7. Used(recent) \subseteq DOMAIN LogOf(c).seq
    BY UsedAreNumbered DEF Ordered, LogInOrder
<1>8. /\ LogOf(c)'.next = LogOf(c).next
      /\ \A j \in Used(recent) \cap (Stored' \ {k}) :
            j \in DOMAIN LogOf(c)'.seq /\ LogOf(c)'.seq[j] = LogOf(c).seq[j]
    <2> HIDE DEF k
    <2> QED  BY <1>1, <1>3, <1>7, WithoutKeeps
<1>9. Stored' \ {k} \subseteq Stored'
    OBVIOUS
<1> HIDE DEF k
<1>10. QED
    BY <1>2, <1>5, <1>6, <1>8, <1>9, OrderedKept

\* A removal by a pass drops its victim from both.
LEMMA EvictKept ==
    ASSUME Typing, Stages, NEW c \in Callers, Ordered(c), RecordUse, RecordWrite, EvictVictim(c)
    PROVE  Ordered(c)'
<1> DEFINE k == Victim(c)
<1>1. /\ At(c, "evict") /\ LogOf(c) \in Logs /\ call[c] \in CallRecords
    BY CallerTypes DEF EvictVictim
<1>2. UNCHANGED <<index, environment>> /\ object' = [object EXCEPT ![k] = Absent]
    BY DEF EvictVictim
<1>3. LogOf(c)' = Without(LogOf(c), {k})
    <2>1. Without(LogOf(c), {k}) \in Logs
        BY <1>1, WithoutLog
    <2> QED  BY <2>1, SetLogKeeps DEF EvictVictim, LogOf
<1>4. call'[c].pc = "evict"
    <2>1. call' = [call EXCEPT ![c].left = @ \ {k}, ![c].total = @ - 1]
        BY DEF EvictVictim
    <2> HIDE DEF k
    <2> QED  BY <1>1, <2>1 DEF At, Typing, CallRecords
<1>5. /\ ~Leaves(c, "touch") /\ ~Leaves(c, "forget")
      /\ ~Leaves(c, "write") /\ ~Leaves(c, "finish")
      /\ ~At(c, "write") /\ ~At(c, "write")' /\ Present(c)'
    BY <1>1, <1>4 DEF Leaves, At, Present
<1>6. recent' = InOrder(recent, Stored') /\ durable' = InOrder(durable, Stored')
    BY <1>2, <1>5, UseIs, WriteIs DEF environment
<1>7. Used(recent) \subseteq DOMAIN LogOf(c).seq
    BY UsedAreNumbered DEF Ordered, LogInOrder
<1>8. k \notin Stored'
    BY <1>2 DEF Stored, Typing
<1>9. /\ LogOf(c)'.next = LogOf(c).next
      /\ \A j \in Used(recent) \cap Stored' :
            j \in DOMAIN LogOf(c)'.seq /\ LogOf(c)'.seq[j] = LogOf(c).seq[j]
    <2> HIDE DEF k
    <2> QED  BY <1>1, <1>3, <1>7, <1>8, WithoutKeeps
<1>10. QED
    BY <1>2, <1>5, <1>6, <1>9, OrderedKept

\* reconcile_index finds every stored entry in its scan and keeps its number.
LEMMA ReconcileKept ==
    ASSUME Typing, Stages, NEW c \in Callers, Ordered(c), RecordUse, RecordWrite, Reconcile(c)
    PROVE  Ordered(c)'
<1> DEFINE scanned == call[c].scanned
           l == Reconciled(LogOf(c), scanned, scanned)
           n == Cardinality(DOMAIN l.seq)
           pc == IF n > Ceiling THEN "snapshot" ELSE "finish"
<1>1. /\ At(c, "reconcile") /\ LogOf(c) \in Logs /\ call[c] \in CallRecords
      /\ scanned \in SUBSET Keys
    BY CallerTypes DEF Reconcile, CallRecords
<1>2. UNCHANGED <<object, index, environment>>
    BY DEF Reconcile, files
<1>3. LogOf(c)' = l
    <2>1. l \in Logs
        BY <1>1, ReconciledLog
    <2> QED  BY <2>1, SetLogKeeps DEF Reconcile, LogOf
<1>4. call'[c].pc \in {"idle", "snapshot", "finish"}
    <2>1. CASE Return(c)
        BY <2>1, ReturnKeeps DEF Idle
    <2>2. CASE call' = [call EXCEPT ![c].total = n, ![c].pc = pc]
        <3>1. pc \in {"snapshot", "finish"}
            OBVIOUS
        <3> HIDE DEF n, pc
        <3>2. call'[c].pc = pc
            BY <1>1, <2>2 DEF Typing, CallRecords
        <3> QED  BY <3>1, <3>2
    <2> QED  BY <2>1, <2>2 DEF Reconcile
<1>5. /\ ~Leaves(c, "touch") /\ ~Leaves(c, "forget")
      /\ ~Leaves(c, "write") /\ ~Leaves(c, "finish")
      /\ ~At(c, "write") /\ ~At(c, "write")' /\ Present(c)'
    BY <1>1, <1>4 DEF Leaves, At, Present
<1>6. recent' = InOrder(recent, Stored') /\ durable' = InOrder(durable, Stored')
    BY <1>2, <1>5, UseIs, WriteIs DEF environment
<1>7. Used(recent) \subseteq DOMAIN LogOf(c).seq /\ Used(recent) \subseteq Stored
    BY UsedAreNumbered DEF Ordered, LogInOrder, Used
<1>8. Stored \subseteq scanned
    BY <1>1 DEF Ordered, Present
<1>9. l = [seq |-> [k \in ((DOMAIN LogOf(c).seq \cap scanned) \ scanned) \cup (scanned \cap Stored)
                      |-> IF k \in DOMAIN LogOf(c).seq THEN LogOf(c).seq[k] ELSE 0],
           next |-> LogOf(c).next]
    BY <1>1 DEF Reconciled, Logs
<1>10. /\ l.next = LogOf(c).next
       /\ \A j \in Used(recent) : j \in DOMAIN l.seq /\ l.seq[j] = LogOf(c).seq[j]
    <2> HIDE DEF l
    <2> QED  BY <1>7, <1>8, <1>9
<1> HIDE DEF l
<1>11. QED
    BY <1>2, <1>3, <1>5, <1>6, <1>10, OrderedKept

\* All stored keys are kept where none goes.
LEMMA WholeOrder ==
    ASSUME NEW c \in Callers, LogInOrder(c), object' = object
    PROVE  InOrder(recent, Stored') = recent /\ Stored' = Stored
<1>1. QED
    BY DEF LogInOrder, InOrder, Stored

\* A merge with numbers that are not ahead keeps the log's own.
LEMMA MergeKeeps ==
    ASSUME NEW ours \in Sequences, NEW theirs \in Sequences, NEW k \in DOMAIN ours,
           k \in DOMAIN theirs => theirs[k] <= ours[k]
    PROVE  k \in DOMAIN Merged(ours, theirs) /\ Merged(ours, theirs)[k] = ours[k]
<1>1. k \in DOMAIN Merged(ours, theirs)
    BY DEF Merged
<1>2. CASE k \notin DOMAIN theirs
    BY <1>1, <1>2 DEF Merged
<1>3. CASE k \in DOMAIN theirs
    <2>1. Merged(ours, theirs)[k] = Max({ours[k], theirs[k]})
        BY <1>1, <1>3 DEF Merged
    <2>2. ours[k] \in Nat /\ theirs[k] \in Nat
        BY <1>3, SequenceIs
    <2> QED  BY <1>1, <1>3, <2>1, <2>2, GreaterOfTwo
<1>4. QED
    BY <1>2, <1>3

\* flush: the index adds keys the log does not know and does not reorder the
\* ones it knows.
LEMMA MergeKept ==
    ASSUME Typing, Stages, NEW c \in Callers, Ordered(c), RecordUse, RecordWrite, MergeIndex(c)
    PROVE  Ordered(c)'
<1> DEFINE seq == LogOf(c).seq
           merged == Merged(seq, index)
<1>1. /\ At(c, "merge") /\ seq \in Sequences /\ index \in Sequences /\ call[c] \in CallRecords
    BY CallerTypes, LogIs DEF MergeIndex, Typing
<1>2. UNCHANGED <<object, index, environment>>
    BY DEF MergeIndex, files
<1>3. merged \in Sequences
    BY <1>1, MergedSequences
<1>4. LogOf(c)' = Rebase(merged)
    <2>1. Rebase(merged) \in Logs
        BY <1>3, RebaseKeepsOrder
    <2> QED  BY <2>1, SetLogKeeps DEF MergeIndex, LogOf
<1>5. call'[c].pc = "write"
    BY <1>1 DEF MergeIndex, Goto, Typing, CallRecords
<1>6. /\ ~Leaves(c, "touch") /\ ~Leaves(c, "forget")
      /\ ~Leaves(c, "write") /\ ~Leaves(c, "finish")
      /\ ~At(c, "write") /\ At(c, "write")' /\ Present(c)'
    BY <1>1, <1>5 DEF Leaves, At, Present
<1>7. recent' = recent /\ durable' = InOrder(durable, Stored') /\ Stored' = Stored
    BY <1>2, <1>6, UseIs, WriteIs, WholeOrder DEF environment, Ordered
<1>8. /\ Follows(recent, seq) /\ recent \subseteq Stored \X Stored
      /\ \A k \in Used(recent) \cap DOMAIN index : index[k] <= seq[k]
    BY <1>6 DEF Ordered, LogInOrder, LogAhead
<1>9. Used(recent) \subseteq DOMAIN seq
    BY <1>8, UsedAreNumbered
<1> HIDE DEF seq, merged
<1>10. \A k \in Used(recent) : k \in DOMAIN merged /\ merged[k] = seq[k]
    BY <1>1, <1>8, <1>9, MergeKeeps DEF merged
<1>11. Follows(recent, merged)
    BY <1>8, <1>10, SameNumbersFollow
<1>12. Follows(recent, Rebase(merged).seq)
    BY <1>3, <1>11, RebaseFollows
<1>13. \A k \in Used(recent) : Rebase(merged).seq[k] < Rebase(merged).next
    BY <1>3, <1>10, RebaseKeepsOrder
<1>14. LogInOrder(c)'
    BY <1>4, <1>7, <1>8, <1>12, <1>13 DEF LogInOrder, Follows, Used
<1>15. IndexInOrder'
    BY <1>2, <1>7, IndexKept DEF Ordered
<1>16. LogAhead(c)'
    <2>1. Ranked(Rebase(merged).seq) /\ Rebase(merged).next = Cardinality(DOMAIN Rebase(merged).seq)
        BY <1>3, RebaseIsRanked, RebaseKeepsOrder
    <2> QED  BY <1>4, <1>6, <2>1 DEF LogAhead, Ranked
<1>17. QED
    BY <1>6, <1>14, <1>15, <1>16 DEF Ordered

\* A log whose numbers are ranks, and the same numbers as its index.
LEMMA WrittenKept ==
    ASSUME NEW c \in Callers, NEW order, NEW seq \in Sequences,
           Follows(order, seq), order \subseteq Stored' \X Stored', Ranked(seq),
           recent' = order, durable' = order, index' = seq,
           LogOf(c)'.seq = seq, LogOf(c)'.next = Cardinality(DOMAIN seq),
           ~At(c, "write")', Present(c)'
    PROVE  Ordered(c)'
<1>1. \A k \in DOMAIN seq : seq[k] < Cardinality(DOMAIN seq)
    BY RanksAreLow
<1>2. Used(order) \subseteq DOMAIN seq
    BY UsedAreNumbered
<1>3. \A k \in DOMAIN seq : seq[k] \in Nat
    BY SequenceIs
<1>4. Cardinality(DOMAIN seq) \in Nat
    BY SequenceIs, KeySets
<1>5. LogInOrder(c)'
    BY <1>1, <1>2 DEF LogInOrder, Follows, Used
<1>6. IndexInOrder'
    <2>1. Stored' \subseteq Keys
        BY DEF Stored
    <2> QED  BY <2>1 DEF IndexInOrder, Follows, Ranked
<1>7. LogAhead(c)'
    BY <1>1, <1>2, <1>3, <1>4 DEF LogAhead, Used
<1>8. QED
    BY <1>5, <1>6, <1>7 DEF Ordered

\* flush: the write makes the order durable.
LEMMA WriteKept ==
    ASSUME Typing, Stages, NEW c \in Callers, Ordered(c), RecordUse, RecordWrite, WriteIndex(c)
    PROVE  Ordered(c)'
<1>1. /\ At(c, "write") /\ LogOf(c).seq \in Sequences
    BY CallerTypes, LogIs DEF WriteIndex
<1>2. UNCHANGED <<object, log, environment>> /\ index' = LogOf(c).seq
    BY SoleUserAssumption DEF WriteIndex
<1>3. call'[c].pc = "idle"
    BY ReturnKeeps DEF WriteIndex, Idle
<1>4. /\ ~Leaves(c, "touch") /\ ~Leaves(c, "forget") /\ Leaves(c, "write")
      /\ ~At(c, "write")' /\ Present(c)'
    BY <1>1, <1>2, <1>3 DEF Leaves, At, environment, Present
<1>5. LogOf(c)' = LogOf(c) /\ index' = log'[HandleOf[c]].seq
    BY <1>2 DEF LogOf
<1>6. recent' = recent /\ durable' = recent /\ Stored' = Stored
    BY <1>2, <1>4, <1>5, UseIs, WriteIs, WholeOrder DEF environment, Ordered
<1>7. /\ Follows(recent, LogOf(c).seq) /\ recent \subseteq Stored \X Stored
      /\ Ranked(LogOf(c).seq) /\ LogOf(c).next = Cardinality(DOMAIN LogOf(c).seq)
    BY <1>1 DEF Ordered, LogInOrder, LogAhead
<1>8. QED
    BY <1>1, <1>2, <1>4, <1>5, <1>6, <1>7, WrittenKept

\* The end of a pass rebases and writes at once.
LEMMA FinishKept ==
    ASSUME Typing, Stages, NEW c \in Callers, Ordered(c), RecordUse, RecordWrite, FinishPass(c)
    PROVE  Ordered(c)'
<1> DEFINE seq == LogOf(c).seq
           rank == Rebase(seq).seq
<1>1. /\ At(c, "finish") /\ seq \in Sequences
    BY CallerTypes, LogIs DEF FinishPass
<1>2. UNCHANGED <<object, environment>> /\ index' = rank
    BY SoleUserAssumption DEF FinishPass
<1>3. /\ Rebase(seq) \in Logs /\ rank \in Sequences /\ DOMAIN rank = DOMAIN seq
    BY <1>1, RebaseKeepsOrder, LogIs
<1>4. LogOf(c)' = Rebase(seq) /\ index' = log'[HandleOf[c]].seq
    BY <1>2, <1>3, SetLogKeeps DEF FinishPass, LogOf
<1>5. call'[c].pc = "idle"
    BY ReturnKeeps DEF FinishPass, Idle
<1>6. /\ ~Leaves(c, "touch") /\ ~Leaves(c, "forget") /\ Leaves(c, "finish")
      /\ ~At(c, "write")' /\ Present(c)'
    BY <1>1, <1>2, <1>5 DEF Leaves, At, environment, Present
<1>7. recent' = recent /\ durable' = recent /\ Stored' = Stored
    BY <1>2, <1>4, <1>6, UseIs, WriteIs, WholeOrder DEF environment, Ordered
<1>8. /\ Follows(recent, seq) /\ recent \subseteq Stored \X Stored
    BY DEF Ordered, LogInOrder
<1>9. /\ Follows(recent, rank) /\ Ranked(rank) /\ Rebase(seq).next = Cardinality(DOMAIN rank)
    BY <1>1, <1>3, <1>8, RebaseFollows, RebaseIsRanked
<1> HIDE DEF seq
<1>10. LogOf(c)'.seq = rank /\ LogOf(c)'.next = Cardinality(DOMAIN rank)
    BY <1>4, <1>9
<1> HIDE DEF rank
<1>11. QED
    BY <1>2, <1>3, <1>6, <1>7, <1>8, <1>9, <1>10, WrittenKept

\* A process that opens the namespace again goes on from the order it reads.
LEMMA RestartKept ==
    ASSUME Typing, NEW c \in Callers, Ordered(c), RecordUse, RecordWrite,
           NEW s \in Stores, Restart(s)
    PROVE  Ordered(c)'
<1>1. HandleOf[c] \in Handles /\ StoreOf[HandleOf[c]] = s
    BY NamespaceAssumption, SoleUserAssumption
<1>2. UNCHANGED <<object, index, damage>> /\ restarts' # restarts
    BY DEF Restart, files, Typing
<1>3. LogOf(c)' = Rebase(index)
    BY <1>1 DEF Restart, LogOf
<1>4. call'[c] = Idle
    BY <1>1 DEF Restart, StoreOfCaller
<1>5. ~At(c, "write")' /\ Present(c)' /\ ~Leaves(c, "write") /\ ~Leaves(c, "finish")
    BY <1>2, <1>4 DEF At, Present, Idle, Leaves
<1>6. recent' = InOrder(durable, Stored') /\ durable' = InOrder(durable, Stored')
    BY <1>2, <1>5, WriteIs DEF RecordUse
<1>7. index \in Sequences /\ Follows(durable, index) /\ Ranked(index)
    BY DEF Ordered, IndexInOrder, Typing
<1>8. LogOf(c)'.seq = index /\ LogOf(c)'.next = Cardinality(DOMAIN index)
    BY <1>3, <1>7, RebaseIsRanked DEF Ranked
<1>9. Follows(InOrder(durable, Stored'), index)
    BY <1>7, PrunedFollows
<1>10. InOrder(durable, Stored') \subseteq Stored' \X Stored'
    BY DEF InOrder
<1>11. QED
    BY <1>2, <1>5, <1>6, <1>7, <1>8, <1>9, <1>10, WrittenKept

\* A damaged entry is still stored; a lost index stands for no order at all.
LEMMA DamageKept ==
    ASSUME Typing, NEW c \in Callers, Ordered(c), RecordUse, RecordWrite, Damage
    PROVE  Ordered(c)'
<1>1. UNCHANGED <<log, call, restarts>> /\ damage' # damage
    BY DEF Damage
<1>2. \A pc : ~Leaves(c, pc)
    BY <1>1 DEF Leaves, At
<1>3. \A d \in Callers : ~Leaves(d, "write") /\ ~Leaves(d, "finish")
    BY <1>1 DEF Leaves, At
<1>4. recent' = InOrder(recent, Stored')
    BY <1>1, <1>2, UseIs
<1>5. durable' = IF UNCHANGED object THEN {} ELSE InOrder(durable, Stored')
    BY <1>1, <1>3 DEF RecordWrite
<1>6. LogOf(c)' = LogOf(c) /\ At(c, "write")' = At(c, "write")
    BY <1>1 DEF LogOf, At
<1>7. Used(recent) \subseteq DOMAIN LogOf(c).seq
    BY UsedAreNumbered DEF Ordered, LogInOrder
<1>8. CASE \E k \in Keys : /\ object[k] \in Payloads
                           /\ object' = [object EXCEPT ![k] = Corrupt]
                           /\ index' = index
    <2>1. PICK k \in Keys : /\ object[k] \in Payloads
                            /\ object' = [object EXCEPT ![k] = Corrupt]
        BY <1>8
    <2>2. object'[k] = Corrupt /\ \A j \in Keys \ {k} : object'[j] = object[j]
        BY <2>1 DEF Typing
    <2>3. object' # object
        BY <2>1, <2>2, NamespaceAssumption
    <2>4. Stored' = Stored
        <3>1. \A j \in Keys : object'[j] # Absent <=> object[j] # Absent
            BY <2>1, <2>2, NamespaceAssumption
        <3> QED  BY <3>1 DEF Stored
    <2>5. Present(c)'
        BY <1>1, <2>4 DEF Ordered, Present, At
    <2> QED  BY <1>4, <1>5, <1>6, <1>7, <1>8, <2>3, <2>5, OrderedKept
<1>9. CASE index' = EmptySeq /\ UNCHANGED object
    <2>1. recent' = recent /\ Stored' = Stored
        BY <1>4, <1>9, WholeOrder DEF Ordered
    <2>2. LogInOrder(c)' /\ Present(c)'
        BY <1>1, <1>6, <2>1 DEF Ordered, LogInOrder, Follows, Used, Present, At
    <2>3. durable' = {} /\ DOMAIN index' = {}
        BY <1>5, <1>9 DEF EmptySeq
    <2>4. Rebase(EmptySeq).seq = EmptySeq
        BY DEF Rebase, EmptySeq
    <2>5. IndexInOrder'
        BY <1>9, <2>3, <2>4 DEF IndexInOrder, Follows, Ranked
    <2>6. LogAhead(c)'
        BY <1>6, <2>3 DEF Ordered, LogAhead, Ranked
    <2> QED  BY <2>2, <2>5, <2>6 DEF Ordered
<1>10. QED
    BY <1>8, <1>9 DEF Damage

----------------------------------------------------------------------------
\* The theorem

\* A step of the sole user or of its environment keeps the order.
LEMMA OrderedNext ==
    ASSUME Typing, Stages, NEW c \in Callers, Ordered(c),
           Next, RecordUse, RecordWrite
    PROVE  Ordered(c)'
<1>1. \A d \in Callers : d = c
    BY SoleUserAssumption
<1>2. CASE Calls(c) \/ Continues(c)
    <2>1. CASE Quiet(c)
        BY <2>1, QuietKept
    <2>2. ~CallFails(c) /\ ~ReconcileFails(c) /\ ~EvictionFails(c)
        BY SoleUserAssumption DEF CallFails, ReconcileFails, EvictionFails
    <2>3. \/ Touch(c) \/ Forget(c) \/ EvictVictim(c) \/ Reconcile(c)
          \/ MergeIndex(c) \/ WriteIndex(c) \/ FinishPass(c) \/ Quiet(c)
        BY <1>2, <2>2 DEF Continues, Quiet
    <2> QED  BY <2>1, <2>3, TouchKept, ForgetKept, EvictKept, ReconcileKept,
                MergeKept, WriteKept, FinishKept
<1>3. ASSUME NEW s \in Stores, NEW k \in Keys, Pin(s, k) \/ Unpin(s, k)
      PROVE  Ordered(c)'
    <2>1. UNCHANGED <<files, log, call, environment>>
        BY <1>3 DEF Pin, Unpin
    <2>2. Stored' = Stored /\ index' = index
        BY <2>1 DEF files, Stored
    <2> QED  BY <2>1, <2>2, IdleKept
<1>4. QED
    BY <1>1, <1>2, <1>3, RestartKept, DamageKept DEF Next

\* The inductive invariant: the log and the index each number the used keys in
\* the order of their uses, and the log is ahead of the index.
THEOREM RecencyInvariant == RecencySpec => [](CacheInv /\ RecencyInv)
<1>1. RecencySpec => Spec
    <2>1. RecencyInit => Init
        BY DEF RecencyInit
    <2>2. [Next /\ RecordUse /\ RecordWrite]_recencyVars => [Next]_vars
        BY DEF recencyVars
    <2> QED  BY <2>1, <2>2, PTL DEF RecencySpec, Spec
<1>2. RecencyInit => RecencyInv
    <2> SUFFICES ASSUME RecencyInit, NEW c \in Callers PROVE Ordered(c)
        BY DEF RecencyInv
    <2>1. /\ Init /\ recent = {} /\ durable = {}
          /\ index = EmptySeq /\ DOMAIN index = {} /\ call[c].pc = "idle"
        BY DEF RecencyInit, Init, EmptySeq, Idle
    <2>2. Rebase(EmptySeq).seq = EmptySeq
        BY DEF Rebase, EmptySeq
    <2>3. LogInOrder(c)
        BY <2>1 DEF LogInOrder, Follows, Used
    <2>4. IndexInOrder
        BY <2>1, <2>2 DEF IndexInOrder, Follows, Ranked
    <2>5. LogAhead(c) /\ Present(c)
        BY <2>1 DEF LogAhead, Present, At
    <2> QED  BY <2>3, <2>4, <2>5 DEF Ordered
<1>3. CacheInv /\ RecencyInv /\ [Next /\ RecordUse /\ RecordWrite]_recencyVars => RecencyInv'
    <2> SUFFICES ASSUME CacheInv, RecencyInv, [Next /\ RecordUse /\ RecordWrite]_recencyVars,
                        NEW c \in Callers
                 PROVE  Ordered(c)'
        BY DEF RecencyInv
    <2>1. Typing /\ Stages /\ Ordered(c)
        BY DEF CacheInv, RecencyInv
    <2>2. CASE Next /\ RecordUse /\ RecordWrite
        BY <2>1, <2>2, OrderedNext
    <2>3. CASE UNCHANGED recencyVars
        <3>1. UNCHANGED <<object, index, log, call, recent, durable>>
            BY <2>3 DEF recencyVars, vars, files
        <3> QED  BY <2>1, <3>1 DEF Ordered, LogInOrder, IndexInOrder, LogAhead, Present,
                                   Follows, Used, Ranked, LogOf, At, Stored
    <2> QED  BY <2>2, <2>3
<1>4. QED
    BY <1>1, <1>2, <1>3, CacheInvariant, PTL DEF RecencySpec

\* A pass of a sole user evicts a used entry only when every evictable entry it
\* has left was used later, or never: for every set of keys, every ceiling, and
\* through every flush, restart, damaged entry and lost index.
THEOREM RecencyOrder == RecencySpec => LeastRecentFirst
<1>1. CacheInv /\ RecencyInv /\ [Next /\ RecordUse /\ RecordWrite]_recencyVars =>
         [\A c \in Callers, k \in Keys : Evicts(c, k) =>
            \A j \in call[c].left \ (call[c].pinned \cup {k}) :
               {j, k} \subseteq Used(recent) => <<j, k>> \notin recent]_recencyVars
    <2> SUFFICES ASSUME CacheInv, RecencyInv, Next /\ RecordUse /\ RecordWrite,
                        NEW c \in Callers, NEW k \in Keys, Evicts(c, k),
                        NEW j \in call[c].left \ (call[c].pinned \cup {k}),
                        {j, k} \subseteq Used(recent), <<j, k>> \in recent
                 PROVE  FALSE
        OBVIOUS
    <2>1. Typing /\ Stages /\ Passes /\ Ordered(c)
        BY DEF CacheInv, RecencyInv
    <2>2. /\ At(c, "evict") /\ call'[c] # call[c]
          /\ object[k] # Absent /\ object'[k] = Absent
        BY DEF Evicts
    <2>3. EvictVictim(c)
        <3>1. \A d \in Callers : d = c
            BY SoleUserAssumption
        <3>2. ~Calls(c)
            BY <2>1, <2>2, CallBegins DEF At
        <3>3. object' # object
            BY <2>2
        <3>4. Calls(c) \/ Continues(c)
            BY <2>2, <3>1, <3>3 DEF Next, Pin, Unpin, Restart, Damage, files
        <3> QED  BY <2>2, <3>2, <3>3, <3>4
                 DEF Continues, At, Touch, Forget, ReadEntry, RemoveCorrupt, CreateEntry,
                     ReadIncumbent, MergeIndex, WriteIndex, ReadRejected, RemoveRejected,
                     Scan, Reconcile, Snapshot, SkipPinned, EndPass, FinishPass,
                     CallFails, ReconcileFails, EvictionFails, files
    <2>4. k = Victim(c)
        <3>1. object' = [object EXCEPT ![Victim(c)] = Absent]
            BY <2>3 DEF EvictVictim
        <3> QED  BY <2>1, <2>2, <3>1 DEF Typing
    <2>5. LogOf(c) \in Logs /\ call[c].left \subseteq DOMAIN LogOf(c).seq
        BY <2>1, <2>2, CallerTypes DEF Passes
    <2>6. k \in DOMAIN LogOf(c).seq /\ j \in DOMAIN LogOf(c).seq /\ Before(LogOf(c).seq, k, j)
        BY <2>4, <2>5, VictimIsEarliest
    <2>7. Before(LogOf(c).seq, j, k)
        <3>1. j \in Keys /\ j # k
            BY DEF Used
        <3> QED  BY <2>1, <3>1 DEF Ordered, LogInOrder, Follows
    <2>8. LogOf(c).seq \in Sequences
        BY <2>5, LogIs
    <2> QED  BY <2>6, <2>7, <2>8, EvictionOrder
<1>2. QED
    BY <1>1, RecencyInvariant, PTL DEF RecencySpec, LeastRecentFirst

============================================================================
