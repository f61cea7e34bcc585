-------------------------- MODULE CacheNamespace ---------------------------
(***************************************************************************)
(* The entries of one cache namespace, its pins and its advisory index     *)
(* (crates/fmn-cache/src/store.rs, Namespace).                             *)
(*                                                                         *)
(* Threads call the operations of Namespace handles; handles belong to     *)
(* stores, one per process.  Each file-system call is one step, and so is  *)
(* each critical section of a handle's access log.  Eviction passes are    *)
(* not serialised here: MaintenanceLock shows that the lock file does not  *)
(* keep them apart, so this module lets them overlap as they may.          *)
(*                                                                         *)
(* Keys are numbers because a digest's order breaks LRU ties.  An entry's  *)
(* size is one unit, so totals count entries.  Objects are one directory.  *)
(***************************************************************************)
EXTENDS Integers, FiniteSets, FiniteSetsExt

CONSTANTS
    Callers, Handles, Stores,
    HandleOf,       \* the Namespace each caller holds
    StoreOf,        \* the Store each Namespace came from
    Keys,           \* digests, in their order
    Payloads,       \* verified contents
    Ceiling,        \* policy.ceiling_bytes, in entries
    Workload,       \* the operations callers choose from
    FsFaults,       \* whether file-system calls may fail
    MaxPins,        \* bound: live pins of one key in one store
    MaxNext,        \* bound: a read starts only below this access sequence
    MaxDamage,      \* bound: corrupted entries and lost indexes
    MaxRestarts,    \* bound: process deaths
    Absent, Corrupt, Nobody

Operations == {"get", "put", "evict_rejected", "flush", "usage", "maintain"}

ASSUME NamespaceAssumption ==
    /\ HandleOf \in [Callers -> Handles]
    /\ StoreOf \in [Handles -> Stores]
    /\ Keys \subseteq Nat /\ IsFiniteSet(Keys)
    /\ Ceiling \in Nat
    /\ Workload \subseteq Operations
    /\ FsFaults \in BOOLEAN
    /\ {MaxPins, MaxNext, MaxDamage, MaxRestarts} \subseteq Nat
    /\ Absent \notin Payloads /\ Corrupt \notin Payloads /\ Absent # Corrupt
    /\ Nobody \notin Callers

VARIABLES
    object,         \* the file at each key's object path
    index,          \* the index file: the sequence of each entry it lists
    log,            \* the access log of each handle
    logOwner,       \* the caller inside a handle's access mutex
    pins,           \* the PinSet of each store
    call,           \* the operation each caller is in, and its locals
    damage,         \* corruptions and losses so far
    restarts,       \* process deaths so far
    published,      \* history: payloads ever published under each key
    created,        \* history: keys published since a pass's scan
    guarded         \* history: keys pinned ever since a pass began

files == <<object, index>>
history == <<published, created, guarded>>
environment == <<damage, restarts>>
vars == <<files, log, logOwner, pins, call, environment, history>>

Stored == {k \in Keys : object[k] # Absent}
StoreOfCaller(c) == StoreOf[HandleOf[c]]

----------------------------------------------------------------------------
\* The access log: last_seq of each entry and next_seq

EmptySeq == [k \in {} |-> 0]

\* The eviction order: access sequence, ties by digest.
Before(seq, j, k) == seq[j] < seq[k] \/ (seq[j] = seq[k] /\ j < k)

\* Mutation of Rebase: the next sequence starts again.
RebaseRestartsSequence(seq) ==
    [seq  |-> [k \in DOMAIN seq |->
                  Cardinality({j \in DOMAIN seq : Before(seq, j, k)})],
     next |-> 0]

\* rebase_sequences: sequences become ranks.
Rebase(seq) ==
    [seq  |-> [k \in DOMAIN seq |->
                  Cardinality({j \in DOMAIN seq : Before(seq, j, k)})],
     next |-> Cardinality(DOMAIN seq)]

\* touch.  Sequences stay far below u64::MAX, where it would rebase first.
Touched(l, k) ==
    [seq  |-> [j \in DOMAIN l.seq \cup {k} |-> IF j = k THEN l.next ELSE l.seq[j]],
     next |-> l.next + 1]

\* Entries of a log without the given ones.
Without(l, ks) ==
    [l EXCEPT !.seq = [k \in DOMAIN l.seq \ ks |-> l.seq[k]]]

\* flush's merge: the greater sequence of the two wins.
Merged(ours, theirs) ==
    [k \in DOMAIN ours \cup DOMAIN theirs |->
        CASE k \notin DOMAIN theirs -> ours[k]
          [] k \notin DOMAIN ours   -> theirs[k]
          [] OTHER                  -> Max({ours[k], theirs[k]})]

\* Mutation of Reconciled: strangers are not counted.
ReconciledKnownOnly(l, scanned, reached) ==
    Without(l, {k \in DOMAIN l.seq : k \notin scanned \/ k \notin Stored})

\* reconcile_index after the sizes of `reached` were read: unlisted entries
\* are gone, present ones are known, strangers at sequence 0.
Reconciled(l, scanned, reached) ==
    [l EXCEPT !.seq =
        [k \in ((DOMAIN l.seq \cap scanned) \ reached) \cup (reached \cap Stored)
            |-> IF k \in DOMAIN l.seq THEN l.seq[k] ELSE 0]]

\* The log of the caller's handle, and the same inside its mutex.
LogOf(c) == log[HandleOf[c]]
LogIsFree(c) == logOwner[HandleOf[c]] = Nobody
SetLog(c, l) == log' = [log EXCEPT ![HandleOf[c]] = l]
LockLog(c) == logOwner' = [logOwner EXCEPT ![HandleOf[c]] = c]
UnlockLog(c) == logOwner' = [logOwner EXCEPT ![HandleOf[c]] = Nobody]

----------------------------------------------------------------------------
\* Calls

NoKey == 0
Idle == [op |-> "none", pc |-> "idle", key |-> NoKey, payload |-> Absent,
         seen |-> Absent, scanned |-> {}, left |-> {}, total |-> 0,
         pinned |-> {}]

At(c, pc) == call[c].pc = pc
Goto(c, pc) == call' = [call EXCEPT ![c].pc = pc]
Return(c) == /\ call' = [call EXCEPT ![c] = Idle]
             /\ created' = [created EXCEPT ![c] = {}]
             /\ guarded' = [guarded EXCEPT ![c] = {}]

Init ==
    /\ object = [k \in Keys |-> Absent]
    /\ index = EmptySeq
    /\ log = [h \in Handles |-> Rebase(EmptySeq)]
    /\ logOwner = [h \in Handles |-> Nobody]
    /\ pins = [s \in Stores |-> [k \in Keys |-> 0]]
    /\ call = [c \in Callers |-> Idle]
    /\ damage = 0
    /\ restarts = 0
    /\ published = [k \in Keys |-> {}]
    /\ created = [c \in Callers |-> {}]
    /\ guarded = [c \in Callers |-> {}]

Begin(c, op, pc, k, p) ==
    /\ At(c, "idle")
    /\ op \in Workload
    /\ call' = [call EXCEPT ![c] = [Idle EXCEPT !.op = op, !.pc = pc,
                                                !.key = k, !.payload = p]]
    /\ UNCHANGED <<files, log, logOwner, pins, environment, published, created>>

Get(c, k) == /\ LogOf(c).next < MaxNext
             /\ Begin(c, "get", "read", k, Absent)
             /\ UNCHANGED guarded
Put(c, k, p) == Begin(c, "put", "create", k, p) /\ UNCHANGED guarded
EvictRejected(c, k, p) ==
    Begin(c, "evict_rejected", "read_rejected", k, p) /\ UNCHANGED guarded
Flush(c) == Begin(c, "flush", "merge", NoKey, Absent) /\ UNCHANGED guarded
Usage(c) == Begin(c, "usage", "scan", NoKey, Absent) /\ UNCHANGED guarded
EvictToCeiling(c) ==
    /\ Begin(c, "maintain", "scan", NoKey, Absent)
    /\ guarded' = [guarded EXCEPT ![c] =
                      {k \in Keys : pins[StoreOfCaller(c)][k] > 0}]

\* touch, the last step of a hit and the first bookkeeping of a put.
Touch(c) ==
    /\ At(c, "touch") /\ LogIsFree(c)
    /\ SetLog(c, Touched(LogOf(c), call[c].key))
    /\ \/ /\ call[c].op = "put"
          /\ Goto(c, "merge")
          /\ UNCHANGED <<created, guarded>>
       \/ /\ call[c].op = "get"
          /\ Return(c)
    /\ UNCHANGED <<files, logOwner, pins, environment, published>>

\* forget, the last step of a miss and of a removal.
Forget(c) ==
    /\ At(c, "forget") /\ LogIsFree(c)
    /\ SetLog(c, Without(LogOf(c), {call[c].key}))
    /\ Return(c)
    /\ UNCHANGED <<files, logOwner, pins, environment, published>>

----------------------------------------------------------------------------
\* get_at

\* entry::decode accepts what was encoded for this address and nothing else.
Verified(bytes) == bytes \in Payloads

ReadEntry(c) ==
    /\ At(c, "read")
    /\ LET bytes == object[call[c].key]
       IN call' = [call EXCEPT ![c].seen = bytes,
                               ![c].pc = CASE bytes = Absent    -> "forget"
                                           [] Verified(bytes)   -> "touch"
                                           [] ~Verified(bytes)  -> "remove"]
    /\ UNCHANGED <<files, log, logOwner, pins, environment, history>>

\* The corrupt entry is removed, or whatever replaced it meanwhile; a failure
\* is ignored.
RemoveCorrupt(c) ==
    /\ At(c, "remove")
    /\ \/ object' = [object EXCEPT ![call[c].key] = Absent]
       \/ FsFaults /\ UNCHANGED object
    /\ Goto(c, "forget")
    /\ UNCHANGED <<index, log, logOwner, pins, environment, history>>

----------------------------------------------------------------------------
\* put_at

\* A complete entry appears under the key or the call learns it is taken.
CreateEntry(c) ==
    /\ At(c, "create")
    /\ LET k == call[c].key
           p == call[c].payload
       IN \/ /\ object[k] = Absent
             /\ object' = [object EXCEPT ![k] = p]
             /\ published' = [published EXCEPT ![k] = @ \cup {p}]
             /\ created' = [d \in Callers |-> IF At(d, "idle") THEN {}
                                                ELSE created[d] \cup {k}]
             /\ Goto(c, "touch")
          \/ /\ object[k] # Absent
             /\ Goto(c, "incumbent")
             /\ UNCHANGED <<object, published, created>>
    /\ UNCHANGED <<index, log, logOwner, pins, environment, guarded>>

\* Mutation of ReadIncumbent: any verified incumbent is as good as equal.
AcceptAnyIncumbent(c) ==
    /\ At(c, "incumbent")
    /\ \/ /\ Verified(object[call[c].key])
          /\ Goto(c, "touch")
          /\ UNCHANGED <<created, guarded>>
       \/ /\ ~Verified(object[call[c].key])
          /\ Return(c)
    /\ UNCHANGED <<files, log, logOwner, pins, environment, published>>

\* An equal incumbent makes the put idempotent.  A vanished or unverifiable
\* one is an error, a different one a conflict: both leave it in place.
ReadIncumbent(c) ==
    /\ At(c, "incumbent")
    /\ \/ /\ object[call[c].key] = call[c].payload
          /\ Goto(c, "touch")
          /\ UNCHANGED <<created, guarded>>
       \/ /\ object[call[c].key] # call[c].payload
          /\ Return(c)
    /\ UNCHANGED <<files, log, logOwner, pins, environment, published>>

----------------------------------------------------------------------------
\* flush: merge, rebase and write inside the access mutex

MergeIndex(c) ==
    /\ At(c, "merge") /\ LogIsFree(c)
    /\ LockLog(c)
    /\ SetLog(c, Rebase(Merged(LogOf(c).seq, index)))
    /\ Goto(c, "write")
    /\ UNCHANGED <<files, pins, environment, history>>

WriteIndex(c) ==
    /\ At(c, "write")
    /\ \/ index' = LogOf(c).seq
       \/ FsFaults /\ UNCHANGED index
    /\ UnlockLog(c)
    /\ Return(c)
    /\ UNCHANGED <<object, log, pins, environment, published>>

----------------------------------------------------------------------------
\* evict_rejected: compare, then remove whatever is there

ReadRejected(c) ==
    /\ At(c, "read_rejected")
    /\ LET bytes == object[call[c].key]
       IN \/ /\ bytes = Absent
             /\ Goto(c, "forget")
             /\ UNCHANGED <<created, guarded>>
          \/ /\ bytes \in {call[c].payload, Corrupt}
             /\ Goto(c, "remove_rejected")
             /\ UNCHANGED <<created, guarded>>
          \/ /\ bytes \notin {Absent, call[c].payload, Corrupt}
             /\ Return(c)
    /\ UNCHANGED <<files, log, logOwner, pins, environment, published>>

RemoveRejected(c) ==
    /\ At(c, "remove_rejected")
    /\ object' = [object EXCEPT ![call[c].key] = Absent]
    /\ Goto(c, "forget")
    /\ UNCHANGED <<index, log, logOwner, pins, environment, history>>

----------------------------------------------------------------------------
\* usage and evict_under_lock

Scan(c) ==
    /\ At(c, "scan")
    /\ call' = [call EXCEPT ![c].pc = "reconcile", ![c].scanned = Stored]
    /\ created' = [created EXCEPT ![c] = {}]
    /\ UNCHANGED <<files, log, logOwner, pins, environment, published, guarded>>

\* reconcile_index and total_size.  usage ends here; a pass keeps the mutex.
Reconcile(c) ==
    /\ At(c, "reconcile") /\ LogIsFree(c)
    /\ LET l == Reconciled(LogOf(c), call[c].scanned, call[c].scanned)
           n == Cardinality(DOMAIN l.seq)
       IN /\ SetLog(c, l)
          /\ \/ /\ call[c].op = "usage"
                /\ Return(c)
                /\ UNCHANGED logOwner
             \/ /\ call[c].op = "maintain"
                /\ call' = [call EXCEPT ![c].total = n, ![c].pc =
                                IF n > Ceiling THEN "snapshot" ELSE "finish"]
                /\ LockLog(c)
                /\ UNCHANGED <<created, guarded>>
    /\ UNCHANGED <<files, pins, environment, published>>

\* The pins the whole pass will respect, and the candidates.
Snapshot(c) ==
    /\ At(c, "snapshot")
    /\ call' = [call EXCEPT
                  ![c].pinned = {k \in Keys : pins[StoreOfCaller(c)][k] > 0},
                  ![c].left = DOMAIN LogOf(c).seq,
                  ![c].pc = "evict"]
    /\ UNCHANGED <<files, log, logOwner, pins, environment, history>>

\* The next entry in eviction order.
Victim(c) ==
    CHOOSE k \in call[c].left :
        \A j \in call[c].left \ {k} : Before(LogOf(c).seq, k, j)

PassIsOver(c) == call[c].total <= Ceiling \/ call[c].left = {}

SkipPinned(c) ==
    /\ At(c, "evict") /\ ~PassIsOver(c)
    /\ Victim(c) \in call[c].pinned
    /\ call' = [call EXCEPT ![c].left = @ \ {Victim(c)}]
    /\ UNCHANGED <<files, log, logOwner, pins, environment, history>>

\* An entry that is already gone counts as evicted.
EvictVictim(c) ==
    /\ At(c, "evict") /\ ~PassIsOver(c)
    /\ Victim(c) \notin call[c].pinned
    /\ object' = [object EXCEPT ![Victim(c)] = Absent]
    /\ SetLog(c, Without(LogOf(c), {Victim(c)}))
    /\ call' = [call EXCEPT ![c].left = @ \ {Victim(c)}, ![c].total = @ - 1]
    /\ UNCHANGED <<index, logOwner, pins, environment, history>>

EndPass(c) ==
    /\ At(c, "evict") /\ PassIsOver(c)
    /\ Goto(c, "finish")
    /\ UNCHANGED <<files, log, logOwner, pins, environment, history>>

\* Rebase and write, or skip the write of equal bytes.
FinishPass(c) ==
    /\ At(c, "finish")
    /\ LET l == Rebase(LogOf(c).seq)
       IN /\ SetLog(c, l)
          /\ \/ index' = l.seq
             \/ FsFaults /\ UNCHANGED index
    /\ UnlockLog(c)
    /\ Return(c)
    /\ UNCHANGED <<object, pins, environment, published>>

----------------------------------------------------------------------------
\* Failures: the call returns the error and its guard of the mutex is dropped

CallFails(c) ==
    /\ FsFaults
    /\ call[c].pc \in {"create", "incumbent", "read", "read_rejected",
                       "remove_rejected", "scan"}
    /\ Return(c)
    /\ UNCHANGED <<files, log, logOwner, pins, environment, published>>

\* A size that cannot be read leaves the log half reconciled.
ReconcileFails(c) ==
    /\ FsFaults
    /\ At(c, "reconcile") /\ LogIsFree(c)
    /\ \E k \in call[c].scanned :
          SetLog(c, Reconciled(LogOf(c), call[c].scanned,
                               {j \in call[c].scanned : j < k}))
    /\ Return(c)
    /\ UNCHANGED <<files, logOwner, pins, environment, published>>

\* A removal that fails abandons the pass between two evictions.
EvictionFails(c) ==
    /\ FsFaults
    /\ At(c, "evict") /\ ~PassIsOver(c)
    /\ Victim(c) \notin call[c].pinned
    /\ UnlockLog(c)
    /\ Return(c)
    /\ UNCHANGED <<files, log, pins, environment, published>>

----------------------------------------------------------------------------
\* Pins and the environment

Pin(s, k) ==
    /\ pins[s][k] < MaxPins
    /\ pins' = [pins EXCEPT ![s][k] = @ + 1]
    /\ UNCHANGED <<files, log, logOwner, call, environment, history>>

\* Keys of a store that stop being pinned are guarded by no pass of it.
Unguard(s, ks) ==
    guarded' = [c \in Callers |->
                   IF StoreOfCaller(c) = s THEN guarded[c] \ ks ELSE guarded[c]]

\* Mutation of Unpin: the first guard to go removes the key.
UnpinAll(s, k) ==
    /\ pins[s][k] > 0
    /\ pins' = [pins EXCEPT ![s][k] = 0]
    /\ Unguard(s, IF pins[s][k] = 1 THEN {k} ELSE {})
    /\ UNCHANGED <<files, log, logOwner, call, environment, published, created>>

\* Mutation of Unpin: a count that is not there is lowered too.
UnpinAbsent(s, k) ==
    /\ pins' = [pins EXCEPT ![s][k] = @ - 1]
    /\ Unguard(s, IF pins[s][k] = 1 THEN {k} ELSE {})
    /\ UNCHANGED <<files, log, logOwner, call, environment, published, created>>

Unpin(s, k) ==
    /\ pins[s][k] > 0
    /\ pins' = [pins EXCEPT ![s][k] = @ - 1]
    /\ Unguard(s, IF pins[s][k] = 1 THEN {k} ELSE {})
    /\ UNCHANGED <<files, log, logOwner, call, environment, published, created>>

\* The disk: an entry or the index stops parsing.
Damage ==
    /\ damage < MaxDamage
    /\ damage' = damage + 1
    /\ \/ /\ \E k \in Keys : /\ object[k] \in Payloads
                             /\ object' = [object EXCEPT ![k] = Corrupt]
          /\ UNCHANGED index
       \/ /\ index' = EmptySeq
          /\ UNCHANGED object
    /\ UNCHANGED <<log, logOwner, pins, call, restarts, history>>

\* A process dies at any point and opens the namespace again: its calls, its
\* pins and what its logs had not flushed are lost.
Restart(s) ==
    /\ restarts < MaxRestarts
    /\ restarts' = restarts + 1
    /\ pins' = [pins EXCEPT ![s] = [k \in Keys |-> 0]]
    /\ log' = [h \in Handles |->
                  IF StoreOf[h] = s THEN Rebase(index) ELSE log[h]]
    /\ logOwner' = [h \in Handles |->
                       IF StoreOf[h] = s THEN Nobody ELSE logOwner[h]]
    /\ LET Cut(f, v) == [c \in Callers |->
                            IF StoreOfCaller(c) = s THEN v ELSE f[c]]
       IN /\ call' = Cut(call, Idle)
          /\ created' = Cut(created, {})
          /\ guarded' = Cut(guarded, {})
    /\ UNCHANGED <<files, damage, published>>

Calls(c) ==
    \/ \E k \in Keys : Get(c, k)
    \/ \E k \in Keys, p \in Payloads : Put(c, k, p) \/ EvictRejected(c, k, p)
    \/ Flush(c) \/ Usage(c) \/ EvictToCeiling(c)

Continues(c) ==
    \/ Touch(c) \/ Forget(c)
    \/ ReadEntry(c) \/ RemoveCorrupt(c)
    \/ CreateEntry(c) \/ ReadIncumbent(c)
    \/ MergeIndex(c) \/ WriteIndex(c)
    \/ ReadRejected(c) \/ RemoveRejected(c)
    \/ Scan(c) \/ Reconcile(c) \/ Snapshot(c)
    \/ SkipPinned(c) \/ EvictVictim(c) \/ EndPass(c) \/ FinishPass(c)
    \/ CallFails(c) \/ ReconcileFails(c) \/ EvictionFails(c)

Next ==
    \/ \E c \in Callers : Calls(c) \/ Continues(c)
    \/ \E s \in Stores : \/ \E k \in Keys : Pin(s, k) \/ Unpin(s, k)
                         \/ Restart(s)
    \/ Damage

Spec == Init /\ [][Next]_vars

----------------------------------------------------------------------------
\* Properties

\* Type correctness.
CacheTypeOK ==
    /\ object \in [Keys -> Payloads \cup {Absent, Corrupt}]
    /\ DOMAIN index \subseteq Keys
    /\ \A h \in Handles : /\ DOMAIN log[h].seq \subseteq Keys
                          /\ log[h].next \in Nat
                          /\ \A k \in DOMAIN log[h].seq :
                                log[h].seq[k] \in 0 .. log[h].next
    /\ logOwner \in [Handles -> Callers \cup {Nobody}]
    /\ pins \in [Stores -> [Keys -> 0 .. MaxPins]]
    /\ \A c \in Callers : call[c].total \in 0 .. Cardinality(Keys)

\* A hit returns bytes that some put published under that key, and a put that
\* reports success offered what was published, whatever was damaged, evicted or
\* republished by others meanwhile ("never a wrong read").
AnswersArePublished ==
    \A c \in Callers : At(c, "touch") =>
        LET answer == IF call[c].op = "get" THEN call[c].seen ELSE call[c].payload
        IN call[c].op \in {"get", "put"} => answer \in published[call[c].key]

\* The step in which a pass of c removes the file of k.
Evicts(c, k) == /\ At(c, "evict") /\ call'[c] # call[c]
                /\ object[k] # Absent /\ object'[k] = Absent

\* A key pinned in the process of a pass, by however many guards, since
\* before the pass began is not removed by it.
PinnedThroughoutSurvives ==
    [][\A c \in Callers, k \in Keys : Evicts(c, k) => k \notin guarded[c]]_vars

\* When a pass ends, of the entries that were there at its scan and have
\* stayed, no more are left than it reports, and more than the ceiling only
\* if all of them were pinned: whatever other handles wrote, evicted or
\* persisted in the index.
PassMeetsTheCeiling ==
    \A c \in Callers : At(c, "finish") =>
        LET old == Stored \ created[c]
        IN /\ Cardinality(old) <= call[c].total
           /\ call[c].total > Ceiling => old \subseteq call[c].pinned

\* Pin's documentation: "while any Pin for an address is alive, eviction will
\* not remove that entry".  The code does not keep this.
LivePinsHold ==
    [][\A c \in Callers, k \in Keys :
          Evicts(c, k) => pins[StoreOfCaller(c)][k] = 0]_vars

============================================================================
