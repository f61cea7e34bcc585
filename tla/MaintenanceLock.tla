-------------------------- MODULE MaintenanceLock --------------------------
(***************************************************************************)
(* The advisory lock file of one cache namespace                           *)
(* (crates/fmn-cache/src/store.rs, acquire/release_maintenance_lock).      *)
(*                                                                         *)
(* A caller is one thread inside Namespace::evict_to_ceiling.  Threads may *)
(* share a Namespace handle (the TeX engine clones an Arc of one), handles *)
(* belong to stores, and a store is one opening in one process: the unit   *)
(* that crashes.  Each file-system call is one step; between two of them   *)
(* every other caller may run, time may pass and the process may die.      *)
(***************************************************************************)
EXTENDS Integers, FiniteSets

CONSTANTS
    Callers,        \* threads that ask for maintenance
    Handles,        \* Namespace values
    Stores,         \* Store openings, one per process
    HandleOf,       \* the Namespace each caller holds
    StoreOf,        \* the Store each Namespace came from
    StaleAfter,     \* StoreConfig::lock_stale_after, in clock ticks
    MaxTime,        \* bound: the last instant of the wall clock
    MaxCrashes,     \* bound: crashes of each store
    FsFaults,       \* whether file-system calls may fail
    NoLock,         \* no lock file; also an empty held_lock
    Garbage,        \* a lock file that does not parse
    Nobody,         \* no caller
    Leftovers       \* what earlier processes may have left at lock_path

ASSUME CallersAssumption ==
    /\ HandleOf \in [Callers -> Handles]
    /\ StoreOf \in [Handles -> Stores]
    /\ Nobody \notin Callers
ASSUME BoundsAssumption ==
    /\ StaleAfter \in Nat
    /\ MaxTime \in Nat
    /\ MaxCrashes \in Nat
    /\ FsFaults \in BOOLEAN

VARIABLES
    now,            \* the wall clock
    lockFile,       \* the file at lock_path
    held,           \* held_lock of each handle
    life,           \* the incarnation of each store: pid and instance id
    pc,             \* where each caller is in evict_to_ceiling
    token,          \* the lock document the caller compares or publishes
    seen,           \* the lock document the caller read
    author,         \* history: the caller that created the lock file
    broke,          \* history: an existing lock file was broken
    raced           \* history: callers about to remove the lock they compared,
                    \* whose file has been removed meanwhile

vars == <<now, lockFile, held, life, pc, token, seen, author, broke, raced>>

Times == 0 .. MaxTime
Tokens == [store : Stores, life : 0 .. MaxCrashes, at : Times]
Documents == Tokens \cup {NoLock, Garbage}
ASSUME DocumentsAssumption == NoLock \notin Tokens /\ Garbage \notin Tokens
                              /\ NoLock # Garbage
                              /\ Leftovers \subseteq {NoLock, Garbage}

Locations == {"idle", "create", "read", "judge", "break", "recreate",
              "store", "pass", "release", "remove"}

StoreOfCaller(c) == StoreOf[HandleOf[c]]

\* lock_token: process, store instance and wall time.  Neither the handle
\* nor the thread is part of it.
LockToken(c) == [store |-> StoreOfCaller(c), life |-> life[StoreOfCaller(c)],
                 at |-> now]

\* Mutation of Stale: a lock that has just reached the horizon counts as stale.
StaleTooEarly(t) == now - t.at >= StaleAfter

\* The age test of acquire_maintenance_lock, with its saturating subtraction.
Stale(t) == now - t.at > StaleAfter

\* The caller believes the lock is its own.
Holding(c) == pc[c] \in {"store", "pass", "release", "remove"}

Removing == {c \in Callers : pc[c] = "remove"}

\* The mutex of held_lock, which release_maintenance_lock keeps to its end.
HeldLockIsFree(h) == \A c \in Callers : HandleOf[c] = h =>
                                           pc[c] \notin {"release", "remove"}

Init ==
    /\ now = 0
    /\ lockFile \in Leftovers
    /\ held = [h \in Handles |-> NoLock]
    /\ life = [s \in Stores |-> 0]
    /\ pc = [c \in Callers |-> "idle"]
    /\ token = [c \in Callers |-> NoLock]
    /\ seen = [c \in Callers |-> NoLock]
    /\ author = Nobody
    /\ broke = FALSE
    /\ raced = {}

Goto(c, there) == pc' = [pc EXCEPT ![c] = there]

\* The call is over: its locals are gone.
Return(c) ==
    /\ Goto(c, "idle")
    /\ token' = [token EXCEPT ![c] = NoLock]
    /\ seen' = [seen EXCEPT ![c] = NoLock]

----------------------------------------------------------------------------
\* acquire_maintenance_lock

\* The token carries the time at which the attempt began.
BeginAttempt(c) ==
    /\ pc[c] = "idle"
    /\ token' = [token EXCEPT ![c] = LockToken(c)]
    /\ Goto(c, "create")
    /\ UNCHANGED <<now, lockFile, held, life, seen, author, broke, raced>>

\* Mutation of TakeLock: the document is written over an existing one.
TakeLockByWriting(c) ==
    /\ lockFile' = token[c]
    /\ author' = c
    /\ Goto(c, "store")
    /\ UNCHANGED <<token, seen>>

\* create_file succeeds.
TakeLock(c) ==
    /\ lockFile = NoLock
    /\ lockFile' = token[c]
    /\ author' = c
    /\ Goto(c, "store")
    /\ UNCHANGED <<token, seen>>

Create(c) ==
    /\ pc[c] = "create"
    /\ \/ TakeLock(c)
       \/ /\ lockFile # NoLock
          /\ Goto(c, "read")
          /\ UNCHANGED <<lockFile, token, seen, author>>
    /\ UNCHANGED <<now, held, life, broke, raced>>

\* Mutation of ReadOccupant: an unparseable lock is taken for a fresh one.
ReadTrustsGarbage(c) ==
    /\ pc[c] = "read"
    /\ \/ /\ lockFile = Garbage
          /\ Return(c)
       \/ /\ lockFile # Garbage
          /\ seen' = [seen EXCEPT ![c] = lockFile]
          /\ Goto(c, IF lockFile = NoLock THEN "break" ELSE "judge")
          /\ UNCHANGED token
    /\ UNCHANGED <<now, lockFile, held, life, author, broke, raced>>

\* A vanished lock and an unparseable one are breakable at once.
ReadOccupant(c) ==
    /\ pc[c] = "read"
    /\ seen' = [seen EXCEPT ![c] = lockFile]
    /\ Goto(c, IF lockFile \in {NoLock, Garbage} THEN "break" ELSE "judge")
    /\ UNCHANGED <<now, lockFile, held, life, token, author, broke, raced>>

\* The clock is read after the file.
Judge(c) ==
    /\ pc[c] = "judge"
    /\ \/ /\ Stale(seen[c])
          /\ Goto(c, "break")
          /\ UNCHANGED <<token, seen>>
       \/ /\ ~Stale(seen[c])
          /\ Return(c)
    /\ UNCHANGED <<now, lockFile, held, life, author, broke, raced>>

\* remove_file on whatever is at the path now; its error is ignored.
Break(c) ==
    /\ pc[c] = "break"
    /\ \/ /\ lockFile' = NoLock
          /\ author' = Nobody
          /\ broke' = (broke \/ lockFile # NoLock)
          /\ raced' = raced \cup Removing
       \/ /\ FsFaults
          /\ UNCHANGED <<lockFile, author, broke, raced>>
    /\ Goto(c, "recreate")
    /\ UNCHANGED <<now, held, life, token, seen>>

\* The single re-contention, with the token of the first attempt.
Recreate(c) ==
    /\ pc[c] = "recreate"
    /\ \/ TakeLock(c)
       \/ /\ lockFile # NoLock
          /\ Return(c)
          /\ UNCHANGED <<lockFile, author>>
    /\ UNCHANGED <<now, held, life, broke, raced>>

\* Mutation of StoreHeld: the handle remembers the document it displaced.
StoreOccupant(c) ==
    /\ pc[c] = "store"
    /\ HeldLockIsFree(HandleOf[c])
    /\ held' = [held EXCEPT ![HandleOf[c]] = seen[c]]
    /\ Goto(c, "pass")
    /\ UNCHANGED <<now, lockFile, life, token, seen, author, broke, raced>>

\* The winner's token becomes the held_lock of its handle.
StoreHeld(c) ==
    /\ pc[c] = "store"
    /\ HeldLockIsFree(HandleOf[c])
    /\ held' = [held EXCEPT ![HandleOf[c]] = token[c]]
    /\ Goto(c, "pass")
    /\ UNCHANGED <<now, lockFile, life, token, seen, author, broke, raced>>

\* A create or a read that fails makes the attempt return the error.
AttemptFails(c) ==
    /\ FsFaults
    /\ pc[c] \in {"create", "read", "recreate"}
    /\ Return(c)
    /\ UNCHANGED <<now, lockFile, held, life, author, broke, raced>>

----------------------------------------------------------------------------
\* release_maintenance_lock, called after evict_under_lock whatever it
\* returned

\* held.take(): the handle's token, which another thread of the same handle
\* may have replaced or taken.
TakeHeld(c) ==
    /\ pc[c] = "pass"
    /\ HeldLockIsFree(HandleOf[c])
    /\ held' = [held EXCEPT ![HandleOf[c]] = NoLock]
    /\ \/ /\ held[HandleOf[c]] = NoLock
          /\ Return(c)
       \/ /\ held[HandleOf[c]] # NoLock
          /\ token' = [token EXCEPT ![c] = held[HandleOf[c]]]
          /\ Goto(c, "release")
          /\ UNCHANGED seen
    /\ UNCHANGED <<now, lockFile, life, author, broke, raced>>

\* Mutation of CompareToken: the file is removed whatever it holds.
ReleaseBlindly(c) ==
    /\ pc[c] = "release"
    /\ Goto(c, "remove")
    /\ UNCHANGED <<now, lockFile, held, life, token, seen, author, broke, raced>>

\* read_file and the comparison; a failed read counts as a mismatch.
CompareToken(c) ==
    /\ pc[c] = "release"
    /\ \/ /\ lockFile = token[c]
          /\ Goto(c, "remove")
          /\ UNCHANGED <<token, seen>>
       \/ /\ lockFile # token[c] \/ FsFaults
          /\ Return(c)
    /\ UNCHANGED <<now, lockFile, held, life, author, broke, raced>>

\* remove_file on whatever is at the path now; its error is ignored.
RemoveLock(c) ==
    /\ pc[c] = "remove"
    /\ \/ /\ lockFile' = NoLock
          /\ author' = Nobody
          /\ raced' = (raced \cup Removing) \ {c}
       \/ /\ FsFaults
          /\ raced' = raced \ {c}
          /\ UNCHANGED <<lockFile, author>>
    /\ Return(c)
    /\ UNCHANGED <<now, held, life, broke>>

----------------------------------------------------------------------------
\* The environment

Tick ==
    /\ now < MaxTime
    /\ now' = now + 1
    /\ UNCHANGED <<lockFile, held, life, pc, token, seen, author, broke, raced>>

\* The process of a store dies and a new one opens the same root: every
\* call and every held_lock is lost, the lock file stays.
Crash(s) ==
    /\ life[s] < MaxCrashes
    /\ life' = [life EXCEPT ![s] = @ + 1]
    /\ held' = [h \in Handles |-> IF StoreOf[h] = s THEN NoLock ELSE held[h]]
    /\ LET Cut(f, v) == [c \in Callers |->
                            IF StoreOfCaller(c) = s THEN v ELSE f[c]]
       IN /\ pc' = Cut(pc, "idle")
          /\ token' = Cut(token, NoLock)
          /\ seen' = Cut(seen, NoLock)
    /\ raced' = {c \in raced : StoreOfCaller(c) # s}
    /\ UNCHANGED <<now, lockFile, author, broke>>

\* The steps of a call that is under way.
Attempt(c) == \/ Create(c) \/ ReadOccupant(c) \/ Judge(c)
              \/ Break(c) \/ Recreate(c) \/ StoreHeld(c)
Release(c) == TakeHeld(c) \/ CompareToken(c) \/ RemoveLock(c)

Next ==
    \/ \E c \in Callers : \/ BeginAttempt(c)
                          \/ Attempt(c)
                          \/ AttemptFails(c)
                          \/ Release(c)
    \/ Tick
    \/ \E s \in Stores : Crash(s)

Spec == Init /\ [][Next]_vars

\* Threads run, time passes, and maintenance is asked for again and again
\* (the typesetting engine and the autotuner call it after their writes); a
\* file system that is asked again and again does not refuse for ever.
Fairness ==
    /\ WF_vars(Tick)
    /\ \A c \in Callers : /\ WF_vars(BeginAttempt(c))
                          /\ WF_vars(Attempt(c))
                          /\ WF_vars(Release(c))
                          /\ SF_vars(Create(c))
                          /\ SF_vars(ReadOccupant(c))
                          /\ SF_vars(Break(c) /\ lockFile' = NoLock)

FairSpec == Spec /\ Fairness

----------------------------------------------------------------------------
\* Properties

\* Type correctness.
LockTypeOK ==
    /\ now \in Times
    /\ lockFile \in Documents
    /\ held \in [Handles -> Tokens \cup {NoLock}]
    /\ life \in [Stores -> 0 .. MaxCrashes]
    /\ pc \in [Callers -> Locations]
    /\ token \in [Callers -> Tokens \cup {NoLock}]
    /\ seen \in [Callers -> Documents]
    /\ author \in Callers \cup {Nobody}
    /\ broke \in BOOLEAN
    /\ raced \in SUBSET Callers

\* As long as nobody has broken a lock file, at most one caller believes it
\* holds the lock, whatever the crashes, the failures and the sharing of
\* handles: create_file, the token comparison and held.take() are enough.
ExclusiveUntilBroken ==
    ~broke => \A c, d \in Callers : Holding(c) /\ Holding(d) => c = d

\* The file a breaker removes either is no longer the one it read (the race
\* that stays open) or is one it was right to remove: acquire_maintenance_lock
\* never takes a fresh lock from a holder that it saw holding it.
BreaksOnlyWhatExpired ==
    \A c \in Callers :
        pc[c] = "break" /\ lockFile = seen[c] /\ lockFile \in Tokens
            => now > lockFile.at + StaleAfter

\* release_maintenance_lock leaves a lock alone that was broken and taken
\* again before the call compared: a caller about to remove the file would
\* remove its own document, unless the file was removed after the comparison.
ReleaseNeedsItsToken ==
    \A c \in Removing : c \in raced \/ lockFile = token[c]

\* Every call returns, whatever order the callers take held_lock in; and a lock
\* whose holder is gone does not stop maintenance for ever: provided the clock
\* can still pass its horizon and maintenance keeps being asked for, it goes
\* ("a crashed holder is broken by wall-clock staleness").  Nor does a lock
\* file that does not parse.
Abandoned(t) ==
    /\ lockFile = t
    /\ t.at + StaleAfter < MaxTime
    /\ life[t.store] > t.life
MaintenanceComesBack ==
    /\ \A c \in Callers : pc[c] # "idle" ~> pc[c] = "idle"
    /\ \A t \in Tokens : Abandoned(t) ~> lockFile # t
    /\ (lockFile = Garbage) ~> (lockFile # Garbage)

\* evict_to_ceiling's documentation: "if another maintainer holds a fresh
\* lock this returns SkippedLockHeld".  The code does not keep this.
FreshLockSkips ==
    [][\A c, d \in Callers :
        /\ c # d
        /\ Holding(d) /\ Holding(d)'
        /\ ~Holding(c) /\ Holding(c)'
        => Stale(token[d])]_vars

============================================================================
