----------------------- MODULE MaintenanceLockProofs -----------------------
(***************************************************************************)
(* The safety of the maintenance lock, for every set of callers, handles   *)
(* and stores and every horizon.  One inductive invariant carries all of   *)
(* it: a call under way has a token, whoever holds an unbroken lock is its *)
(* author, and a caller past a test still satisfies it.                    *)
(***************************************************************************)
EXTENDS MaintenanceLock, TLAPS

\* A call under way carries the token it began with or took from the handle.
CallsCarryTokens == \A c \in Callers : pc[c] # "idle" => token[c] \in Tokens

\* Until a lock is broken, its holder is the caller that created the file.
HolderIsAuthor ==
    ~broke => \A c \in Callers : Holding(c) => author = c /\ lockFile # NoLock

\* The age test read a token, and what it found stale is stale for ever.
JudgedBy(c) ==
    /\ pc[c] = "judge" => seen[c] \in Tokens
    /\ pc[c] = "break" /\ seen[c] \in Tokens => now > seen[c].at + StaleAfter
JudgedStale == \A c \in Callers : JudgedBy(c)

LockInv ==
    /\ LockTypeOK
    /\ CallsCarryTokens
    /\ HolderIsAuthor
    /\ JudgedStale
    /\ ReleaseNeedsItsToken

USE CallersAssumption, BoundsAssumption, DocumentsAssumption

\* A token's time is a number of the clock's range.
LEMMA TokenTime ==
    ASSUME NEW t \in Tokens
    PROVE  t.at \in Int
  BY DEF Tokens, Times

\* The token of a new attempt is well formed.
LEMMA TokenType ==
    ASSUME LockTypeOK, NEW c \in Callers
    PROVE  LockToken(c) \in Tokens
  BY DEF LockTypeOK, LockToken, StoreOfCaller, Tokens

\* Nothing is held, compared or judged at the start.
LEMMA InitEstablishes == Init => LockInv
  <1> SUFFICES ASSUME Init PROVE LockInv
    OBVIOUS
  <1>1. LockTypeOK
    <2>1. now \in Times /\ life \in [Stores -> 0 .. MaxCrashes]
      BY DEF Init, Times
    <2>2. lockFile \in Documents
      BY DEF Init, Documents
    <2>3. /\ held \in [Handles -> Tokens \cup {NoLock}]
          /\ token \in [Callers -> Tokens \cup {NoLock}]
          /\ seen \in [Callers -> Documents]
      BY DEF Init, Documents
    <2>4. pc \in [Callers -> Locations]
      BY DEF Init, Locations
    <2> QED
      BY <2>1, <2>2, <2>3, <2>4 DEF Init, LockTypeOK
  <1>2. CallsCarryTokens /\ HolderIsAuthor /\ JudgedStale
    BY DEF Init, CallsCarryTokens, HolderIsAuthor, JudgedStale, JudgedBy, Holding
  <1>3. ReleaseNeedsItsToken
    BY DEF Init, ReleaseNeedsItsToken, Removing
  <1> QED
    BY <1>1, <1>2, <1>3 DEF LockInv

\* Every step keeps the type.
LEMMA TypeStep == LockTypeOK /\ CallsCarryTokens /\ [Next]_vars => LockTypeOK'
  <1> SUFFICES ASSUME LockTypeOK, CallsCarryTokens, [Next]_vars
               PROVE  LockTypeOK'
    OBVIOUS
  <1> USE DEF LockTypeOK, Locations, Documents, Goto, Return
  <1>1. ASSUME NEW c \in Callers, BeginAttempt(c) PROVE LockTypeOK'
    BY <1>1, TokenType DEF BeginAttempt
  <1>2. ASSUME NEW c \in Callers, Create(c) PROVE LockTypeOK'
    BY <1>2 DEF Create, TakeLock, CallsCarryTokens
  <1>3. ASSUME NEW c \in Callers, ReadOccupant(c) PROVE LockTypeOK'
    BY <1>3 DEF ReadOccupant
  <1>4. ASSUME NEW c \in Callers, Judge(c) PROVE LockTypeOK'
    BY <1>4 DEF Judge
  <1>5. ASSUME NEW c \in Callers, Break(c) PROVE LockTypeOK'
    BY <1>5 DEF Break, Removing
  <1>6. ASSUME NEW c \in Callers, Recreate(c) PROVE LockTypeOK'
    BY <1>6 DEF Recreate, TakeLock, CallsCarryTokens
  <1>7. ASSUME NEW c \in Callers, StoreHeld(c) PROVE LockTypeOK'
    BY <1>7 DEF StoreHeld, CallsCarryTokens
  <1>8. ASSUME NEW c \in Callers, AttemptFails(c) PROVE LockTypeOK'
    BY <1>8 DEF AttemptFails
  <1>9. ASSUME NEW c \in Callers, TakeHeld(c) PROVE LockTypeOK'
    BY <1>9 DEF TakeHeld
  <1>10. ASSUME NEW c \in Callers, CompareToken(c) PROVE LockTypeOK'
    BY <1>10 DEF CompareToken
  <1>11. ASSUME NEW c \in Callers, RemoveLock(c) PROVE LockTypeOK'
    BY <1>11 DEF RemoveLock, Removing
  <1>12. CASE Tick
    BY <1>12 DEF Tick, Times
  <1>13. ASSUME NEW s \in Stores, Crash(s) PROVE LockTypeOK'
    BY <1>13 DEF Crash
  <1>14. CASE UNCHANGED vars
    BY <1>14 DEF vars
  <1> QED
    BY <1>1, <1>2, <1>3, <1>4, <1>5, <1>6, <1>7, <1>8, <1>9, <1>10, <1>11,
       <1>12, <1>13, <1>14 DEF Next, Attempt, Release

\* Every step keeps the token of a call under way.
LEMMA TokenStep == LockInv /\ [Next]_vars => CallsCarryTokens'
  <1> SUFFICES ASSUME LockInv, [Next]_vars PROVE CallsCarryTokens'
    OBVIOUS
  <1> USE DEF LockInv, LockTypeOK, CallsCarryTokens, Goto, Return
  <1>1. ASSUME NEW c \in Callers, BeginAttempt(c) PROVE CallsCarryTokens'
    BY <1>1, TokenType DEF BeginAttempt
  <1>2. ASSUME NEW c \in Callers, Attempt(c) PROVE CallsCarryTokens'
    BY <1>2 DEF Attempt, Create, ReadOccupant, Judge, Break, Recreate,
                StoreHeld, TakeLock
  <1>3. ASSUME NEW c \in Callers, AttemptFails(c) PROVE CallsCarryTokens'
    BY <1>3 DEF AttemptFails
  <1>4. ASSUME NEW c \in Callers, Release(c) PROVE CallsCarryTokens'
    BY <1>4 DEF Release, TakeHeld, CompareToken, RemoveLock
  <1>5. ASSUME NEW s \in Stores, Crash(s) PROVE CallsCarryTokens'
    BY <1>5 DEF Crash
  <1>6. CASE Tick \/ UNCHANGED vars
    BY <1>6 DEF Tick, vars
  <1> QED
    BY <1>1, <1>2, <1>3, <1>4, <1>5, <1>6 DEF Next

\* Every step keeps an unbroken lock with its author.
LEMMA AuthorStep == LockInv /\ [Next]_vars => HolderIsAuthor'
  <1> SUFFICES ASSUME LockInv, [Next]_vars PROVE HolderIsAuthor'
    OBVIOUS
  <1> USE DEF LockInv, LockTypeOK, CallsCarryTokens, HolderIsAuthor, Holding,
              Goto, Return
  <1>1. ASSUME NEW c \in Callers, Create(c) \/ Recreate(c)
        PROVE  HolderIsAuthor'
    BY <1>1 DEF Create, Recreate, TakeLock
  <1>2. ASSUME NEW c \in Callers, Break(c) PROVE HolderIsAuthor'
    BY <1>2 DEF Break
  <1>3. ASSUME NEW c \in Callers, RemoveLock(c) PROVE HolderIsAuthor'
    BY <1>3 DEF RemoveLock
  <1>4. ASSUME NEW c \in Callers,
               \/ BeginAttempt(c) \/ ReadOccupant(c) \/ Judge(c)
               \/ StoreHeld(c) \/ AttemptFails(c) \/ TakeHeld(c)
               \/ CompareToken(c)
        PROVE  HolderIsAuthor'
    BY <1>4 DEF BeginAttempt, ReadOccupant, Judge, StoreHeld, AttemptFails,
                TakeHeld, CompareToken
  <1>5. ASSUME NEW s \in Stores, Crash(s) PROVE HolderIsAuthor'
    BY <1>5 DEF Crash
  <1>6. CASE Tick \/ UNCHANGED vars
    BY <1>6 DEF Tick, vars
  <1> QED
    BY <1>1, <1>2, <1>3, <1>4, <1>5, <1>6 DEF Next, Attempt, Release

\* Every step keeps what the age test found: the clock only advances.
LEMMA JudgeStep == LockInv /\ [Next]_vars => JudgedStale'
  <1> SUFFICES ASSUME LockInv, [Next]_vars, NEW c \in Callers
               PROVE  JudgedBy(c)'
    BY DEF JudgedStale
  <1> USE DEF LockInv, LockTypeOK, JudgedStale, JudgedBy, Goto, Return
  <1>1. now \in Int /\ now' \in Int /\ now <= now'
    BY DEF Next, Tick, vars, Times, BeginAttempt, Attempt, AttemptFails,
           Release, Create, ReadOccupant, Judge, Break, Recreate, StoreHeld,
           TakeHeld, CompareToken, RemoveLock, Crash
  <1>2. CASE Judge(c)
    <2>1. seen[c] \in Tokens /\ seen[c].at \in Int
      BY <1>2, TokenTime DEF Judge
    <2>2. CASE Stale(seen[c]) /\ pc' = [pc EXCEPT ![c] = "break"]
      BY <1>1, <1>2, <2>1, <2>2 DEF Judge, Stale
    <2>3. CASE pc' = [pc EXCEPT ![c] = "idle"]
      BY <2>3
    <2> QED
      BY <1>2, <2>2, <2>3 DEF Judge
  <1>3. CASE ReadOccupant(c)
    BY <1>3 DEF ReadOccupant, Documents
  <1>4. CASE pc'[c] = pc[c] /\ seen'[c] = seen[c]
    BY <1>1, <1>4, TokenTime
  <1>5. CASE pc'[c] \notin {"judge", "break"}
    BY <1>5
  <1> QED
    BY <1>2, <1>3, <1>4, <1>5
       DEF Next, Tick, vars, BeginAttempt, Attempt, AttemptFails, Release,
           Create, Break, Recreate, StoreHeld, TakeLock, TakeHeld,
           CompareToken, RemoveLock, Crash, ReadOccupant, Judge

\* Every step keeps the outcome of a release's comparison.
LEMMA ReleaseStep == LockInv /\ [Next]_vars => ReleaseNeedsItsToken'
  <1> SUFFICES ASSUME LockInv, [Next]_vars PROVE ReleaseNeedsItsToken'
    OBVIOUS
  <1> USE DEF LockInv, LockTypeOK, CallsCarryTokens, ReleaseNeedsItsToken,
              Removing, Goto, Return
  <1>1. ASSUME NEW c \in Callers, Create(c) \/ Recreate(c)
        PROVE  ReleaseNeedsItsToken'
    BY <1>1 DEF Create, Recreate, TakeLock
  <1>2. ASSUME NEW c \in Callers, Break(c) PROVE ReleaseNeedsItsToken'
    BY <1>2 DEF Break
  <1>3. ASSUME NEW c \in Callers, RemoveLock(c) PROVE ReleaseNeedsItsToken'
    BY <1>3 DEF RemoveLock
  <1>4. ASSUME NEW c \in Callers, CompareToken(c) PROVE ReleaseNeedsItsToken'
    BY <1>4 DEF CompareToken
  <1>5. ASSUME NEW c \in Callers,
               \/ BeginAttempt(c) \/ ReadOccupant(c) \/ Judge(c)
               \/ StoreHeld(c) \/ AttemptFails(c) \/ TakeHeld(c)
        PROVE  ReleaseNeedsItsToken'
    BY <1>5 DEF BeginAttempt, ReadOccupant, Judge, StoreHeld, AttemptFails,
                TakeHeld
  <1>6. ASSUME NEW s \in Stores, Crash(s) PROVE ReleaseNeedsItsToken'
    BY <1>6 DEF Crash
  <1>7. CASE Tick \/ UNCHANGED vars
    BY <1>7 DEF Tick, vars
  <1> QED
    BY <1>1, <1>2, <1>3, <1>4, <1>5, <1>6, <1>7 DEF Next, Attempt, Release

----------------------------------------------------------------------------
\* The invariant of acquire_maintenance_lock and release_maintenance_lock is
\* inductive.
THEOREM LockInvariant == Spec => []LockInv
  <1>1. LockInv /\ [Next]_vars => LockInv'
    BY TypeStep, TokenStep, AuthorStep, JudgeStep, ReleaseStep DEF LockInv
  <1> QED
    BY <1>1, InitEstablishes, PTL DEF Spec

\* The variables of the lock protocol keep their types.
THEOREM LockTyping == Spec => []LockTypeOK
  <1>1. LockInv => LockTypeOK
    BY DEF LockInv
  <1> QED
    BY <1>1, LockInvariant, PTL

\* Until a lock file is broken, at most one caller believes it holds it.
THEOREM LockExclusion == Spec => []ExclusiveUntilBroken
  <1>1. LockInv => ExclusiveUntilBroken
    BY DEF LockInv, HolderIsAuthor, ExclusiveUntilBroken
  <1> QED
    BY <1>1, LockInvariant, PTL

\* A breaker never removes, unexpired, the very lock that it judged.
THEOREM LockExpiry == Spec => []BreaksOnlyWhatExpired
  <1>1. LockInv => BreaksOnlyWhatExpired
    BY DEF LockInv, JudgedStale, JudgedBy, BreaksOnlyWhatExpired
  <1> QED
    BY <1>1, LockInvariant, PTL

\* A release removes its own document, or one put there after it compared.
THEOREM LockRelease == Spec => []ReleaseNeedsItsToken
  <1>1. LockInv => ReleaseNeedsItsToken
    BY DEF LockInv
  <1> QED
    BY <1>1, LockInvariant, PTL

============================================================================
