------------------------ MODULE MCMaintenanceLock ------------------------
\* Model values and small instances for MaintenanceLock.
EXTENDS MaintenanceLock, TLC

CONSTANTS t1, t2, t3, h1, h2, h3, s1, s2, s3

\* Each caller is a process of its own.
TwoHandles == t1 :> h1 @@ t2 :> h2
ThreeHandles == t1 :> h1 @@ t2 :> h2 @@ t3 :> h3
ThreeStores == h1 :> s1 @@ h2 :> s2 @@ h3 :> s3
TwoStores == h1 :> s1 @@ h2 :> s2

============================================================================
