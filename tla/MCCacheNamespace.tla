------------------------- MODULE MCCacheNamespace -------------------------
\* Model values and small instances for CacheNamespace.
EXTENDS CacheNamespace, TLC

CONSTANTS t1, t2, h1, h2, s1, s2

SoleCaller == t1 :> h1
OneStore == h1 :> s1
TwoHandles == t1 :> h1 @@ t2 :> h2
TwoStores == h1 :> s1 @@ h2 :> s2
SharedStore == h1 :> s1 @@ h2 :> s1

============================================================================
