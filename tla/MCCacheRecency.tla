-------------------------- MODULE MCCacheRecency ---------------------------
\* A sole user of a namespace, for CacheRecency.
EXTENDS CacheRecency, TLC

CONSTANTS t1, h1, s1

SoleHandle == t1 :> h1
SoleStore == h1 :> s1

============================================================================
