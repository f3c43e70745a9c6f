\* Two keys against a three-entry cache, a TTL of 2 and four clock values:
\* enough to evict, hit, expire, re-store, and leave an expired duplicate
\* of a key behind its unlinked head.
CONSTANTS
  Keys = {k1, k2}
  Capacity = 3
  TTL = 2
  MaxTime = 3
SYMMETRY KeySymmetry
SPECIFICATION CacheSpec
INVARIANT CacheTypeOK
INVARIANT HitIsFresh
INVARIANT RecencyOrdered
PROPERTY CacheRefinesTTLCache
