SPECIFICATION FairCacheSpec
CONSTANTS
    Callers = {ui}
    Probers = {b1, b2}
    TTL = 2
    MaxGen = 1
INVARIANTS
    CacheInv
PROPERTIES
    LinksConverge
