--------------------------- MODULE MCCacheSystem ---------------------------
\* A small instance of the cache between its two coroutines.
EXTENDS CacheSystem

CONSTANT WrittenTags      \* the tags that requests write

ReadOf(t, s) ==
    [write |-> FALSE, tag |-> t, index |-> s, offset |-> LineBytes - WordBytes,
     wdata |-> [i \in 0 .. WordBytes - 1 |-> 0], wmask |-> {}]

WriteOf(t, s) ==
    [write |-> TRUE, tag |-> t, index |-> s, offset |-> LineBytes - WordBytes,
     wdata |-> [i \in 0 .. WordBytes - 1 |-> (t + 1) % 2], wmask |-> {0}]

MCRequests ==
    {ReadOf(t, s) : t \in Tags, s \in SetIds}
    \cup {WriteOf(t, s) : t \in WrittenTags, s \in SetIds}

\* Neighbouring tags hold different lines.
MCMemories == {[l \in LineAddresses |-> [b \in 0 .. LineBytes - 1 |-> l[1] % 2]]}
=============================================================================
