---------------------- MODULE ReferenceCacheProperties ----------------------
(***************************************************************************)
(* What must be true of ReferenceCache, and the mapping under which it     *)
(* implements WriteBackStore.                                              *)
(***************************************************************************)
EXTENDS ReferenceCache

(***************************************************************************)
(* The streams the reference model is meant for.  An uncached access never *)
(* touches a line that a cached access brings in (the two paths do not     *)
(* look at each other), and a write that goes around the cache stays in    *)
(* its line and has a byte to write.                                       *)
(***************************************************************************)
Unaliased(S) ==
    \A t, u \in S : t.uncached /\ ~u.uncached =>
        \A i \in Bytes(t) : LineBase(t.addr + i) # LineBase(u.addr)

NoAliasing == Unaliased(Txns)

NoStrayWriteAround ==
    WriteAllocate \/ \A t \in Txns :
        t.op = "write" /\ ~t.uncached => t.mask # {} /\ ~CrossLine(t)

\* The byte a program sees at an address: the cached copy, else memory's.
Resident(a) == WaysHolding(a) # {}

View(a) ==
    IF Resident(a)
    THEN lines[SetIdx(a)][CHOOSE w \in WaysHolding(a) : TRUE].data[Offset(a)]
    ELSE memory[a]

Current == [a \in Addrs |-> View(a)]

Answer == IF response.data = NoData THEN None ELSE response.data

Store == INSTANCE WriteBackStore
            WITH current <- Current, durable <- memory, answer <- Answer,
                 failed <- response.raised
-----------------------------------------------------------------------------
Data == {NoData} \cup UNION {[0 .. n - 1 -> Byte] : n \in {1, 2, 4, 8}}

CacheResponse ==
    [raised : BOOLEAN, data : Data, hit : BOOLEAN,
     evicted : BOOLEAN, evicted_dirty : BOOLEAN,
     writeback_addr : Addrs \cup {None},
     writeback_data : [Offsets -> Byte] \cup {None}]

\* The state holds only values of the types the Python annotates.
TypeOK ==
    /\ lines \in [SetIds -> [WayIds -> CacheLine]]
    /\ lru \in [SetIds -> [Ranks -> WayIds]]
    /\ fifo \in [SetIds -> [Ranks -> WayIds]]
    /\ memory \in [Addrs -> Byte]
    /\ \/ last_writeback = None
       \/ last_writeback \in [addr : Addrs, data : [Offsets -> Byte]]
    /\ response \in CacheResponse

(***************************************************************************)
(* Every valid line was brought in by a cached access of the stream.       *)
(***************************************************************************)
ResidentWasAccessed ==
    \A s \in SetIds : \A w \in WayIds :
        lines[s][w].valid => \E t \in Txns :
            ~t.uncached /\ SetIdx(t.addr) = s /\ Tag(t.addr) = lines[s][w].tag

(***************************************************************************)
(* No line of memory is in two ways at once: _find_way stops at the first  *)
(* match, so a second copy would be served stale and written back late.    *)
(***************************************************************************)
NoDuplicateTag ==
    \A s \in SetIds : \A v, w \in WayIds :
        /\ lines[s][v].valid
        /\ lines[s][w].valid
        /\ lines[s][v].tag = lines[s][w].tag
        => v = w

(***************************************************************************)
(* Every replacement list names every way once, whatever order of hits,    *)
(* fills, rejected accesses and resets led to it: a way that fell out of   *)
(* its list could never be evicted again.                                  *)
(***************************************************************************)
ListsArePermutations ==
    \A s \in SetIds : \A w \in WayIds :
        /\ \E i \in Ranks : lru[s][i] = w
        /\ \E i \in Ranks : fifo[s][i] = w

(***************************************************************************)
(* A valid line that is not dirty holds what memory holds, which is what   *)
(* lets _allocate_line drop it without a writeback.                        *)
(***************************************************************************)
CleanMatchesMemory ==
    \A s \in SetIds : \A w \in WayIds :
        lines[s][w].valid /\ ~lines[s][w].dirty =>
            lines[s][w].data = ReadLine(memory, AddrFromTagSet(lines[s][w].tag, s))

(***************************************************************************)
(* A dirty line leaves the cache only through a writeback that the         *)
(* response reports with its address and data, unless the access raised    *)
(* after evicting it or the cache was reset; either way last_writeback     *)
(* remembers it.                                                           *)
(***************************************************************************)
LeavesDirty(s, w) ==
    /\ lines[s][w].valid
    /\ lines[s][w].dirty
    /\ ~\E v \in WayIds : lines'[s][v].valid /\ lines'[s][v].tag = lines[s][w].tag

DirtyEvictionIsReported ==
    [][\A s \in SetIds, w \in WayIds :
         LeavesDirty(s, w) /\ (\E v \in WayIds : lines'[s][v].valid) =>
            /\ last_writeback' = [addr |-> VictimBase(s, w), data |-> lines[s][w].data]
            /\ ReadLine(memory', VictimBase(s, w)) = lines[s][w].data
            /\ \/ response'.raised
               \/ /\ response'.evicted_dirty
                  /\ response'.writeback_addr = VictimBase(s, w)
                  /\ response'.writeback_data = lines[s][w].data]_vars

(***************************************************************************)
(* The cache is indistinguishable from the write-back store: whatever is   *)
(* resident, evicted or rejected on the way, a load returns the bytes last *)
(* stored and a reset falls back to exactly what was written back.         *)
(***************************************************************************)
ImplementsStore == Store!StoreSpec
=============================================================================
