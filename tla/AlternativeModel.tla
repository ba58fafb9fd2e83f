-------------------------- MODULE AlternativeModel --------------------------
(***************************************************************************)
(* AlternativeReferenceModel of cache_vip/cross_validation.py, "Model B",  *)
(* in step with ReferenceCache, "Model A": the same accesses reach both.   *)
(* B keeps its lines in parallel stores, finds its victim by the smallest  *)
(* of per-way ticks instead of a list, fills with zeros for want of a      *)
(* memory, and knows neither masks nor uncached accesses nor reset().      *)
(*                                                                         *)
(* The two are in step until an access that B was not written for, or      *)
(* until a set's tick reaches MaxTicks; then B is left behind.             *)
(***************************************************************************)
EXTENDS ReferenceCacheProperties

CONSTANT MaxTicks      \* bound on the accesses of a set that both models see

ASSUME MaxTicksAssumption == MaxTicks \in Nat

VARIABLES
    tag_store,     \* tag_store[set][way], -1 where nothing was ever filled
    data_store,    \* data_store[set][way]
    dirty_store,   \* dirty_store[set][way]
    lru_count,     \* lru_count[set][way]: the tick of the last access
    lru_tick,      \* lru_tick[set]: accesses of the set so far
    response_b,    \* what B's last access returned
    in_step        \* whether B still sees every access that A sees

stores == <<tag_store, data_store, dirty_store>>
ticks == <<lru_count, lru_tick>>
modelB == <<stores, ticks, response_b>>
lockstepVars == <<vars, modelB, in_step>>
-----------------------------------------------------------------------------
ZeroLine == [o \in Offsets |-> 0]

AltWays(t) == {w \in WayIds : tag_store[SetIdx(t.addr)][w] = Tag(t.addr)}

\* Faulty variant: of the ways with the smallest tick the largest tick is taken.
MostRecent(s) ==
    {w \in WayIds : \A v \in WayIds : lru_count[s][v] <= lru_count[s][w]}

LeastRecent(s) ==
    {w \in WayIds : \A v \in WayIds : lru_count[s][w] <= lru_count[s][v]}

\* _select_victim; FIFO is the same search over the same ticks.
AltVictim(s, w) ==
    IF Replacement = "random" THEN w \in WayIds ELSE IsFirst(w, LeastRecent(s))

UpdateLru(s, w) ==
    /\ lru_tick' = [lru_tick EXCEPT ![s] = @ + 1]
    /\ lru_count' = [lru_count EXCEPT ![s][w] = lru_tick[s] + 1]

\* Every byte of the access is stored, whatever its mask.
AltStored(data, t) ==
    [o \in Offsets |-> IF o - Offset(t.addr) \in Bytes(t) THEN t.data[o - Offset(t.addr)]
                       ELSE data[o]]

AltLoaded(data, t) ==
    IF t.op = "read" THEN [i \in Bytes(t) |-> data[Offset(t.addr) + i]] ELSE NoData

AltHit(t) ==
    LET s == SetIdx(t.addr)
        isWrite == t.op = "write"
    IN  \E w \in WayIds :
            /\ IsFirst(w, AltWays(t))
            /\ UpdateLru(s, w)
            /\ data_store' = IF isWrite THEN [data_store EXCEPT ![s][w] = AltStored(@, t)]
                             ELSE data_store
            /\ dirty_store' = [dirty_store EXCEPT ![s][w] = @ \/ isWrite]
            /\ response_b' = Response(AltLoaded(data_store[s][w], t), TRUE)
            /\ UNCHANGED tag_store

AltMiss(t) ==
    LET s == SetIdx(t.addr)
        merges == t.op = "write" /\ WriteAllocate
    IN  \E w \in WayIds :
            /\ AltWays(t) = {}
            /\ AltVictim(s, w)
            /\ LET dirty == tag_store[s][w] # -1 /\ dirty_store[s][w]
               IN  response_b' =
                     [Response(AltLoaded(ZeroLine, t), FALSE) EXCEPT
                        !.evicted_dirty = dirty,
                        !.writeback_addr = IF dirty
                                           THEN tag_store[s][w] * LineBytes * Sets + s * LineBytes
                                           ELSE None,
                        !.writeback_data = IF dirty THEN data_store[s][w] ELSE None]
            /\ tag_store' = [tag_store EXCEPT ![s][w] = Tag(t.addr)]
            /\ data_store' = [data_store EXCEPT
                                ![s][w] = IF merges THEN AltStored(ZeroLine, t) ELSE ZeroLine]
            /\ dirty_store' = [dirty_store EXCEPT ![s][w] = merges]
            /\ UpdateLru(s, w)

AltAccess(t) == AltHit(t) \/ AltMiss(t)

AltInitial ==
    [tag_store   |-> [s \in SetIds |-> [w \in WayIds |-> -1]],
     data_store  |-> [s \in SetIds |-> [w \in WayIds |-> ZeroLine]],
     dirty_store |-> [s \in SetIds |-> [w \in WayIds |-> FALSE]],
     lru_count   |-> [s \in SetIds |-> [w \in WayIds |-> 0]],
     lru_tick    |-> [s \in SetIds |-> 0]]

FreshB ==
    /\ tag_store' = AltInitial.tag_store
    /\ data_store' = AltInitial.data_store
    /\ dirty_store' = AltInitial.dirty_store
    /\ lru_count' = AltInitial.lru_count
    /\ lru_tick' = AltInitial.lru_tick
    /\ response_b' = Response(NoData, FALSE)
-----------------------------------------------------------------------------
\* The accesses B was written for.
Comparable(t) == ~t.uncached /\ ~CrossLine(t)

BothAccess(t) ==
    /\ in_step
    /\ Comparable(t)
    /\ lru_tick[SetIdx(t.addr)] < MaxTicks
    /\ Access(t)
    /\ AltAccess(t)
    /\ UNCHANGED in_step

LeaveB ==
    /\ in_step' = FALSE
    /\ FreshB

OnlyA ==
    \/ \E t \in Txns :
          /\ in_step /\ Comparable(t) => lru_tick[SetIdx(t.addr)] = MaxTicks
          /\ Access(t)
          /\ LeaveB
    \/ Reset /\ LeaveB

LockstepInit ==
    /\ Init
    /\ tag_store = AltInitial.tag_store
    /\ data_store = AltInitial.data_store
    /\ dirty_store = AltInitial.dirty_store
    /\ lru_count = AltInitial.lru_count
    /\ lru_tick = AltInitial.lru_tick
    /\ response_b = Response(NoData, FALSE)
    /\ in_step = TRUE

LockstepNext == (\E t \in Txns : BothAccess(t)) \/ OnlyA

LockstepSpec == LockstepInit /\ [][LockstepNext]_lockstepVars
-----------------------------------------------------------------------------
(***************************************************************************)
(* The two models agree on everything but data: the same access hits in    *)
(* both or in neither, and throws out the same dirty line.  They keep no   *)
(* common state: A's list of ways and B's ticks must order the ways of     *)
(* every set alike, the ways never filled last.                            *)
(***************************************************************************)
SameVerdict ==
    /\ response.hit = response_b.hit
    /\ response.evicted_dirty = response_b.evicted_dirty
    /\ response.writeback_addr = response_b.writeback_addr

SameLines ==
    \A s \in SetIds : \A w \in WayIds :
        /\ lines[s][w].valid <=> tag_store[s][w] # -1
        /\ lines[s][w].valid => /\ lines[s][w].tag = tag_store[s][w]
                                /\ lines[s][w].dirty = dirty_store[s][w]

SameOrder ==
    \A s \in SetIds : \A i, j \in Ranks :
        i < j /\ lines[s][lru[s][i]].valid /\ lines[s][lru[s][j]].valid =>
            lru_count[s][lru[s][i]] > lru_count[s][lru[s][j]]

ModelsAgree ==
    in_step /\ Replacement = "lru" /\ WriteAllocate => SameVerdict /\ SameLines /\ SameOrder
=============================================================================
