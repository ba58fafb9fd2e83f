--------------------------- MODULE ReferenceCache ---------------------------
(***************************************************************************)
(* ReferenceCache of cache_vip/reference_model.py: a set-associative       *)
(* write-back cache over a byte memory, the golden model that every        *)
(* scoreboard of the platform compares the design under test with.         *)
(*                                                                         *)
(* One transaction is one atomic step (the Python is sequential), and it   *)
(* takes every branch of access(): the uncached bypass, the write that     *)
(* goes around the cache, the hit, the miss with its eviction, and the     *)
(* cross-line access that raises - which on a miss raises only after the   *)
(* line has been allocated.                                                *)
(*                                                                         *)
(* A byte is an abstract value, a mask the set of its set bits, and the    *)
(* data of a transaction or a line the function from byte index to byte.   *)
(* The replacement RNG is a free choice of way.                            *)
(***************************************************************************)
EXTENDS CacheAddress

CONSTANTS
    Ways,            \* CacheParams.ways
    Replacement,     \* CacheParams.replacement: "lru", "fifo" or "random"
    WriteAllocate,   \* CacheParams.write_allocate
    Addrs,           \* the byte addresses the stream can reach, whole lines
    Byte,            \* the byte values, 0 among them
    Txns,            \* the transactions the stream is made of
    None             \* Python's None

ASSUME WaysAssumption == Ways \in Nat \ {0}
ASSUME PolicyAssumption ==
    /\ Replacement \in {"lru", "fifo", "random"}
    /\ WriteAllocate \in BOOLEAN
ASSUME AddrsAssumption ==
    /\ Addrs \subseteq Nat
    /\ \A a \in Addrs, o \in Offsets : LineBase(a) + o \in Addrs
ASSUME ByteAssumption == 0 \in Byte

Bytes(t) == 0 .. t.size - 1

\* CacheTxn.__post_init__: what a transaction object can be.
IsCacheTxn(t) ==
    /\ t.op \in {"read", "write"}
    /\ t.addr \in Nat
    /\ t.size \in {1, 2, 4, 8}
    /\ t.data \in [Bytes(t) -> Byte]
    /\ t.mask \subseteq Bytes(t)
    /\ t.uncached \in BOOLEAN
    /\ \A i \in Bytes(t) : t.addr + i \in Addrs

ASSUME TxnsAssumption == \A t \in Txns : IsCacheTxn(t)

WayIds == 0 .. Ways - 1
Ranks == 1 .. Ways          \* positions in a replacement list, 1 the front

CacheLine ==
    [valid : BOOLEAN, dirty : BOOLEAN, tag : Nat, data : [Offsets -> Byte]]

VARIABLES
    lines,           \* self.lines[set][way]
    lru,             \* self.lru[set]: ways, most recently used first
    fifo,            \* self.fifo[set]: ways, most recently filled first
    memory,          \* self.memory, a ByteMemory
    last_writeback,  \* self.last_writeback
    response         \* what the last access returned, or that it raised

vars == <<lines, lru, fifo, memory, last_writeback, response>>
-----------------------------------------------------------------------------
(***************************************************************************)
(* ByteMemory.                                                             *)
(***************************************************************************)
ReadMemory(mem, t) == [i \in Bytes(t) |-> mem[t.addr + i]]

WriteMemory(mem, t, mask) ==
    [a \in Addrs |-> IF a - t.addr \in mask THEN t.data[a - t.addr] ELSE mem[a]]

ReadLine(mem, base) == [o \in Offsets |-> mem[base + o]]

WriteLine(mem, base, data) ==
    [a \in Addrs |-> IF a - base \in Offsets THEN data[a - base] ELSE mem[a]]
-----------------------------------------------------------------------------
(***************************************************************************)
(* Lookup and replacement.                                                 *)
(***************************************************************************)
IsFirst(w, W) == w \in W /\ \A v \in W : w <= v

\* Faulty variant: the search stops one way short.
WaysHoldingButLast(a) ==
    {w \in WayIds : w # Ways - 1 /\ lines[SetIdx(a)][w].valid
                    /\ lines[SetIdx(a)][w].tag = Tag(a)}

WaysHolding(a) ==
    {w \in WayIds : lines[SetIdx(a)][w].valid /\ lines[SetIdx(a)][w].tag = Tag(a)}

InvalidWays(s) == {w \in WayIds : ~lines[s][w].valid}

Victims(s) ==
    CASE Replacement = "lru"    -> {lru[s][Ways]}
      [] Replacement = "fifo"   -> {fifo[s][Ways]}
      [] Replacement = "random" -> WayIds

\* The way _allocate_line settles on.
IsAllocated(s, w) ==
    \/ IsFirst(w, InvalidWays(s))
    \/ InvalidWays(s) = {} /\ w \in Victims(s)

\* Faulty variant: inserted at the front without being removed first.
InsertAtFront(order, w) == [i \in Ranks |-> IF i = 1 THEN w ELSE order[i - 1]]

\* list.remove(way) and list.insert(0, way): the ways ahead of it move back.
MoveToFront(order, w) ==
    LET old == CHOOSE i \in Ranks : order[i] = w
    IN  [i \in Ranks |-> IF i = 1 THEN w
                         ELSE IF i <= old THEN order[i - 1] ELSE order[i]]

Touch(s, w) ==
    lru' = IF Replacement = "lru" THEN [lru EXCEPT ![s] = MoveToFront(@, w)]
           ELSE lru
-----------------------------------------------------------------------------
(***************************************************************************)
(* The pieces of an access: the line that is read or merged into, and the  *)
(* record that is returned.                                                *)
(***************************************************************************)
CrossLine(t) == Offset(t.addr) + t.size > LineBytes

LoadFrom(line, t) == [i \in Bytes(t) |-> line.data[Offset(t.addr) + i]]

\* Faulty variant: the dirty bit forgotten.
StoreIntoClean(line, t) ==
    [line EXCEPT !.data = [o \in Offsets |-> IF o - Offset(t.addr) \in t.mask
                                              THEN t.data[o - Offset(t.addr)] ELSE @[o]]]

\* Faulty variant: a write without a byte to store does not dirty the line.
StoreIntoIfMasked(line, t) ==
    [line EXCEPT
        !.dirty = @ \/ t.mask # {},
        !.data = [o \in Offsets |-> IF o - Offset(t.addr) \in t.mask
                                    THEN t.data[o - Offset(t.addr)] ELSE @[o]]]

StoreInto(line, t) ==
    [line EXCEPT
        !.dirty = TRUE,
        !.data = [o \in Offsets |-> IF o - Offset(t.addr) \in t.mask
                                    THEN t.data[o - Offset(t.addr)] ELSE @[o]]]

AfterAccess(line, t) == IF t.op = "write" THEN StoreInto(line, t) ELSE line

NoData == <<>>   \* CacheResponse.data of a write, the int 0

DataOf(line, t) == IF t.op = "read" THEN LoadFrom(line, t) ELSE NoData

Response(data, hit) ==
    [raised |-> FALSE, data |-> data, hit |-> hit,
     evicted |-> FALSE, evicted_dirty |-> FALSE,
     writeback_addr |-> None, writeback_data |-> None]

Raised == [Response(NoData, FALSE) EXCEPT !.raised = TRUE]
-----------------------------------------------------------------------------
(***************************************************************************)
(* _allocate_line into way w of set s: the victim, if dirty, goes back to  *)
(* memory before the new line is read from it.                             *)
(***************************************************************************)
Evicts(s) == InvalidWays(s) = {}
EvictsDirty(s, w) == Evicts(s) /\ lines[s][w].dirty
VictimBase(s, w) == AddrFromTagSet(lines[s][w].tag, s)

\* Faulty variant: the dirty victim is dropped.
MemoryWithoutWriteback(s, w) == memory

MemoryAfterEviction(s, w) ==
    IF EvictsDirty(s, w) THEN WriteLine(memory, VictimBase(s, w), lines[s][w].data)
    ELSE memory

FilledLine(t, w) ==
    [valid |-> TRUE, dirty |-> FALSE, tag |-> Tag(t.addr),
     data |-> ReadLine(MemoryAfterEviction(SetIdx(t.addr), w), LineBase(t.addr))]

\* Faulty variant: the writeback is reported at the address of the new line.
AllocateResponseAtNewLine(t, w, data) ==
    LET dirty == EvictsDirty(SetIdx(t.addr), w)
    IN  [Response(data, FALSE) EXCEPT
            !.evicted = Evicts(SetIdx(t.addr)),
            !.evicted_dirty = dirty,
            !.writeback_addr = IF dirty THEN LineBase(t.addr) ELSE None,
            !.writeback_data = IF dirty THEN lines[SetIdx(t.addr)][w].data ELSE None]

AllocateResponse(t, w, data) ==
    LET s == SetIdx(t.addr)
        dirty == EvictsDirty(s, w)
    IN  [Response(data, FALSE) EXCEPT
            !.evicted = Evicts(s),
            !.evicted_dirty = dirty,
            !.writeback_addr = IF dirty THEN VictimBase(s, w) ELSE None,
            !.writeback_data = IF dirty THEN lines[s][w].data ELSE None]

Allocate(t, w) ==
    LET s == SetIdx(t.addr)
    IN  /\ w \in WayIds
        /\ WaysHolding(t.addr) = {}
        /\ IsAllocated(s, w)
        /\ memory' = MemoryAfterEviction(s, w)
        /\ last_writeback' =
              IF EvictsDirty(s, w)
              THEN [addr |-> VictimBase(s, w), data |-> lines[s][w].data]
              ELSE last_writeback
        /\ fifo' = IF Replacement = "fifo" THEN [fifo EXCEPT ![s] = MoveToFront(@, w)]
                   ELSE fifo
-----------------------------------------------------------------------------
(***************************************************************************)
(* access(), one action per path through it.                               *)
(***************************************************************************)
GoesAround(t) ==
    t.op = "write" /\ ~WriteAllocate /\ WaysHolding(t.addr) = {}

UncachedAccess(t) ==
    /\ t.uncached
    /\ memory' = IF t.op = "write" THEN WriteMemory(memory, t, t.mask) ELSE memory
    /\ response' = Response(IF t.op = "read" THEN ReadMemory(memory, t) ELSE NoData,
                            FALSE)
    /\ UNCHANGED <<lines, lru, fifo, last_writeback>>

\* Faulty variant: the write around the cache ignores its mask.
WriteAroundUnmasked(t) ==
    /\ ~t.uncached
    /\ GoesAround(t)
    /\ memory' = WriteMemory(memory, t, Bytes(t))
    /\ response' = Response(NoData, FALSE)
    /\ UNCHANGED <<lines, lru, fifo, last_writeback>>

\* `txn.mask or full`: an empty mask stores every byte.
WriteAround(t) ==
    /\ ~t.uncached
    /\ GoesAround(t)
    /\ memory' = WriteMemory(memory, t, IF t.mask = {} THEN Bytes(t) ELSE t.mask)
    /\ response' = Response(NoData, FALSE)
    /\ UNCHANGED <<lines, lru, fifo, last_writeback>>

Hit(t) ==
    LET s == SetIdx(t.addr)
    IN  \E w \in WayIds :
            /\ ~t.uncached
            /\ ~CrossLine(t)
            /\ IsFirst(w, WaysHolding(t.addr))
            /\ lines' = [lines EXCEPT ![s][w] = AfterAccess(@, t)]
            /\ Touch(s, w)
            /\ response' = Response(DataOf(lines[s][w], t), TRUE)
            /\ UNCHANGED <<fifo, memory, last_writeback>>

Miss(t) ==
    LET s == SetIdx(t.addr)
    IN  \E w \in WayIds :
            /\ ~t.uncached
            /\ ~CrossLine(t)
            /\ ~GoesAround(t)
            /\ Allocate(t, w)
            /\ lines' = [lines EXCEPT ![s][w] = AfterAccess(FilledLine(t, w), t)]
            /\ Touch(s, w)
            /\ response' = AllocateResponse(t, w, DataOf(FilledLine(t, w), t))

RejectHit(t) ==
    /\ ~t.uncached
    /\ CrossLine(t)
    /\ WaysHolding(t.addr) # {}
    /\ response' = Raised
    /\ UNCHANGED <<lines, lru, fifo, memory, last_writeback>>

\* The ValueError leaves the eviction and the fill behind it, untouched by _touch.
RejectMiss(t) ==
    LET s == SetIdx(t.addr)
    IN  \E w \in WayIds :
            /\ ~t.uncached
            /\ CrossLine(t)
            /\ ~GoesAround(t)
            /\ Allocate(t, w)
            /\ lines' = [lines EXCEPT ![s][w] = FilledLine(t, w)]
            /\ response' = Raised
            /\ UNCHANGED lru

Access(t) ==
    \/ UncachedAccess(t)
    \/ WriteAround(t)
    \/ Hit(t)
    \/ Miss(t)
    \/ RejectHit(t)
    \/ RejectMiss(t)

\* Faulty variant: range(1, ways + 1).
OrderFromOne == [s \in SetIds |-> [i \in Ranks |-> i]]

InitialOrder == [s \in SetIds |-> [i \in Ranks |-> i - 1]]

\* reset(): every line invalid, its dirty data lost; memory and line data stay.
Reset ==
    /\ lines' = [s \in SetIds |-> [w \in WayIds |->
                    [lines[s][w] EXCEPT !.valid = FALSE, !.dirty = FALSE, !.tag = 0]]]
    /\ lru' = InitialOrder
    /\ fifo' = InitialOrder
    /\ last_writeback' = None
    /\ response' = Response(NoData, FALSE)
    /\ UNCHANGED memory

Init ==
    /\ lines = [s \in SetIds |-> [w \in WayIds |->
                  [valid |-> FALSE, dirty |-> FALSE, tag |-> 0,
                   data |-> [o \in Offsets |-> 0]]]]
    /\ lru = InitialOrder
    /\ fifo = InitialOrder
    /\ memory = [a \in Addrs |-> 0]
    /\ last_writeback = None
    /\ response = Response(NoData, FALSE)

Next ==
    \/ \E t \in Txns : Access(t)
    \/ Reset

Spec == Init /\ [][Next]_vars
=============================================================================
