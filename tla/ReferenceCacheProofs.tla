------------------------ MODULE ReferenceCacheProofs ------------------------
(***************************************************************************)
(* ReferenceCache for every geometry, policy and stream.                   *)
(***************************************************************************)
EXTENDS ReferenceCacheProperties, TLAPS

-----------------------------------------------------------------------------
(***************************************************************************)
(* Splitting an address into tag, set and offset loses nothing, and the    *)
(* address rebuilt for a writeback is the address the line was filled      *)
(* from.  What follows uses only the two theorems, never the arithmetic    *)
(* under them.                                                             *)
(***************************************************************************)
LEMMA DivModOfSum ==
    ASSUME NEW d \in Nat \ {0}, NEW q \in Nat, NEW r \in 0 .. d - 1
    PROVE  /\ (q * d + r) \div d = q
           /\ (q * d + r) % d = r
  BY SMTT(30)

LEMMA DivModSplit ==
    ASSUME NEW d \in Nat \ {0}, NEW a \in Nat
    PROVE  /\ a \div d \in Nat
           /\ a % d \in 0 .. d - 1
           /\ a = (a \div d) * d + (a % d)
  BY SMTT(30)

(***************************************************************************)
(* Every address is the byte at its own offset of its own line, and that   *)
(* line is the one that its tag and its set name (_line_base, _set_idx,    *)
(* _tag against _addr_from_tag_set).                                       *)
(***************************************************************************)
THEOREM AddressSplit ==
    ASSUME NEW a \in Nat
    PROVE  /\ SetIdx(a) \in SetIds
           /\ Tag(a) \in Nat
           /\ Offset(a) \in Offsets
           /\ LineBase(a) \in Nat
           /\ a = LineBase(a) + Offset(a)
           /\ AddrFromTagSet(Tag(a), SetIdx(a)) = LineBase(a)
  <1> DEFINE n == a \div LineBytes
             r == a % LineBytes
  <1>1. n \in Nat /\ r \in Offsets /\ a = n * LineBytes + r
    BY DivModSplit, LineBytesAssumption DEF Offsets
  <1>2. /\ n \div Sets \in Nat
        /\ n % Sets \in SetIds
        /\ n = (n \div Sets) * Sets + (n % Sets)
    BY <1>1, DivModSplit, SetsAssumption DEF SetIds
  <1>3. n * LineBytes \in Nat
    BY <1>1, LineBytesAssumption
  <1>4. LineBase(a) = n * LineBytes /\ Offset(a) = r
    BY <1>1, <1>3, LineBytesAssumption DEF LineBase, Offset, Offsets
  <1> QED
    BY <1>1, <1>2, <1>3, <1>4 DEF SetIdx, Tag, AddrFromTagSet

(***************************************************************************)
(* The byte at an offset of the line named by a tag and a set splits back  *)
(* into exactly that tag, set and offset: two different lines of the cache *)
(* never stand for the same address.                                       *)
(***************************************************************************)
THEOREM LineAddressSplit ==
    ASSUME NEW tag \in Nat, NEW s \in SetIds, NEW o \in Offsets
    PROVE  /\ AddrFromTagSet(tag, s) \in Nat
           /\ AddrFromTagSet(tag, s) + o \in Nat
           /\ Tag(AddrFromTagSet(tag, s) + o) = tag
           /\ SetIdx(AddrFromTagSet(tag, s) + o) = s
           /\ Offset(AddrFromTagSet(tag, s) + o) = o
           /\ LineBase(AddrFromTagSet(tag, s) + o) = AddrFromTagSet(tag, s)
  <1> DEFINE n == tag * Sets + s
             a == n * LineBytes + o
  <1>1. n \in Nat /\ n \div Sets = tag /\ n % Sets = s
    BY DivModOfSum, SetsAssumption DEF SetIds
  <1>2. n * LineBytes \in Nat
    BY <1>1, LineBytesAssumption
  <1>3. a \in Nat /\ a \div LineBytes = n /\ a % LineBytes = o
    <2>1. o \in 0 .. LineBytes - 1 /\ n \in Nat /\ LineBytes \in Nat \ {0}
      BY <1>1, LineBytesAssumption DEF Offsets
    <2>2. a \div LineBytes = n /\ a % LineBytes = o
      BY <2>1, DivModOfSum
    <2>3. \A m \in Nat : m + o \in Nat
      BY <2>1
    <2> QED
      BY <2>2, <2>3, <1>2
  <1>4. AddrFromTagSet(tag, s) = n * LineBytes /\ AddrFromTagSet(tag, s) + o = a
    BY DEF AddrFromTagSet
  <1>5. LineBase(a) = n * LineBytes /\ Offset(a) = o
    BY <1>2, <1>3 DEF LineBase, Offset, Offsets
  <1> QED
    BY <1>1, <1>2, <1>3, <1>4, <1>5 DEF Tag, SetIdx

(***************************************************************************)
(* Lines as sets of addresses.                                             *)
(***************************************************************************)
SameLine(a, b) == SetIdx(a) = SetIdx(b) /\ Tag(a) = Tag(b)

LEMMA SameLineSameBase ==
    ASSUME NEW a \in Nat, NEW b \in Nat
    PROVE  SameLine(a, b) <=> LineBase(a) = LineBase(b)
  <1>1. /\ AddrFromTagSet(Tag(a), SetIdx(a)) = LineBase(a)
        /\ AddrFromTagSet(Tag(b), SetIdx(b)) = LineBase(b)
        /\ Tag(a) \in Nat /\ Tag(b) \in Nat
        /\ SetIdx(a) \in SetIds /\ SetIdx(b) \in SetIds
    BY AddressSplit
  <1>2. 0 \in Offsets
    BY LineBytesAssumption DEF Offsets
  <1>3. /\ Tag(LineBase(a) + 0) = Tag(a) /\ SetIdx(LineBase(a) + 0) = SetIdx(a)
        /\ Tag(LineBase(b) + 0) = Tag(b) /\ SetIdx(LineBase(b) + 0) = SetIdx(b)
    BY <1>1, <1>2, LineAddressSplit
  <1> QED
    BY <1>1, <1>3 DEF SameLine

LEMMA AddressesOfLine ==
    ASSUME NEW a \in Nat, NEW tag \in Nat, NEW s \in SetIds
    PROVE  LET base == AddrFromTagSet(tag, s)
           IN  /\ a - base \in Offsets <=> SetIdx(a) = s /\ Tag(a) = tag
               /\ a - base \in Offsets <=> LineBase(a) = base
               /\ a - base \in Offsets => a - base = Offset(a)
  <1> DEFINE base == AddrFromTagSet(tag, s)
  <1>1. base \in Nat /\ 0 \in Offsets
    BY LineAddressSplit, LineBytesAssumption DEF Offsets
  <1>2. /\ LineBase(a) \in Nat /\ Offset(a) \in Offsets
        /\ a = LineBase(a) + Offset(a)
        /\ LineBase(a) = AddrFromTagSet(Tag(a), SetIdx(a))
    BY AddressSplit
  <1>3. ASSUME a - base \in Offsets
        PROVE  /\ SetIdx(a) = s /\ Tag(a) = tag /\ LineBase(a) = base
               /\ a - base = Offset(a)
    <2> DEFINE o == a - base
    <2>1. /\ Tag(base + o) = tag /\ SetIdx(base + o) = s
          /\ Offset(base + o) = o /\ LineBase(base + o) = base
      BY <1>3, LineAddressSplit
    <2>2. base + o = a
      BY <1>1
    <2> QED
      BY <2>1, <2>2
  <1>4. ASSUME SetIdx(a) = s, Tag(a) = tag
        PROVE  LineBase(a) = base
    BY <1>2, <1>4
  <1>5. ASSUME LineBase(a) = base
        PROVE  a - base \in Offsets
    <2>1. \A x, y \in Nat : (x + y) - x = y
      OBVIOUS
    <2>2. Offset(a) \in Nat
      BY <1>2 DEF Offsets
    <2> QED
      BY <1>2, <1>5, <2>1, <2>2
  <1> QED
    BY <1>3, <1>4, <1>5

LEMMA ByteWithinLine ==
    ASSUME NEW a \in Nat, NEW i \in Nat, Offset(a) + i < LineBytes
    PROVE  /\ SameLine(a + i, a)
           /\ Offset(a + i) = Offset(a) + i
           /\ Offset(a) + i \in Offsets
  <1>1. /\ LineBase(a) \in Nat /\ Offset(a) \in Offsets
        /\ a = LineBase(a) + Offset(a)
        /\ LineBase(a) = AddrFromTagSet(Tag(a), SetIdx(a))
        /\ Tag(a) \in Nat /\ SetIdx(a) \in SetIds
    BY AddressSplit
  <1>2. Offset(a) + i \in Offsets
    BY <1>1, LineBytesAssumption DEF Offsets
  <1>3. a + i = LineBase(a) + (Offset(a) + i)
    <2>1. Offset(a) \in Nat
      BY <1>1 DEF Offsets
    <2>2. \A x, y, z \in Nat : (x + y) + z = x + (y + z)
      OBVIOUS
    <2> QED
      BY <1>1, <2>1, <2>2
  <1> QED
    BY <1>1, <1>2, <1>3, LineAddressSplit DEF SameLine

-----------------------------------------------------------------------------
(***************************************************************************)
(* The helpers.                                                            *)
(***************************************************************************)
LEMMA ZeroIsOffset == 0 \in Offsets
  BY LineBytesAssumption DEF Offsets

\* A transaction's address, its line and its bytes are addresses of the model.
LEMMA TxnAddresses ==
    ASSUME NEW t \in Txns
    PROVE  /\ t.addr \in Nat
           /\ t.addr \in Addrs
           /\ SetIdx(t.addr) \in SetIds
           /\ Tag(t.addr) \in Nat
           /\ LineBase(t.addr) \in Addrs
           /\ \A o \in Offsets : LineBase(t.addr) + o \in Addrs
           /\ AddrFromTagSet(Tag(t.addr), SetIdx(t.addr)) = LineBase(t.addr)
  <1>1. IsCacheTxn(t)
    BY TxnsAssumption
  <1>2. t.addr \in Nat /\ 0 \in Bytes(t)
    BY <1>1 DEF IsCacheTxn, Bytes
  <1>3. t.addr + 0 \in Addrs
    BY <1>1, <1>2 DEF IsCacheTxn
  <1>4. t.addr \in Addrs
    BY <1>2, <1>3
  <1>5. /\ SetIdx(t.addr) \in SetIds /\ Tag(t.addr) \in Nat
        /\ LineBase(t.addr) \in Nat
        /\ AddrFromTagSet(Tag(t.addr), SetIdx(t.addr)) = LineBase(t.addr)
    BY <1>2, AddressSplit
  <1>6. \A o \in Offsets : LineBase(t.addr) + o \in Addrs
    BY <1>4, AddrsAssumption
  <1>7. LineBase(t.addr) + 0 \in Addrs
    BY <1>6, ZeroIsOffset
  <1> QED
    BY <1>2, <1>4, <1>5, <1>6, <1>7

LEMMA MoveToFrontType ==
    ASSUME NEW order \in [Ranks -> WayIds], NEW w \in WayIds
    PROVE  MoveToFront(order, w) \in [Ranks -> WayIds]
  <1>1. \A i \in Ranks : i # 1 => i - 1 \in Ranks
    BY WaysAssumption DEF Ranks
  <1> QED
    BY <1>1 DEF MoveToFront

\* A list that names every way still does after one of them moved to the front.
LEMMA MoveToFrontKeepsAll ==
    ASSUME NEW order \in [Ranks -> WayIds], NEW w \in WayIds,
           \A v \in WayIds : \E i \in Ranks : order[i] = v
    PROVE  \A v \in WayIds : \E i \in Ranks : MoveToFront(order, w)[i] = v
  <1> DEFINE old == CHOOSE i \in Ranks : order[i] = w
             new == MoveToFront(order, w)
  <1>1. old \in Ranks /\ order[old] = w
    OBVIOUS
  <1>2. \A i \in Ranks : new[i] = IF i = 1 THEN w
                                  ELSE IF i <= old THEN order[i - 1] ELSE order[i]
    BY DEF MoveToFront
  <1> SUFFICES ASSUME NEW v \in WayIds
               PROVE  \E i \in Ranks : new[i] = v
    OBVIOUS
  <1>3. PICK k \in Ranks : order[k] = v
    OBVIOUS
  <1> HIDE DEF old, new
  <1>4. CASE v = w
    <2>1. 1 \in Ranks
      BY WaysAssumption DEF Ranks
    <2> QED
      BY <2>1, <1>2, <1>4
  <1>5. CASE v # w /\ k < old
    <2>1. k + 1 \in Ranks /\ k + 1 # 1 /\ k + 1 <= old /\ (k + 1) - 1 = k
      BY <1>1, <1>5, WaysAssumption DEF Ranks
    <2>2. new[k + 1] = order[k]
      BY <1>2, <2>1
    <2> QED
      BY <1>3, <2>1, <2>2
  <1>6. CASE v # w /\ ~(k < old)
    <2>1. k # old
      BY <1>1, <1>3, <1>6
    <2>2. k # 1 /\ ~(k <= old)
      BY <1>1, <1>6, <2>1 DEF Ranks
    <2> QED
      BY <1>2, <1>3, <2>2
  <1> QED
    BY <1>4, <1>5, <1>6
-----------------------------------------------------------------------------
(***************************************************************************)
(* Types of what the operations compute.                                   *)
(***************************************************************************)
LEMMA TxnType ==
    ASSUME NEW t \in Txns
    PROVE  /\ t.op \in {"read", "write"}
           /\ t.addr \in Nat
           /\ t.size \in {1, 2, 4, 8}
           /\ t.data \in [Bytes(t) -> Byte]
           /\ t.mask \subseteq Bytes(t)
           /\ t.uncached \in BOOLEAN
           /\ \A i \in Bytes(t) : t.addr + i \in Addrs
  BY TxnsAssumption DEF IsCacheTxn

LEMMA MemoryTypes ==
    ASSUME NEW mem \in [Addrs -> Byte], NEW t \in Txns
    PROVE  /\ ReadMemory(mem, t) \in Data
           /\ ReadLine(mem, LineBase(t.addr)) \in [Offsets -> Byte]
           /\ \A mask \in SUBSET Bytes(t) : WriteMemory(mem, t, mask) \in [Addrs -> Byte]
           /\ \A base, data : data \in [Offsets -> Byte] =>
                 WriteLine(mem, base, data) \in [Addrs -> Byte]
  <1>1. ReadMemory(mem, t) \in [Bytes(t) -> Byte]
    BY TxnType DEF ReadMemory
  <1>2. [Bytes(t) -> Byte] \subseteq Data
    BY TxnType DEF Data, Bytes
  <1>3. ReadLine(mem, LineBase(t.addr)) \in [Offsets -> Byte]
    BY TxnAddresses DEF ReadLine
  <1>4. \A mask \in SUBSET Bytes(t) : WriteMemory(mem, t, mask) \in [Addrs -> Byte]
    BY TxnType DEF WriteMemory
  <1>5. \A base, data : data \in [Offsets -> Byte] =>
            WriteLine(mem, base, data) \in [Addrs -> Byte]
    BY DEF WriteLine
  <1> QED
    BY <1>1, <1>2, <1>3, <1>4, <1>5

LEMMA AfterAccessType ==
    ASSUME NEW line \in CacheLine, NEW t \in Txns
    PROVE  /\ AfterAccess(line, t) \in CacheLine
           /\ AfterAccess(line, t).valid = line.valid
           /\ AfterAccess(line, t).tag = line.tag
  <1>1. StoreInto(line, t) \in CacheLine
    BY TxnType DEF StoreInto, CacheLine
  <1>2. StoreInto(line, t).valid = line.valid /\ StoreInto(line, t).tag = line.tag
    BY DEF StoreInto, CacheLine
  <1> QED
    BY <1>1, <1>2 DEF AfterAccess

LEMMA DataOfType ==
    ASSUME NEW line \in CacheLine, NEW t \in Txns, ~CrossLine(t)
    PROVE  DataOf(line, t) \in Data
  <1>1. Offset(t.addr) \in Offsets
    BY TxnType, AddressSplit
  <1>2. \A i \in Bytes(t) : Offset(t.addr) + i \in Offsets
    BY <1>1, TxnType, LineBytesAssumption DEF Bytes, CrossLine, Offsets
  <1>3. LoadFrom(line, t) \in [Bytes(t) -> Byte]
    BY <1>2 DEF LoadFrom, CacheLine
  <1>4. [Bytes(t) -> Byte] \subseteq Data
    BY TxnType DEF Data, Bytes
  <1> QED
    BY <1>3, <1>4 DEF DataOf, Data

LEMMA ResponseType ==
    /\ \A data \in Data, hit \in BOOLEAN : Response(data, hit) \in CacheResponse
    /\ NoData \in Data
    /\ Raised \in CacheResponse
  BY DEF Response, Raised, CacheResponse, Data
-----------------------------------------------------------------------------
(***************************************************************************)
(* The state invariant that holds of every stream.  TypeOK is not          *)
(* inductive alone: that a written-back line has an address of the model   *)
(* rests on the line having been brought in by an access.                  *)
(***************************************************************************)
CacheInv ==
    /\ TypeOK
    /\ ResidentWasAccessed
    /\ NoDuplicateTag
    /\ ListsArePermutations

LEMMA VictimAddress ==
    ASSUME ResidentWasAccessed, NEW s \in SetIds, NEW w \in WayIds, lines[s][w].valid
    PROVE  VictimBase(s, w) \in Addrs
  <1>1. PICK t \in Txns : SetIdx(t.addr) = s /\ Tag(t.addr) = lines[s][w].tag
    BY DEF ResidentWasAccessed
  <1>2. VictimBase(s, w) = LineBase(t.addr) /\ LineBase(t.addr) \in Addrs
    BY <1>1, TxnAddresses DEF VictimBase
  <1> QED
    BY <1>2

(***************************************************************************)
(* An access under any replacement policy and either write policy: any way *)
(* may be the victim of a full set, either list may or may not be moved,   *)
(* and a write that misses may go around the cache or allocate.  Nothing   *)
(* below depends on more, so that it holds of one cache under several      *)
(* policies, too, which is how RegressionSuite uses ref.                   *)
(***************************************************************************)
AnyTouch(s, w) == lru' = lru \/ lru' = [lru EXCEPT ![s] = MoveToFront(@, w)]

AnyAllocate(t, w) ==
    LET s == SetIdx(t.addr)
    IN  /\ w \in WayIds
        /\ WaysHolding(t.addr) = {}
        /\ IsFirst(w, InvalidWays(s)) \/ InvalidWays(s) = {}
        /\ memory' = MemoryAfterEviction(s, w)
        /\ last_writeback' =
              IF EvictsDirty(s, w)
              THEN [addr |-> VictimBase(s, w), data |-> lines[s][w].data]
              ELSE last_writeback
        /\ fifo' = fifo \/ fifo' = [fifo EXCEPT ![s] = MoveToFront(@, w)]

AnyWriteAround(t) ==
    /\ ~t.uncached
    /\ t.op = "write"
    /\ WaysHolding(t.addr) = {}
    /\ memory' = WriteMemory(memory, t, IF t.mask = {} THEN Bytes(t) ELSE t.mask)
    /\ response' = Response(NoData, FALSE)
    /\ UNCHANGED <<lines, lru, fifo, last_writeback>>

AnyHit(t) ==
    LET s == SetIdx(t.addr)
    IN  \E w \in WayIds :
            /\ ~t.uncached
            /\ ~CrossLine(t)
            /\ IsFirst(w, WaysHolding(t.addr))
            /\ lines' = [lines EXCEPT ![s][w] = AfterAccess(@, t)]
            /\ AnyTouch(s, w)
            /\ response' = Response(DataOf(lines[s][w], t), TRUE)
            /\ UNCHANGED <<fifo, memory, last_writeback>>

AnyMiss(t) ==
    LET s == SetIdx(t.addr)
    IN  \E w \in WayIds :
            /\ ~t.uncached
            /\ ~CrossLine(t)
            /\ AnyAllocate(t, w)
            /\ lines' = [lines EXCEPT ![s][w] = AfterAccess(FilledLine(t, w), t)]
            /\ AnyTouch(s, w)
            /\ response' = AllocateResponse(t, w, DataOf(FilledLine(t, w), t))

AnyRejectMiss(t) ==
    LET s == SetIdx(t.addr)
    IN  \E w \in WayIds :
            /\ ~t.uncached
            /\ CrossLine(t)
            /\ AnyAllocate(t, w)
            /\ lines' = [lines EXCEPT ![s][w] = FilledLine(t, w)]
            /\ response' = Raised
            /\ UNCHANGED lru

AnyAccess(t) ==
    \/ UncachedAccess(t)
    \/ AnyWriteAround(t)
    \/ AnyHit(t)
    \/ AnyMiss(t)
    \/ RejectHit(t)
    \/ AnyRejectMiss(t)

LEMMA AllocateIsAny ==
    ASSUME NEW t, NEW w, Allocate(t, w)
    PROVE  AnyAllocate(t, w)
  BY DEF Allocate, AnyAllocate, IsAllocated

LEMMA PathIsAny ==
    ASSUME NEW t
    PROVE  /\ WriteAround(t) => AnyWriteAround(t)
           /\ Hit(t) => AnyHit(t)
           /\ Miss(t) => AnyMiss(t)
           /\ RejectMiss(t) => AnyRejectMiss(t)
  <1>1. \A s, w : Touch(s, w) => AnyTouch(s, w)
    BY DEF Touch, AnyTouch
  <1>2. WriteAround(t) => AnyWriteAround(t)
    BY DEF WriteAround, AnyWriteAround, GoesAround
  <1>3. Hit(t) => AnyHit(t)
    BY <1>1 DEF Hit, AnyHit
  <1>4. Miss(t) => AnyMiss(t)
    BY <1>1, AllocateIsAny DEF Miss, AnyMiss
  <1>5. RejectMiss(t) => AnyRejectMiss(t)
    BY AllocateIsAny DEF RejectMiss, AnyRejectMiss
  <1> QED
    BY <1>2, <1>3, <1>4, <1>5

LEMMA AccessIsAny ==
    ASSUME NEW t, Access(t)
    PROVE  AnyAccess(t)
  BY PathIsAny DEF Access, AnyAccess

LEMMA AllocateType ==
    ASSUME TypeOK, ResidentWasAccessed,
           NEW t \in Txns, NEW w \in WayIds, AnyAllocate(t, w)
    PROVE  /\ memory' \in [Addrs -> Byte]
           /\ fifo' \in [SetIds -> [Ranks -> WayIds]]
           /\ \/ last_writeback' = None
              \/ last_writeback' \in [addr : Addrs, data : [Offsets -> Byte]]
           /\ FilledLine(t, w) \in CacheLine
           /\ \A data \in Data : AllocateResponse(t, w, data) \in CacheResponse
  <1> DEFINE s == SetIdx(t.addr)
  <1>1. s \in SetIds /\ Tag(t.addr) \in Nat
    BY TxnAddresses
  <1>2. lines[s][w] \in CacheLine
    BY <1>1 DEF TypeOK
  <1>3. lines[s][w].data \in [Offsets -> Byte]
    BY <1>2 DEF CacheLine
  <1>4. EvictsDirty(s, w) => VictimBase(s, w) \in Addrs
    BY <1>1, VictimAddress DEF EvictsDirty, Evicts, InvalidWays
  <1>5. MemoryAfterEviction(s, w) \in [Addrs -> Byte]
    BY <1>3, MemoryTypes DEF MemoryAfterEviction, TypeOK
  <1>6. memory' \in [Addrs -> Byte]
    BY <1>5 DEF AnyAllocate
  <1>7. fifo' \in [SetIds -> [Ranks -> WayIds]]
    <2>1. fifo[s] \in [Ranks -> WayIds] /\ fifo \in [SetIds -> [Ranks -> WayIds]]
      BY <1>1 DEF TypeOK
    <2>2. MoveToFront(fifo[s], w) \in [Ranks -> WayIds]
      BY <2>1, MoveToFrontType
    <2>3. fifo' = fifo \/ fifo' = [fifo EXCEPT ![s] = MoveToFront(fifo[s], w)]
      BY DEF AnyAllocate
    <2> QED
      BY <1>1, <2>1, <2>2, <2>3
  <1>8. \/ last_writeback' = None
        \/ last_writeback' \in [addr : Addrs, data : [Offsets -> Byte]]
    BY <1>3, <1>4 DEF AnyAllocate, TypeOK
  <1>9. FilledLine(t, w) \in CacheLine
    BY <1>1, <1>5, MemoryTypes DEF FilledLine, CacheLine
  <1>10. ASSUME NEW data \in Data
         PROVE  AllocateResponse(t, w, data) \in CacheResponse
    <2>1. EvictsDirty(s, w) \in BOOLEAN /\ Evicts(s) \in BOOLEAN
      BY <1>2 DEF EvictsDirty, Evicts, CacheLine
    <2>2. Response(data, FALSE) \in CacheResponse
      BY ResponseType
    <2> QED
      BY <1>3, <1>4, <2>1, <2>2 DEF AllocateResponse, CacheResponse
  <1> QED
    BY <1>6, <1>7, <1>8, <1>9, <1>10

LEMMA InitInv == Init => CacheInv
  <1> SUFFICES ASSUME Init PROVE CacheInv
    OBVIOUS
  <1>1. InitialOrder \in [SetIds -> [Ranks -> WayIds]]
    BY WaysAssumption DEF InitialOrder, Ranks, WayIds
  <1>2. TypeOK
    BY <1>1, ByteAssumption, ResponseType DEF Init, TypeOK, CacheLine
  <1>3. ASSUME NEW s \in SetIds, NEW w \in WayIds
        PROVE  \E i \in Ranks : InitialOrder[s][i] = w
    <2>1. w + 1 \in Ranks /\ (w + 1) - 1 = w
      BY WaysAssumption DEF WayIds, Ranks
    <2> QED
      BY <2>1 DEF InitialOrder
  <1>4. ListsArePermutations
    BY <1>3 DEF Init, ListsArePermutations
  <1>5. ResidentWasAccessed /\ NoDuplicateTag
    BY DEF Init, ResidentWasAccessed, NoDuplicateTag
  <1> QED
    BY <1>2, <1>4, <1>5 DEF CacheInv
-----------------------------------------------------------------------------
(***************************************************************************)
(* How an access may change the lines: not at all, or one way of its set,  *)
(* which then holds its tag, when no other way does.                       *)
(***************************************************************************)
OneWayChanges(t) ==
    \/ lines' = lines
    \/ \E w \in WayIds, line \in CacheLine :
          /\ ~t.uncached
          /\ WaysHolding(t.addr) \subseteq {w}
          /\ line.valid
          /\ line.tag = Tag(t.addr)
          /\ lines' = [lines EXCEPT ![SetIdx(t.addr)][w] = line]

LEMMA AccessChangesOneWay ==
    ASSUME CacheInv, NEW t \in Txns, AnyAccess(t)
    PROVE  OneWayChanges(t)
  <1> DEFINE s == SetIdx(t.addr)
  <1>1. s \in SetIds /\ Tag(t.addr) \in Nat
    BY TxnAddresses
  <1>2. CASE UncachedAccess(t) \/ AnyWriteAround(t) \/ RejectHit(t)
    BY <1>2 DEF UncachedAccess, AnyWriteAround, RejectHit, OneWayChanges
  <1>3. CASE AnyHit(t)
    <2>1. PICK w \in WayIds :
            /\ ~t.uncached
            /\ w \in WaysHolding(t.addr)
            /\ lines' = [lines EXCEPT ![s][w] = AfterAccess(@, t)]
      BY <1>3 DEF AnyHit, IsFirst
    <2>2. lines[s][w] \in CacheLine /\ lines[s][w].valid /\ lines[s][w].tag = Tag(t.addr)
      BY <1>1, <2>1 DEF CacheInv, TypeOK, WaysHolding
    <2>3. WaysHolding(t.addr) \subseteq {w}
      BY <1>1, <2>2 DEF CacheInv, NoDuplicateTag, WaysHolding
    <2>4. /\ AfterAccess(lines[s][w], t) \in CacheLine
          /\ AfterAccess(lines[s][w], t).valid
          /\ AfterAccess(lines[s][w], t).tag = Tag(t.addr)
      BY <2>2, AfterAccessType
    <2>5. lines' = [lines EXCEPT ![s][w] = AfterAccess(lines[s][w], t)]
      BY <1>1, <2>1 DEF CacheInv, TypeOK
    <2> QED
      BY <2>1, <2>3, <2>4, <2>5 DEF OneWayChanges
  <1>4. CASE AnyMiss(t)
    <2>1. PICK w \in WayIds :
            /\ ~t.uncached
            /\ AnyAllocate(t, w)
            /\ lines' = [lines EXCEPT ![s][w] = AfterAccess(FilledLine(t, w), t)]
      BY <1>4 DEF AnyMiss
    <2>2. FilledLine(t, w) \in CacheLine /\ WaysHolding(t.addr) = {}
      BY <2>1, AllocateType DEF CacheInv, AnyAllocate
    <2>3. FilledLine(t, w).valid /\ FilledLine(t, w).tag = Tag(t.addr)
      BY DEF FilledLine
    <2> QED
      BY <2>1, <2>2, <2>3, AfterAccessType DEF OneWayChanges
  <1>5. CASE AnyRejectMiss(t)
    <2>1. PICK w \in WayIds :
            /\ ~t.uncached
            /\ AnyAllocate(t, w)
            /\ lines' = [lines EXCEPT ![s][w] = FilledLine(t, w)]
      BY <1>5 DEF AnyRejectMiss
    <2>2. FilledLine(t, w) \in CacheLine /\ WaysHolding(t.addr) = {}
      BY <2>1, AllocateType DEF CacheInv, AnyAllocate
    <2>3. FilledLine(t, w).valid /\ FilledLine(t, w).tag = Tag(t.addr)
      BY DEF FilledLine
    <2> QED
      BY <2>1, <2>2, <2>3 DEF OneWayChanges
  <1> QED
    BY <1>2, <1>3, <1>4, <1>5 DEF AnyAccess

LEMMA OneWayKeepsLines ==
    ASSUME CacheInv, NEW t \in Txns, OneWayChanges(t)
    PROVE  /\ lines' \in [SetIds -> [WayIds -> CacheLine]]
           /\ ResidentWasAccessed'
           /\ NoDuplicateTag'
  <1> DEFINE s == SetIdx(t.addr)
  <1>1. s \in SetIds /\ lines \in [SetIds -> [WayIds -> CacheLine]]
    BY TxnAddresses DEF CacheInv, TypeOK
  <1>2. CASE lines' = lines
    BY <1>1, <1>2 DEF CacheInv, ResidentWasAccessed, NoDuplicateTag
  <1>3. CASE lines' # lines
    <2>1. PICK w \in WayIds, line \in CacheLine :
            /\ ~t.uncached
            /\ WaysHolding(t.addr) \subseteq {w}
            /\ line.valid
            /\ line.tag = Tag(t.addr)
            /\ lines' = [lines EXCEPT ![s][w] = line]
      BY <1>3 DEF OneWayChanges
    <2>2. lines' \in [SetIds -> [WayIds -> CacheLine]]
      BY <1>1, <2>1
    <2>3. \A r \in SetIds : \A v \in WayIds :
             lines'[r][v] = IF r = s /\ v = w THEN line ELSE lines[r][v]
      BY <1>1, <2>1
    <2>4. ResidentWasAccessed'
      BY <2>1, <2>3 DEF CacheInv, ResidentWasAccessed
    <2>5. \A v \in WayIds : lines[s][v].valid /\ lines[s][v].tag = line.tag => v = w
      BY <2>1 DEF WaysHolding
    <2>6. NoDuplicateTag'
      BY <2>3, <2>5 DEF CacheInv, NoDuplicateTag
    <2> QED
      BY <2>2, <2>4, <2>6
  <1> QED
    BY <1>2, <1>3

LEMMA TouchType ==
    ASSUME CacheInv, NEW s \in SetIds, NEW w \in WayIds, AnyTouch(s, w)
    PROVE  /\ lru' \in [SetIds -> [Ranks -> WayIds]]
           /\ \A r \in SetIds, v \in WayIds : \E i \in Ranks : lru'[r][i] = v
  <1>1. lru[s] \in [Ranks -> WayIds] /\ lru \in [SetIds -> [Ranks -> WayIds]]
    BY DEF CacheInv, TypeOK
  <1>2. \A r \in SetIds, v \in WayIds : \E i \in Ranks : lru[r][i] = v
    BY DEF CacheInv, ListsArePermutations
  <1>3. MoveToFront(lru[s], w) \in [Ranks -> WayIds]
    BY <1>1, MoveToFrontType
  <1>4. \A v \in WayIds : \E i \in Ranks : MoveToFront(lru[s], w)[i] = v
    BY <1>1, <1>2, MoveToFrontKeepsAll
  <1>5. lru' = lru \/ lru' = [lru EXCEPT ![s] = MoveToFront(lru[s], w)]
    BY DEF AnyTouch
  <1>6. CASE lru' = lru
    BY <1>1, <1>2, <1>6
  <1>7. CASE lru' = [lru EXCEPT ![s] = MoveToFront(lru[s], w)]
    BY <1>1, <1>2, <1>3, <1>4, <1>7
  <1> QED
    BY <1>5, <1>6, <1>7

LEMMA AllocateKeepsFifo ==
    ASSUME CacheInv, NEW t \in Txns, NEW w \in WayIds, AnyAllocate(t, w)
    PROVE  \A r \in SetIds, v \in WayIds : \E i \in Ranks : fifo'[r][i] = v
  <1> DEFINE s == SetIdx(t.addr)
  <1>1. /\ s \in SetIds /\ fifo[s] \in [Ranks -> WayIds]
        /\ fifo \in [SetIds -> [Ranks -> WayIds]]
    BY TxnAddresses DEF CacheInv, TypeOK
  <1>2. \A r \in SetIds, v \in WayIds : \E i \in Ranks : fifo[r][i] = v
    BY DEF CacheInv, ListsArePermutations
  <1>3. \A v \in WayIds : \E i \in Ranks : MoveToFront(fifo[s], w)[i] = v
    BY <1>1, <1>2, MoveToFrontKeepsAll
  <1>4. fifo' = fifo \/ fifo' = [fifo EXCEPT ![s] = MoveToFront(fifo[s], w)]
    BY DEF AnyAllocate
  <1> QED
    BY <1>1, <1>2, <1>3, <1>4

LEMMA AnyAccessKeepsInv ==
    ASSUME CacheInv, NEW t \in Txns, AnyAccess(t)
    PROVE  CacheInv'
  <1> DEFINE s == SetIdx(t.addr)
             Others == /\ memory' \in [Addrs -> Byte]
                       /\ lru' \in [SetIds -> [Ranks -> WayIds]]
                       /\ fifo' \in [SetIds -> [Ranks -> WayIds]]
                       /\ \/ last_writeback' = None
                          \/ last_writeback' \in [addr : Addrs, data : [Offsets -> Byte]]
                       /\ response' \in CacheResponse
                       /\ ListsArePermutations'
  <1>1. s \in SetIds /\ TypeOK /\ ResidentWasAccessed /\ ListsArePermutations
    BY TxnAddresses DEF CacheInv
  <1>2. ASSUME UncachedAccess(t) PROVE Others
    <2>1. memory' \in [Addrs -> Byte]
      BY <1>1, <1>2, MemoryTypes, TxnType DEF UncachedAccess, TypeOK
    <2>2. response' \in CacheResponse
      BY <1>1, <1>2, MemoryTypes, ResponseType DEF UncachedAccess, TypeOK
    <2>3. UNCHANGED <<lru, fifo, last_writeback>>
      BY <1>2 DEF UncachedAccess
    <2> QED
      BY <1>1, <2>1, <2>2, <2>3 DEF TypeOK, ListsArePermutations
  <1>3. ASSUME AnyWriteAround(t) PROVE Others
    <2>1. memory' \in [Addrs -> Byte]
      BY <1>1, <1>3, MemoryTypes, TxnType DEF AnyWriteAround, TypeOK
    <2>2. response' \in CacheResponse
      BY <1>3, ResponseType DEF AnyWriteAround
    <2>3. UNCHANGED <<lru, fifo, last_writeback>>
      BY <1>3 DEF AnyWriteAround
    <2> QED
      BY <1>1, <2>1, <2>2, <2>3 DEF TypeOK, ListsArePermutations
  <1>4. ASSUME AnyHit(t) PROVE Others
    <2>1. PICK w \in WayIds :
            /\ ~CrossLine(t)
            /\ AnyTouch(s, w)
            /\ response' = Response(DataOf(lines[s][w], t), TRUE)
            /\ UNCHANGED <<fifo, memory, last_writeback>>
      BY <1>4 DEF AnyHit
    <2>2. response' \in CacheResponse
      BY <1>1, <2>1, DataOfType, ResponseType DEF TypeOK
    <2> QED
      BY <1>1, <2>1, <2>2, TouchType DEF TypeOK, ListsArePermutations
  <1>5. ASSUME AnyMiss(t) PROVE Others
    <2>1. PICK w \in WayIds :
            /\ ~CrossLine(t)
            /\ AnyAllocate(t, w)
            /\ AnyTouch(s, w)
            /\ response' = AllocateResponse(t, w, DataOf(FilledLine(t, w), t))
      BY <1>5 DEF AnyMiss
    <2>2. response' \in CacheResponse
      BY <1>1, <2>1, AllocateType, DataOfType
    <2> QED
      BY <1>1, <2>1, <2>2, AllocateType, AllocateKeepsFifo, TouchType
         DEF ListsArePermutations
  <1>6. ASSUME RejectHit(t) PROVE Others
    BY <1>1, <1>6, ResponseType DEF RejectHit, TypeOK, ListsArePermutations
  <1>7. ASSUME AnyRejectMiss(t) PROVE Others
    <2>1. PICK w \in WayIds :
            /\ AnyAllocate(t, w)
            /\ response' = Raised
            /\ UNCHANGED lru
      BY <1>7 DEF AnyRejectMiss
    <2> QED
      BY <1>1, <2>1, AllocateType, AllocateKeepsFifo, ResponseType
         DEF TypeOK, ListsArePermutations
  <1>8. Others
    BY <1>2, <1>3, <1>4, <1>5, <1>6, <1>7 DEF AnyAccess
  <1>9. OneWayChanges(t)
    BY AccessChangesOneWay
  <1> QED
    BY <1>8, <1>9, OneWayKeepsLines DEF CacheInv, TypeOK

LEMMA AccessKeepsInv ==
    ASSUME CacheInv, NEW t \in Txns, Access(t)
    PROVE  CacheInv'
  BY AccessIsAny, AnyAccessKeepsInv

LEMMA ResetKeepsInv ==
    ASSUME CacheInv, Reset
    PROVE  CacheInv'
  <1>1. InitialOrder \in [SetIds -> [Ranks -> WayIds]]
    BY WaysAssumption DEF InitialOrder, Ranks, WayIds
  <1>2. \A s \in SetIds, w \in WayIds : \E i \in Ranks : InitialOrder[s][i] = w
    <2>1. \A w \in WayIds : w + 1 \in Ranks /\ (w + 1) - 1 = w
      BY WaysAssumption DEF WayIds, Ranks
    <2> QED
      BY <2>1 DEF InitialOrder
  <1> DEFINE Cleared(s, w) ==
               [lines[s][w] EXCEPT !.valid = FALSE, !.dirty = FALSE, !.tag = 0]
  <1>3. ASSUME NEW s \in SetIds, NEW w \in WayIds
        PROVE  Cleared(s, w) \in CacheLine /\ ~Cleared(s, w).valid
    <2>1. lines[s][w] \in CacheLine
      BY DEF CacheInv, TypeOK
    <2> QED
      BY <2>1 DEF CacheLine
  <1>4. lines' = [s \in SetIds |-> [w \in WayIds |-> Cleared(s, w)]]
    BY DEF Reset
  <1> HIDE DEF Cleared
  <1>5. lines' \in [SetIds -> [WayIds -> CacheLine]]
    BY <1>3, <1>4
  <1>6. \A s \in SetIds, w \in WayIds : ~lines'[s][w].valid
    BY <1>3, <1>4
  <1>7. TypeOK'
    BY <1>1, <1>5, ResponseType DEF Reset, CacheInv, TypeOK
  <1> QED
    BY <1>2, <1>6, <1>7
       DEF Reset, CacheInv, ResidentWasAccessed, NoDuplicateTag, ListsArePermutations

LEMMA NextKeepsInv == CacheInv /\ [Next]_vars => CacheInv'
  <1> SUFFICES ASSUME CacheInv, [Next]_vars PROVE CacheInv'
    OBVIOUS
  <1>1. ASSUME NEW t \in Txns, Access(t) PROVE CacheInv'
    BY <1>1, AccessKeepsInv
  <1>2. CASE Reset
    BY <1>2, ResetKeepsInv
  <1>3. CASE UNCHANGED vars
    BY <1>3 DEF vars, CacheInv, TypeOK, ResidentWasAccessed, NoDuplicateTag,
                ListsArePermutations
  <1> QED
    BY <1>1, <1>2, <1>3 DEF Next

(***************************************************************************)
(* For every number of sets and ways, line size, policy and stream: the    *)
(* cache keeps its types, never holds a line twice, and no way ever falls  *)
(* out of a replacement list.                                              *)
(***************************************************************************)
THEOREM CacheInvariant == Spec => []CacheInv
  BY InitInv, NextKeepsInv, PTL DEF Spec

THEOREM TypeCorrect == Spec => []TypeOK
  <1>1. CacheInv => TypeOK
    BY DEF CacheInv
  <1> QED
    BY <1>1, CacheInvariant, PTL

THEOREM LineIsCachedOnce == Spec => []NoDuplicateTag
  <1>1. CacheInv => NoDuplicateTag
    BY DEF CacheInv
  <1> QED
    BY <1>1, CacheInvariant, PTL

(***************************************************************************)
(* Every replacement list names every way of its set, so that no way is    *)
(* lost to the policy: _touch and _allocate_line remove a way only to put  *)
(* it in front, and an access that raises between the two moves one list   *)
(* and not the other.                                                      *)
(***************************************************************************)
THEOREM NoWayFallsOut == Spec => []ListsArePermutations
  <1>1. CacheInv => ListsArePermutations
    BY DEF CacheInv
  <1> QED
    BY <1>1, CacheInvariant, PTL

-----------------------------------------------------------------------------
(***************************************************************************)
(* What leaves the cache.                                                  *)
(***************************************************************************)
\* The only step in which a dirty line leaves a cache that keeps some line of
\* its set is the allocation of that line's own way.
LEMMA LeavesByAllocation ==
    ASSUME CacheInv, Next, NEW s \in SetIds, NEW w \in WayIds, LeavesDirty(s, w),
           \E v \in WayIds : lines'[s][v].valid
    PROVE  \E t \in Txns : /\ SetIdx(t.addr) = s /\ Allocate(t, w)
                           /\ Miss(t) \/ RejectMiss(t)
                           /\ Miss(t) => \E d : response' = AllocateResponse(t, w, d)
                           /\ RejectMiss(t) => response' = Raised
  <1>1. lines \in [SetIds -> [WayIds -> CacheLine]]
    BY DEF CacheInv, TypeOK
  <1>2. ~Reset
    <2> SUFFICES ASSUME Reset
                 PROVE  FALSE
      OBVIOUS
    <2>1. PICK v \in WayIds : lines'[s][v].valid
      OBVIOUS
    <2>2. lines'[s][v] = [lines[s][v] EXCEPT !.valid = FALSE, !.dirty = FALSE, !.tag = 0]
      BY DEF Reset
    <2>3. lines[s][v] \in CacheLine
      BY <1>1
    <2> QED
      BY <2>1, <2>2, <2>3 DEF CacheLine
  <1>3. PICK t \in Txns : Access(t)
    BY <1>2 DEF Next
  <1>4. lines' # lines
    BY DEF LeavesDirty
  <1> DEFINE r == SetIdx(t.addr)
  <1>5. r \in SetIds
    BY TxnAddresses
  \* A way that is not the one written keeps its line; so does one that is written as a hit.
  <1>6. ASSUME NEW v \in WayIds, NEW line,
               lines' = [lines EXCEPT ![r][v] = line]
        PROVE  s = r /\ w = v
    <2>1. lines'[s][w] = IF s = r /\ w = v THEN line ELSE lines[s][w]
      BY <1>1, <1>5, <1>6
    <2> QED
      BY <2>1 DEF LeavesDirty
  <1>7. CASE Hit(t)
    <2>1. PICK v \in WayIds : lines' = [lines EXCEPT ![r][v] = AfterAccess(lines[r][v], t)]
      BY <1>1, <1>5, <1>7 DEF Hit
    <2>2. s = r /\ w = v
      BY <1>6, <2>1
    <2>3. lines'[s][w] = AfterAccess(lines[s][w], t)
      BY <1>1, <2>1, <2>2
    <2>4. lines[s][w] \in CacheLine
      BY <1>1
    <2>5. lines'[s][w].valid = lines[s][w].valid /\ lines'[s][w].tag = lines[s][w].tag
      BY <2>3, <2>4, AfterAccessType
    <2> QED
      BY <2>5 DEF LeavesDirty
  <1>8. CASE Miss(t)
    <2>1. PICK v \in WayIds :
             /\ Allocate(t, v)
             /\ lines' = [lines EXCEPT ![r][v] = AfterAccess(FilledLine(t, v), t)]
             /\ response' = AllocateResponse(t, v, DataOf(FilledLine(t, v), t))
      BY <1>8 DEF Miss
    <2>2. s = r /\ w = v
      BY <1>6, <2>1
    <2>3. ~RejectMiss(t)
      BY <1>8 DEF Miss, RejectMiss
    <2> QED
      BY <1>8, <2>1, <2>2, <2>3
  <1>9. CASE RejectMiss(t)
    <2>1. PICK v \in WayIds :
             /\ Allocate(t, v)
             /\ lines' = [lines EXCEPT ![r][v] = FilledLine(t, v)]
             /\ response' = Raised
      BY <1>9 DEF RejectMiss
    <2>2. s = r /\ w = v
      BY <1>6, <2>1
    <2>3. ~Miss(t)
      BY <1>9 DEF Miss, RejectMiss
    <2> QED
      BY <1>9, <2>1, <2>2, <2>3
  <1>10. CASE UncachedAccess(t) \/ WriteAround(t) \/ RejectHit(t)
    BY <1>4, <1>10 DEF UncachedAccess, WriteAround, RejectHit
  <1> QED
    BY <1>3, <1>7, <1>8, <1>9, <1>10 DEF Access

LEMMA DirtyEvictionStep ==
    ASSUME CacheInv, Next, NEW s \in SetIds, NEW w \in WayIds, LeavesDirty(s, w),
           \E v \in WayIds : lines'[s][v].valid
    PROVE  /\ last_writeback' = [addr |-> VictimBase(s, w), data |-> lines[s][w].data]
           /\ ReadLine(memory', VictimBase(s, w)) = lines[s][w].data
           /\ \/ response'.raised
              \/ /\ response'.evicted_dirty
                 /\ response'.writeback_addr = VictimBase(s, w)
                 /\ response'.writeback_data = lines[s][w].data
  <1>1. PICK t \in Txns : /\ SetIdx(t.addr) = s /\ Allocate(t, w)
                          /\ Miss(t) \/ RejectMiss(t)
                          /\ Miss(t) => \E d : response' = AllocateResponse(t, w, d)
                          /\ RejectMiss(t) => response' = Raised
    BY LeavesByAllocation
  <1>2. lines[s][w].valid /\ lines[s][w].dirty
    BY DEF LeavesDirty
  <1>3. lines[s][w] \in CacheLine /\ lines[s][w].data \in [Offsets -> Byte]
    BY DEF CacheInv, TypeOK, CacheLine
  <1>4. EvictsDirty(s, w)
    <2>1. w \notin InvalidWays(s) /\ IsAllocated(s, w)
      BY <1>1, <1>2 DEF InvalidWays, Allocate
    <2>2. InvalidWays(s) = {}
      BY <2>1 DEF IsAllocated, IsFirst
    <2> QED
      BY <1>2, <2>2 DEF EvictsDirty, Evicts
  <1>5. last_writeback' = [addr |-> VictimBase(s, w), data |-> lines[s][w].data]
    BY <1>1, <1>4 DEF Allocate
  <1>6. ReadLine(memory', VictimBase(s, w)) = lines[s][w].data
    <2>1. PICK u \in Txns : SetIdx(u.addr) = s /\ Tag(u.addr) = lines[s][w].tag
      BY <1>2 DEF CacheInv, ResidentWasAccessed
    <2>2. PICK base \in Nat : base = VictimBase(s, w) /\ \A o \in Offsets : base + o \in Addrs
      <3>1. VictimBase(s, w) = LineBase(u.addr) /\ LineBase(u.addr) \in Nat
        BY <2>1, TxnAddresses, AddressSplit DEF VictimBase
      <3> QED
        BY <3>1, TxnAddresses
    <2>3. memory' = WriteLine(memory, base, lines[s][w].data)
      BY <1>1, <1>4, <2>2 DEF Allocate, MemoryAfterEviction
    <2>4. ASSUME NEW o \in Offsets
          PROVE  memory'[base + o] = lines[s][w].data[o]
      <3>1. base + o \in Addrs /\ (base + o) - base = o
        BY <2>2, LineBytesAssumption DEF Offsets
      <3> QED
        BY <2>3, <3>1 DEF WriteLine
    <2> QED
      BY <1>3, <2>2, <2>4 DEF ReadLine
  <1>7. CASE Miss(t)
    <2>1. PICK d : response' = AllocateResponse(t, w, d)
      BY <1>1, <1>7
    <2>2. /\ response'.evicted_dirty
          /\ response'.writeback_addr = VictimBase(s, w)
          /\ response'.writeback_data = lines[s][w].data
      BY <1>1, <1>4, <2>1 DEF AllocateResponse, Response
    <2> QED
      BY <1>5, <1>6, <2>2
  <1>8. CASE RejectMiss(t)
    <2>1. response'.raised
      BY <1>1, <1>8 DEF Raised, Response
    <2> QED
      BY <1>5, <1>6, <2>1
  <1> QED
    BY <1>1, <1>7, <1>8

(***************************************************************************)
(* A dirty line never leaves unseen: the step that drops it has written it *)
(* back, remembers it in last_writeback and reports it, unless it is the   *)
(* access that raises after evicting it (access checks for a cross-line    *)
(* access only after _allocate_line).                                      *)
(***************************************************************************)
THEOREM NoDirtyLineIsLost == Spec => DirtyEvictionIsReported
  <1> DEFINE Told(s, w) ==
         LeavesDirty(s, w) /\ (\E v \in WayIds : lines'[s][v].valid) =>
            /\ last_writeback' = [addr |-> VictimBase(s, w), data |-> lines[s][w].data]
            /\ ReadLine(memory', VictimBase(s, w)) = lines[s][w].data
            /\ \/ response'.raised
               \/ /\ response'.evicted_dirty
                  /\ response'.writeback_addr = VictimBase(s, w)
                  /\ response'.writeback_data = lines[s][w].data
             AllTold == \A s \in SetIds, w \in WayIds : Told(s, w)
  <1>1. CacheInv /\ [Next]_vars => [AllTold]_vars
    <2> SUFFICES ASSUME CacheInv, Next
                 PROVE  AllTold
      OBVIOUS
    <2> QED
      BY DirtyEvictionStep
  <1>2. Spec => []CacheInv
    BY CacheInvariant
  <1>3. Spec => [][AllTold]_vars
    <2> HIDE DEF AllTold
    <2> QED
      BY <1>1, <1>2, PTL DEF Spec
  <1> QED
    BY <1>3 DEF DirtyEvictionIsReported
=============================================================================
