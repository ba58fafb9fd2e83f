----------------------- MODULE StoreRefinementProofs -----------------------
(***************************************************************************)
(* ReferenceCache implements WriteBackStore, for every geometry and        *)
(* policy, on every stream that respects NoAliasing and                    *)
(* NoStrayWriteAround; so the regression loop, and the regression programs *)
(* of RegressionSuite, never fail on such streams.                         *)
(***************************************************************************)
EXTENDS RegressionSuite, ReferenceCacheProofs, SequenceTheorems

Coherent == CacheInv /\ CleanMatchesMemory

-----------------------------------------------------------------------------
(***************************************************************************)
(* The byte a program sees.                                                *)
(***************************************************************************)
LEMMA ViewOfResident ==
    ASSUME NoDuplicateTag, NEW a \in Nat, NEW w \in WaysHolding(a)
    PROVE  View(a) = lines[SetIdx(a)][w].data[Offset(a)]
  <1>1. SetIdx(a) \in SetIds
    BY AddressSplit
  <1>2. \A v \in WaysHolding(a) : v = w
    BY <1>1 DEF NoDuplicateTag, WaysHolding
  <1>3. (CHOOSE v \in WaysHolding(a) : TRUE) = w
    BY <1>2
  <1> QED
    BY <1>3 DEF View, Resident

LEMMA ViewOfAbsent ==
    ASSUME NEW a \in Nat, WaysHolding(a) = {}
    PROVE  View(a) = memory[a]
  BY DEF View, Resident

\* The same two facts after a step.
LEMMA ViewAfter ==
    ASSUME NoDuplicateTag', NEW a \in Nat
    PROVE  /\ \A w \in WaysHolding(a)' : View(a)' = lines'[SetIdx(a)][w].data[Offset(a)]
           /\ WaysHolding(a)' = {} => View(a)' = memory'[a]
  <1>1. SetIdx(a) \in SetIds
    BY AddressSplit
  <1>2. \A v, w \in WaysHolding(a)' : v = w
    BY <1>1 DEF NoDuplicateTag, WaysHolding
  <1>3. \A w \in WaysHolding(a)' : (CHOOSE v \in WaysHolding(a)' : TRUE) = w
    BY <1>2
  <1> QED
    BY <1>3 DEF View, Resident

\* ResidentWasAccessed of a part of Txns, as one stream of several is.
BroughtInBy(S) ==
    \A s \in SetIds : \A w \in WayIds :
        lines[s][w].valid => \E t \in S :
            ~t.uncached /\ SetIdx(t.addr) = s /\ Tag(t.addr) = lines[s][w].tag

LEMMA AccessBringsIn ==
    ASSUME CacheInv, NEW S \in SUBSET Txns, BroughtInBy(S), NEW t \in S, AnyAccess(t)
    PROVE  BroughtInBy(S)'
  <1> DEFINE s == SetIdx(t.addr)
  <1>1. s \in SetIds /\ lines \in [SetIds -> [WayIds -> CacheLine]]
    BY TxnAddresses DEF CacheInv, TypeOK
  <1>2. OneWayChanges(t)
    BY AccessChangesOneWay
  <1>3. CASE lines' = lines
    BY <1>3 DEF BroughtInBy
  <1>4. CASE lines' # lines
    <2>1. PICK w \in WayIds, line \in CacheLine :
            /\ ~t.uncached
            /\ line.tag = Tag(t.addr)
            /\ lines' = [lines EXCEPT ![s][w] = line]
      BY <1>2, <1>4 DEF OneWayChanges
    <2>2. \A r \in SetIds : \A v \in WayIds :
             lines'[r][v] = IF r = s /\ v = w THEN line ELSE lines[r][v]
      BY <1>1, <2>1
    <2> QED
      BY <2>1, <2>2 DEF BroughtInBy
  <1> QED
    BY <1>3, <1>4

\* Whatever uncached accesses reach is never resident.
LEMMA UncachedNotResident ==
    ASSUME NEW S \in SUBSET Txns, Unaliased(S), BroughtInBy(S),
           NEW t \in S, t.uncached, NEW i \in Bytes(t)
    PROVE  WaysHolding(t.addr + i) = {}
  <1> DEFINE a == t.addr + i
  <1>1. a \in Nat
    BY TxnType, AddrsAssumption
  <1>2. SetIdx(a) \in SetIds
    BY <1>1, AddressSplit
  <1> SUFFICES ASSUME NEW w \in WaysHolding(a) PROVE FALSE
    OBVIOUS
  <1>3. w \in WayIds /\ lines[SetIdx(a)][w].valid /\ lines[SetIdx(a)][w].tag = Tag(a)
    BY DEF WaysHolding
  <1>4. PICK u \in S : ~u.uncached /\ SetIdx(u.addr) = SetIdx(a) /\ Tag(u.addr) = Tag(a)
    BY <1>2, <1>3 DEF BroughtInBy
  <1>5. LineBase(u.addr) = LineBase(a)
    BY <1>1, <1>4, TxnType, SameLineSameBase DEF SameLine
  <1> QED
    BY <1>4, <1>5 DEF Unaliased

\* The bytes of an access that stays in its line lie in that line.
LEMMA BytesInLine ==
    ASSUME NEW t \in Txns, ~CrossLine(t), NEW i \in Bytes(t)
    PROVE  /\ SameLine(t.addr + i, t.addr)
           /\ Offset(t.addr + i) = Offset(t.addr) + i
           /\ Offset(t.addr) + i \in Offsets
  <1>1. i \in Nat /\ t.size \in Nat /\ i \in 0 .. t.size - 1
    BY TxnType DEF Bytes
  <1>2. Offset(t.addr) \in Offsets
    BY TxnType, AddressSplit
  <1>3. Offset(t.addr) + i < LineBytes
    BY <1>1, <1>2, LineBytesAssumption DEF CrossLine, Offsets
  <1> QED
    BY <1>1, <1>3, TxnType, ByteWithinLine

LEMMA TouchedInLine ==
    ASSUME NEW t \in Txns, ~CrossLine(t), NEW a \in Nat, a - t.addr \in t.mask
    PROVE  SameLine(a, t.addr)
  <1>1. a - t.addr \in Bytes(t)
    BY TxnType
  <1>2. t.addr + (a - t.addr) = a
    BY TxnType
  <1> QED
    BY <1>1, <1>2, BytesInLine
-----------------------------------------------------------------------------
(***************************************************************************)
(* The accessed line, merged into, at the byte of address a.               *)
(***************************************************************************)
LEMMA AfterAccessByte ==
    ASSUME NEW line \in CacheLine, NEW t \in Txns, NEW a \in Nat, SameLine(a, t.addr)
    PROVE  AfterAccess(line, t).data[Offset(a)] =
              IF t.op = "write" /\ a - t.addr \in t.mask THEN t.data[a - t.addr]
              ELSE line.data[Offset(a)]
  <1>1. LineBase(a) = LineBase(t.addr)
    BY TxnType, SameLineSameBase
  <1>2. /\ Offset(a) \in Offsets /\ Offset(t.addr) \in Offsets
        /\ a = LineBase(a) + Offset(a) /\ t.addr = LineBase(t.addr) + Offset(t.addr)
        /\ LineBase(a) \in Nat
    BY TxnType, AddressSplit
  <1>3. Offset(a) - Offset(t.addr) = a - t.addr
    <2>1. \A b, x, y \in Nat : (b + x) - (b + y) = x - y
      OBVIOUS
    <2>2. Offset(a) \in Nat /\ Offset(t.addr) \in Nat
      BY <1>2 DEF Offsets
    <2> QED
      BY <1>1, <1>2, <2>1, <2>2
  <1>4. StoreInto(line, t).data[Offset(a)] =
          IF a - t.addr \in t.mask THEN t.data[a - t.addr] ELSE line.data[Offset(a)]
    BY <1>2, <1>3 DEF StoreInto, CacheLine
  <1> QED
    BY <1>4 DEF AfterAccess

(***************************************************************************)
(* A step that puts `line` into the way that holds the accessed line, or   *)
(* into the way allocated for it, changes the view of that line only.      *)
(***************************************************************************)
LEMMA HitView ==
    ASSUME CacheInv, NoDuplicateTag',
           NEW t \in Txns, NEW w \in WaysHolding(t.addr),
           NEW line \in CacheLine, line.valid, line.tag = Tag(t.addr),
           lines' = [lines EXCEPT ![SetIdx(t.addr)][w] = line],
           memory' = memory, NEW a \in Nat
    PROVE  /\ SameLine(a, t.addr) =>
                 /\ View(a)' = line.data[Offset(a)]
                 /\ View(a) = lines[SetIdx(t.addr)][w].data[Offset(a)]
           /\ ~SameLine(a, t.addr) => View(a)' = View(a)
  <1> DEFINE s == SetIdx(t.addr)
             r == SetIdx(a)
  <1>1. s \in SetIds /\ r \in SetIds /\ lines \in [SetIds -> [WayIds -> CacheLine]]
    BY TxnAddresses, AddressSplit DEF CacheInv, TypeOK
  <1>2. w \in WayIds /\ lines[s][w].valid /\ lines[s][w].tag = Tag(t.addr)
    BY DEF WaysHolding
  <1>3. \A v \in WayIds : lines'[r][v] = IF r = s /\ v = w THEN line ELSE lines[r][v]
    BY <1>1, <1>2
  <1>4. ASSUME SameLine(a, t.addr)
        PROVE  /\ View(a)' = line.data[Offset(a)]
               /\ View(a) = lines[s][w].data[Offset(a)]
    <2>1. w \in WaysHolding(a) /\ w \in WaysHolding(a)'
      BY <1>2, <1>3, <1>4 DEF WaysHolding, SameLine
    <2>2. lines'[r][w] = line /\ r = s
      BY <1>2, <1>3, <1>4 DEF SameLine
    <2>3. View(a)' = lines'[r][w].data[Offset(a)]
      BY <2>1, ViewAfter
    <2>4. View(a) = lines[r][w].data[Offset(a)]
      BY <2>1, ViewOfResident DEF CacheInv
    <2> QED
      BY <2>2, <2>3, <2>4
  <1>5. ASSUME ~SameLine(a, t.addr)
        PROVE  View(a)' = View(a)
    <2>1. WaysHolding(a)' = WaysHolding(a)
      BY <1>2, <1>3, <1>5 DEF WaysHolding, SameLine
    <2>2. CASE WaysHolding(a) = {}
      BY <2>1, <2>2, ViewOfAbsent, ViewAfter
    <2>3. ASSUME NEW v \in WaysHolding(a) PROVE View(a)' = View(a)
      <3>1. v \in WayIds /\ lines'[r][v] = lines[r][v]
        BY <1>2, <1>3, <1>5 DEF WaysHolding, SameLine
      <3>2. View(a) = lines[r][v].data[Offset(a)]
        BY ViewOfResident DEF CacheInv
      <3>3. View(a)' = lines'[r][v].data[Offset(a)]
        BY <2>1, ViewAfter
      <3> QED
        BY <3>1, <3>2, <3>3
    <2> QED
      BY <2>2, <2>3
  <1> QED
    BY <1>4, <1>5
-----------------------------------------------------------------------------
(***************************************************************************)
(* Eviction.  Putting the victim back, when it is dirty, makes memory hold *)
(* what the program sees of it; when it is clean, memory already does.     *)
(***************************************************************************)
LEMMA EvictionMemory ==
    ASSUME Coherent, NEW s \in SetIds, NEW w \in WayIds, NEW a \in Addrs
    PROVE  LET victim == lines[s][w]
           IN  /\ Evicts(s) /\ SetIdx(a) = s /\ Tag(a) = victim.tag =>
                    /\ MemoryAfterEviction(s, w)[a] = View(a)
                    /\ View(a) = victim.data[Offset(a)]
               /\ ~(Evicts(s) /\ SetIdx(a) = s /\ Tag(a) = victim.tag) =>
                    MemoryAfterEviction(s, w)[a] = memory[a]
  <1> DEFINE victim == lines[s][w]
             InVictim == SetIdx(a) = s /\ Tag(a) = victim.tag
  <1>1. a \in Nat /\ victim \in CacheLine
    BY AddrsAssumption DEF Coherent, CacheInv, TypeOK
  <1>2. victim.tag \in Nat /\ VictimBase(s, w) = AddrFromTagSet(victim.tag, s)
    BY <1>1 DEF CacheLine, VictimBase
  <1>3. /\ a - VictimBase(s, w) \in Offsets <=> InVictim
        /\ a - VictimBase(s, w) \in Offsets => a - VictimBase(s, w) = Offset(a)
    BY <1>1, <1>2, AddressesOfLine
  <1>4. MemoryAfterEviction(s, w)[a] =
           IF EvictsDirty(s, w) /\ InVictim THEN victim.data[Offset(a)] ELSE memory[a]
    BY <1>3 DEF MemoryAfterEviction, WriteLine
  <1>5. ASSUME Evicts(s), InVictim
        PROVE  View(a) = victim.data[Offset(a)]
    <2>1. w \in WaysHolding(a)
      BY <1>5 DEF Evicts, InvalidWays, WaysHolding
    <2> QED
      BY <1>1, <1>5, <2>1, ViewOfResident DEF Coherent, CacheInv
  <1>6. ASSUME Evicts(s), InVictim, ~victim.dirty
        PROVE  memory[a] = victim.data[Offset(a)]
    <2>1. victim.valid
      BY <1>6 DEF Evicts, InvalidWays
    <2>2. victim.data = ReadLine(memory, AddrFromTagSet(victim.tag, s))
      BY <1>6, <2>1 DEF Coherent, CleanMatchesMemory
    <2>3. Offset(a) \in Offsets /\ a = AddrFromTagSet(victim.tag, s) + Offset(a)
      BY <1>1, <1>6, AddressSplit
    <2> QED
      BY <2>2, <2>3 DEF ReadLine
  <1>7. EvictsDirty(s, w) <=> Evicts(s) /\ victim.dirty
    BY DEF EvictsDirty
  <1> QED
    BY <1>4, <1>5, <1>6, <1>7

(***************************************************************************)
(* Allocation.  The line filled in holds what the program saw of it, and   *)
(* a step that puts `line` there changes the view of that line only - not  *)
(* of the victim.                                                          *)
(***************************************************************************)
LEMMA FilledView ==
    ASSUME Coherent, NEW t \in Txns, NEW w \in WayIds, AnyAllocate(t, w),
           NEW a \in Addrs, SameLine(a, t.addr)
    PROVE  FilledLine(t, w).data[Offset(a)] = View(a)
  <1> DEFINE s == SetIdx(t.addr)
  <1>1. a \in Nat /\ s \in SetIds
    BY AddrsAssumption, TxnAddresses
  <1>2. WaysHolding(a) = {}
    BY <1>1 DEF AnyAllocate, WaysHolding, SameLine
  <1>3. View(a) = memory[a]
    BY <1>1, <1>2, ViewOfAbsent
  <1>4. MemoryAfterEviction(s, w)[a] = memory[a]
    <2>1. Evicts(s) => Tag(a) # lines[s][w].tag
      BY <1>1, <1>2 DEF Evicts, InvalidWays, WaysHolding, SameLine
    <2> QED
      BY <1>1, <2>1, EvictionMemory
  <1>5. Offset(a) \in Offsets /\ LineBase(t.addr) + Offset(a) = a
    BY <1>1, TxnType, AddressSplit, SameLineSameBase
  <1> QED
    BY <1>3, <1>4, <1>5 DEF FilledLine, ReadLine

LEMMA AllocateView ==
    ASSUME Coherent, NoDuplicateTag',
           NEW t \in Txns, NEW w \in WayIds, AnyAllocate(t, w),
           NEW line \in CacheLine, line.valid, line.tag = Tag(t.addr),
           lines' = [lines EXCEPT ![SetIdx(t.addr)][w] = line],
           NEW a \in Addrs
    PROVE  /\ SameLine(a, t.addr) => View(a)' = line.data[Offset(a)]
           /\ ~SameLine(a, t.addr) => View(a)' = View(a)
  <1> DEFINE s == SetIdx(t.addr)
             r == SetIdx(a)
             victim == lines[s][w]
  <1>1. /\ a \in Nat /\ s \in SetIds /\ r \in SetIds
        /\ lines \in [SetIds -> [WayIds -> CacheLine]]
    BY AddrsAssumption, TxnAddresses, AddressSplit DEF Coherent, CacheInv, TypeOK
  <1>2. \A v \in WayIds : lines'[r][v] = IF r = s /\ v = w THEN line ELSE lines[r][v]
    BY <1>1
  <1>3. memory' = MemoryAfterEviction(s, w)
    BY DEF AnyAllocate
  <1>4. ASSUME SameLine(a, t.addr)
        PROVE  View(a)' = line.data[Offset(a)]
    <2>1. w \in WaysHolding(a)' /\ lines'[r][w] = line
      BY <1>2, <1>4 DEF WaysHolding, SameLine
    <2> QED
      BY <1>1, <2>1, ViewAfter
  <1>5. ASSUME ~SameLine(a, t.addr), Evicts(s), r = s, Tag(a) = victim.tag
        PROVE  View(a)' = View(a)
    <2>1. memory'[a] = View(a)
      BY <1>1, <1>3, <1>5, EvictionMemory
    <2>2. w \in WaysHolding(a)
      BY <1>5 DEF Evicts, InvalidWays, WaysHolding
    <2>3. \A v \in WaysHolding(a) : v = w
      BY <1>1, <2>2 DEF Coherent, CacheInv, NoDuplicateTag, WaysHolding
    <2>4. WaysHolding(a)' = {}
      BY <1>2, <1>5, <2>3 DEF WaysHolding, SameLine
    <2> QED
      BY <1>1, <2>1, <2>4, ViewAfter
  <1>6. ASSUME ~SameLine(a, t.addr), ~(Evicts(s) /\ r = s /\ Tag(a) = victim.tag)
        PROVE  View(a)' = View(a)
    <2>1. memory'[a] = memory[a]
      BY <1>1, <1>3, <1>6, EvictionMemory
    <2>2. r = s => w \notin WaysHolding(a)
      <3>1. ~Evicts(s) => ~lines[s][w].valid
        BY DEF Evicts, AnyAllocate, IsFirst, InvalidWays
      <3> QED
        BY <1>6, <3>1 DEF WaysHolding
    <2>3. WaysHolding(a)' = WaysHolding(a)
      BY <1>2, <1>6, <2>2 DEF WaysHolding, SameLine
    <2>4. CASE WaysHolding(a) = {}
      BY <1>1, <2>1, <2>3, <2>4, ViewOfAbsent, ViewAfter
    <2>5. ASSUME NEW v \in WaysHolding(a) PROVE View(a)' = View(a)
      <3>1. v \in WayIds /\ lines'[r][v] = lines[r][v]
        BY <1>2, <2>2 DEF WaysHolding
      <3>2. View(a) = lines[r][v].data[Offset(a)]
        BY <1>1, ViewOfResident DEF Coherent, CacheInv
      <3>3. View(a)' = lines'[r][v].data[Offset(a)]
        BY <1>1, <2>3, ViewAfter
      <3> QED
        BY <3>1, <3>2, <3>3
    <2> QED
      BY <2>4, <2>5
  <1> QED
    BY <1>4, <1>5, <1>6
-----------------------------------------------------------------------------
(***************************************************************************)
(* Writes straight to memory, uncached or around the cache.                *)
(***************************************************************************)
LEMMA LineAddresses ==
    ASSUME CacheInv, NEW s \in SetIds, NEW w \in WayIds, lines[s][w].valid,
           NEW o \in Offsets
    PROVE  LET a == AddrFromTagSet(lines[s][w].tag, s) + o
           IN  /\ a \in Addrs /\ a \in Nat
               /\ SetIdx(a) = s /\ Tag(a) = lines[s][w].tag /\ Offset(a) = o
               /\ w \in WaysHolding(a)
  <1> DEFINE a == AddrFromTagSet(lines[s][w].tag, s) + o
  <1>1. PICK t \in Txns : SetIdx(t.addr) = s /\ Tag(t.addr) = lines[s][w].tag
    BY DEF CacheInv, ResidentWasAccessed
  <1>2. a \in Addrs
    BY <1>1, TxnAddresses
  <1>3. SetIdx(a) = s /\ Tag(a) = lines[s][w].tag /\ Offset(a) = o
    BY <1>1, TxnAddresses, LineAddressSplit
  <1> QED
    BY <1>2, <1>3, AddrsAssumption DEF WaysHolding

LEMMA MemoryWrite ==
    ASSUME Coherent, NEW t \in Txns,
           \A a \in Addrs : a - t.addr \in t.mask => WaysHolding(a) = {},
           lines' = lines, memory' = WriteMemory(memory, t, t.mask)
    PROVE  /\ Current' = Store!Merge(Current, t)
           /\ memory' = Store!Merge(memory, t)
           /\ CleanMatchesMemory'
  <1>1. \A a \in Addrs : memory'[a] = IF a - t.addr \in t.mask THEN t.data[a - t.addr]
                                      ELSE memory[a]
    BY DEF WriteMemory
  <1>2. ASSUME NEW a \in Addrs
        PROVE  View(a)' = IF a - t.addr \in t.mask THEN t.data[a - t.addr] ELSE View(a)
    <2>1. a \in Nat /\ NoDuplicateTag /\ NoDuplicateTag'
      BY AddrsAssumption DEF Coherent, CacheInv, NoDuplicateTag
    <2>2. WaysHolding(a)' = WaysHolding(a)
      BY DEF WaysHolding
    <2>3. CASE WaysHolding(a) = {}
      BY <1>1, <2>1, <2>2, <2>3, ViewOfAbsent, ViewAfter
    <2>4. ASSUME NEW v \in WaysHolding(a)
          PROVE  View(a)' = View(a) /\ a - t.addr \notin t.mask
      BY <2>1, <2>2, ViewOfResident, ViewAfter
    <2> QED
      BY <2>3, <2>4
  <1>3. Current' = Store!Merge(Current, t)
    BY <1>2 DEF Current, Store!Merge
  <1>4. memory' = Store!Merge(memory, t)
    BY DEF WriteMemory, Store!Merge
  <1>5. ASSUME NEW s \in SetIds, NEW w \in WayIds, lines[s][w].valid, ~lines[s][w].dirty
        PROVE  lines[s][w].data = ReadLine(memory', AddrFromTagSet(lines[s][w].tag, s))
    <2> DEFINE base == AddrFromTagSet(lines[s][w].tag, s)
    <2>1. lines[s][w].data = ReadLine(memory, base)
      BY <1>5 DEF Coherent, CleanMatchesMemory
    <2>2. ASSUME NEW o \in Offsets PROVE memory'[base + o] = memory[base + o]
      <3>1. base + o \in Addrs /\ WaysHolding(base + o) # {}
        BY <1>5, LineAddresses DEF Coherent
      <3> QED
        BY <1>1, <3>1
    <2>3. ReadLine(memory', base) = ReadLine(memory, base)
      BY <2>2 DEF ReadLine
    <2> QED
      BY <2>1, <2>3
  <1> QED
    BY <1>3, <1>4, <1>5 DEF CleanMatchesMemory

-----------------------------------------------------------------------------
(***************************************************************************)
(* Evictions keep clean lines equal to memory.                             *)
(***************************************************************************)
LEMMA AllocateClean ==
    ASSUME Coherent, NEW t \in Txns, NEW w \in WayIds, AnyAllocate(t, w),
           NEW line \in CacheLine, line.tag = Tag(t.addr),
           ~line.dirty => line = FilledLine(t, w),
           lines' = [lines EXCEPT ![SetIdx(t.addr)][w] = line]
    PROVE  CleanMatchesMemory'
  <1> DEFINE s == SetIdx(t.addr)
  <1>1. /\ s \in SetIds /\ lines \in [SetIds -> [WayIds -> CacheLine]]
        /\ AddrFromTagSet(Tag(t.addr), s) = LineBase(t.addr)
    BY TxnAddresses DEF Coherent, CacheInv, TypeOK
  <1>2. memory' = MemoryAfterEviction(s, w)
    BY DEF AnyAllocate
  <1> SUFFICES ASSUME NEW r \in SetIds, NEW v \in WayIds,
                      lines'[r][v].valid, ~lines'[r][v].dirty
               PROVE  lines'[r][v].data =
                         ReadLine(memory', AddrFromTagSet(lines'[r][v].tag, r))
    BY DEF CleanMatchesMemory
  <1>3. CASE r = s /\ v = w
    <2>1. lines'[r][v] = line /\ line = FilledLine(t, w)
      BY <1>1, <1>3
    <2>2. line.data = ReadLine(memory', LineBase(t.addr))
      BY <1>2, <2>1 DEF FilledLine
    <2> QED
      BY <1>1, <1>3, <2>1, <2>2
  <1>4. CASE ~(r = s /\ v = w)
    <2> DEFINE base == AddrFromTagSet(lines[r][v].tag, r)
    <2>1. lines'[r][v] = lines[r][v]
      BY <1>1, <1>4
    <2>2. lines[r][v].data = ReadLine(memory, base)
      BY <2>1 DEF Coherent, CleanMatchesMemory
    <2>3. ASSUME NEW o \in Offsets PROVE memory'[base + o] = memory[base + o]
      <3>1. /\ base + o \in Addrs
            /\ SetIdx(base + o) = r /\ Tag(base + o) = lines[r][v].tag
        BY <2>1, LineAddresses DEF Coherent
      <3>2. ~(Evicts(s) /\ r = s /\ lines[r][v].tag = lines[s][w].tag)
        BY <1>4, <2>1 DEF Evicts, InvalidWays, Coherent, CacheInv, NoDuplicateTag
      <3> QED
        BY <1>1, <1>2, <3>1, <3>2, EvictionMemory
    <2>4. ReadLine(memory', base) = ReadLine(memory, base)
      BY <2>3 DEF ReadLine
    <2> QED
      BY <2>1, <2>2, <2>4
  <1> QED
    BY <1>3, <1>4

LEMMA AllocatePutsBack ==
    ASSUME Coherent, NEW t \in Txns, NEW w \in WayIds, AnyAllocate(t, w)
    PROVE  Store!MayPutBack
  <1> DEFINE s == SetIdx(t.addr)
             base == VictimBase(s, w)
  <1>1. s \in SetIds /\ lines[s][w] \in CacheLine /\ memory' = MemoryAfterEviction(s, w)
    BY TxnAddresses DEF Coherent, CacheInv, TypeOK, AnyAllocate
  <1>2. CASE ~EvictsDirty(s, w)
    BY <1>1, <1>2 DEF MemoryAfterEviction, Store!MayPutBack
  <1>3. CASE EvictsDirty(s, w)
    <2>1. Evicts(s) /\ lines[s][w].valid
      BY <1>3 DEF EvictsDirty, Evicts, InvalidWays
    <2>2. base \in Addrs
      BY <1>1, <2>1, VictimAddress DEF Coherent, CacheInv
    <2>3. ASSUME NEW a \in Addrs
          PROVE  memory'[a] = IF LineBase(a) = base THEN Current[a] ELSE memory[a]
      <3>1. a \in Nat /\ lines[s][w].tag \in Nat
        BY <1>1, AddrsAssumption DEF CacheLine
      <3>2. LineBase(a) = base <=> SetIdx(a) = s /\ Tag(a) = lines[s][w].tag
        BY <1>1, <3>1, AddressesOfLine DEF VictimBase
      <3> QED
        BY <1>1, <2>1, <3>2, EvictionMemory DEF Current
    <2>4. memory' \in [Addrs -> Byte]
      BY AllocateType DEF Coherent, CacheInv
    <2>5. memory' = Store!PutBack(base)
      BY <2>3, <2>4 DEF Store!PutBack, Store!LineBase, LineBase
    <2> QED
      BY <2>2, <2>5 DEF Store!MayPutBack
  <1> QED
    BY <1>2, <1>3
-----------------------------------------------------------------------------
(***************************************************************************)
(* What a cached access answers and stores, in terms of the view, given    *)
(* that the line it works on holds the view of its addresses.              *)
(***************************************************************************)
HoldsView(line, t) ==
    \A a \in Addrs : SameLine(a, t.addr) => line.data[Offset(a)] = View(a)

LEMMA LoadIsCurrent ==
    ASSUME NEW t \in Txns, ~CrossLine(t), NEW line, HoldsView(line, t)
    PROVE  LoadFrom(line, t) = Store!LoadBytes(t)
  <1>1. ASSUME NEW i \in Bytes(t)
        PROVE  line.data[Offset(t.addr) + i] = Current[t.addr + i]
    <2>1. /\ SameLine(t.addr + i, t.addr) /\ Offset(t.addr + i) = Offset(t.addr) + i
          /\ t.addr + i \in Addrs
      BY BytesInLine, TxnType
    <2> QED
      BY <2>1 DEF HoldsView, Current
  <1> QED
    BY <1>1 DEF LoadFrom, Store!LoadBytes, Bytes

LEMMA AccessIsMerge ==
    ASSUME NEW t \in Txns, ~CrossLine(t), NEW line \in CacheLine, HoldsView(line, t),
           \A a \in Addrs :
              /\ SameLine(a, t.addr) => View(a)' = AfterAccess(line, t).data[Offset(a)]
              /\ ~SameLine(a, t.addr) => View(a)' = View(a)
    PROVE  Current' = IF t.op = "write" THEN Store!Merge(Current, t) ELSE Current
  <1>1. ASSUME NEW a \in Addrs
        PROVE  View(a)' = IF t.op = "write" /\ a - t.addr \in t.mask
                          THEN t.data[a - t.addr] ELSE View(a)
    <2>1. a \in Nat
      BY AddrsAssumption
    <2>2. CASE SameLine(a, t.addr)
      BY <2>1, <2>2, AfterAccessByte DEF HoldsView
    <2>3. CASE ~SameLine(a, t.addr)
      BY <2>1, <2>3, TouchedInLine
    <2> QED
      BY <2>2, <2>3
  <1> QED
    BY <1>1 DEF Current, Store!Merge

LEMMA LoadIsAnswer ==
    ASSUME NEW t \in Txns
    PROVE  Store!LoadBytes(t) # NoData
  <1>1. 0 \in DOMAIN Store!LoadBytes(t)
    BY TxnType DEF Store!LoadBytes
  <1>2. DOMAIN NoData = {}
    BY DEF NoData
  <1> QED
    BY <1>1, <1>2

\* A load of the store that also returns what it answers.
LoadsCurrent(t) == Store!Load(t) /\ response'.data = Store!LoadBytes(t)

LEMMA CachedStep ==
    ASSUME NEW t \in Txns, ~t.uncached, ~CrossLine(t),
           NEW line \in CacheLine, HoldsView(line, t),
           \A a \in Addrs :
              /\ SameLine(a, t.addr) => View(a)' = AfterAccess(line, t).data[Offset(a)]
              /\ ~SameLine(a, t.addr) => View(a)' = View(a),
           response'.data = DataOf(line, t), response'.raised = FALSE, Store!MayPutBack
    PROVE  LoadsCurrent(t) \/ Store!StoreBack(t)
  <1>1. CASE t.op = "read"
    <2>1. Current' = Current
      BY <1>1, AccessIsMerge
    <2>2. response'.data = Store!LoadBytes(t)
      BY <1>1, LoadIsCurrent DEF DataOf
    <2>3. Answer' = Store!LoadBytes(t)
      BY <2>2, LoadIsAnswer DEF Answer
    <2> QED
      BY <1>1, <2>1, <2>2, <2>3 DEF LoadsCurrent, Store!Load
  <1>2. CASE t.op # "read"
    <2>1. t.op = "write"
      BY <1>2, TxnType
    <2>2. Current' = Store!Merge(Current, t)
      BY <2>1, AccessIsMerge
    <2>3. Answer' = None
      BY <1>2 DEF DataOf, Answer
    <2> QED
      BY <2>1, <2>2, <2>3 DEF Store!StoreBack
  <1> QED
    BY <1>1, <1>2
-----------------------------------------------------------------------------
(***************************************************************************)
(* Every step of the cache is a step of the store.                         *)
(***************************************************************************)
StreamIsSound == NoAliasing /\ NoStrayWriteAround

\* What one step owes: the mapped step, and clean lines still equal to memory.
Succeeds(t) ==
    /\ LoadsCurrent(t) \/ Store!StoreBack(t) \/ Store!StoreThrough(t)
    /\ CleanMatchesMemory'

Rejects(t) == Store!Fail(t) /\ CleanMatchesMemory'

LEMMA UncachedSimulates ==
    ASSUME NEW S \in SUBSET Txns, Unaliased(S), BroughtInBy(S), Coherent,
           NEW t \in S, UncachedAccess(t)
    PROVE  Succeeds(t)
  <1>1. t.uncached /\ lines' = lines
    BY DEF UncachedAccess
  <1>2. \A i \in Bytes(t) : WaysHolding(t.addr + i) = {}
    BY <1>1, UncachedNotResident
  <1>3. CASE t.op = "write"
    <2>1. ASSUME NEW a \in Addrs, a - t.addr \in t.mask PROVE WaysHolding(a) = {}
      <3>1. a - t.addr \in Bytes(t) /\ t.addr + (a - t.addr) = a
        BY <2>1, TxnType, AddrsAssumption
      <3> QED
        BY <1>2, <3>1
    <2>2. /\ memory' = WriteMemory(memory, t, t.mask)
          /\ Answer' = None /\ response'.raised = FALSE
      BY <1>3 DEF UncachedAccess, Answer, Response
    <2> QED
      BY <1>1, <1>3, <2>1, <2>2, MemoryWrite DEF Succeeds, Store!StoreThrough
  <1>4. CASE t.op # "write"
    <2>1. t.op = "read" /\ memory' = memory
      BY <1>4, TxnType DEF UncachedAccess
    <2>2. Current' = Current
      BY <1>1, <2>1 DEF Current, View, Resident, WaysHolding
    <2>3. ASSUME NEW i \in Bytes(t) PROVE Current[t.addr + i] = memory[t.addr + i]
      BY <1>2, TxnType, AddrsAssumption, ViewOfAbsent DEF Current
    <2>4. response'.data = Store!LoadBytes(t)
      <3>1. response'.data = ReadMemory(memory, t)
        BY <2>1 DEF UncachedAccess, Response
      <3> QED
        BY <2>3, <3>1 DEF ReadMemory, Store!LoadBytes, Bytes
    <2>5. Answer' = Store!LoadBytes(t) /\ response'.raised = FALSE
      BY <1>4, <2>4, LoadIsAnswer DEF Answer, UncachedAccess, Response
    <2>6. CleanMatchesMemory'
      BY <1>1, <2>1 DEF Coherent, CleanMatchesMemory
    <2> QED
      BY <2>1, <2>2, <2>4, <2>5, <2>6 DEF Succeeds, LoadsCurrent, Store!Load, Store!MayPutBack
  <1> QED
    BY <1>3, <1>4

LEMMA WriteAroundSimulates ==
    ASSUME Coherent, NEW t \in Txns, AnyWriteAround(t), t.mask # {}, ~CrossLine(t)
    PROVE  Succeeds(t)
  <1>1. t.op = "write" /\ ~t.uncached /\ lines' = lines /\ WaysHolding(t.addr) = {}
    BY DEF AnyWriteAround
  <1>2. /\ memory' = WriteMemory(memory, t, t.mask)
        /\ Answer' = None /\ response'.raised = FALSE
    BY DEF AnyWriteAround, Answer, Response
  <1>3. ASSUME NEW a \in Addrs, a - t.addr \in t.mask PROVE WaysHolding(a) = {}
    <2>1. SameLine(a, t.addr)
      BY <1>3, AddrsAssumption, TouchedInLine
    <2> QED
      BY <1>1, <2>1 DEF WaysHolding, SameLine
  <1> QED
    BY <1>1, <1>2, <1>3, MemoryWrite DEF Succeeds, Store!StoreThrough

LEMMA HitSimulates ==
    ASSUME Coherent, NoDuplicateTag', NEW t \in Txns, AnyHit(t)
    PROVE  Succeeds(t)
  <1> DEFINE s == SetIdx(t.addr)
  <1>1. PICK w \in WayIds :
          /\ ~t.uncached /\ ~CrossLine(t)
          /\ w \in WaysHolding(t.addr)
          /\ lines' = [lines EXCEPT ![s][w] = AfterAccess(@, t)]
          /\ response' = Response(DataOf(lines[s][w], t), TRUE)
          /\ memory' = memory
    BY DEF AnyHit, IsFirst
  <1> DEFINE line == AfterAccess(lines[s][w], t)
  <1>2. s \in SetIds /\ lines \in [SetIds -> [WayIds -> CacheLine]]
    BY TxnAddresses DEF Coherent, CacheInv, TypeOK
  <1>3. lines[s][w] \in CacheLine /\ lines[s][w].valid /\ lines[s][w].tag = Tag(t.addr)
    BY <1>1, <1>2 DEF WaysHolding
  <1>4. line \in CacheLine /\ line.valid /\ line.tag = Tag(t.addr)
    BY <1>3, AfterAccessType
  <1>5. lines' = [lines EXCEPT ![s][w] = line]
    BY <1>1, <1>2
  <1> HIDE DEF line
  <1>6. \A a \in Addrs :
          /\ SameLine(a, t.addr) =>
                /\ View(a)' = line.data[Offset(a)]
                /\ View(a) = lines[s][w].data[Offset(a)]
          /\ ~SameLine(a, t.addr) => View(a)' = View(a)
    BY <1>1, <1>4, <1>5, HitView, AddrsAssumption DEF Coherent
  <1>7. HoldsView(lines[s][w], t)
    BY <1>6 DEF HoldsView
  <1>8. /\ response'.data = DataOf(lines[s][w], t)
        /\ response'.raised = FALSE /\ Store!MayPutBack
    BY <1>1 DEF Response, Store!MayPutBack
  <1>9. LoadsCurrent(t) \/ Store!StoreBack(t)
    BY <1>1, <1>3, <1>6, <1>7, <1>8, CachedStep DEF line
  <1>10. ASSUME NEW r \in SetIds, NEW v \in WayIds,
                lines'[r][v].valid, ~lines'[r][v].dirty
         PROVE  lines'[r][v] = lines[r][v]
    <2>1. CASE r = s /\ v = w
      <3>1. lines'[r][v] = line
        BY <1>1, <1>2, <1>5, <2>1
      <3>2. line = lines[s][w] \/ line.dirty
        BY <1>3 DEF line, AfterAccess, StoreInto, CacheLine
      <3> QED
        BY <1>10, <2>1, <3>1, <3>2
    <2>2. CASE ~(r = s /\ v = w)
      BY <1>2, <1>5, <2>2
    <2> QED
      BY <2>1, <2>2
  <1>11. CleanMatchesMemory'
    BY <1>1, <1>10 DEF Coherent, CleanMatchesMemory
  <1> QED
    BY <1>9, <1>11 DEF Succeeds

LEMMA MissSimulates ==
    ASSUME Coherent, NoDuplicateTag', NEW t \in Txns, AnyMiss(t)
    PROVE  Succeeds(t)
  <1> DEFINE s == SetIdx(t.addr)
  <1>1. PICK w \in WayIds :
          /\ ~t.uncached /\ ~CrossLine(t)
          /\ AnyAllocate(t, w)
          /\ lines' = [lines EXCEPT ![s][w] = AfterAccess(FilledLine(t, w), t)]
          /\ response' = AllocateResponse(t, w, DataOf(FilledLine(t, w), t))
    BY DEF AnyMiss
  <1> DEFINE filled == FilledLine(t, w)
             line == AfterAccess(filled, t)
  <1>2. filled \in CacheLine /\ filled.valid /\ filled.tag = Tag(t.addr)
    BY <1>1, AllocateType DEF Coherent, CacheInv, FilledLine
  <1>3. line \in CacheLine /\ line.valid /\ line.tag = Tag(t.addr)
    BY <1>2, AfterAccessType
  <1>4. ~line.dirty => line = filled
    BY <1>2 DEF AfterAccess, StoreInto, CacheLine
  <1>5. HoldsView(filled, t)
    BY <1>1, FilledView DEF HoldsView
  <1> HIDE DEF line
  <1>6. \A a \in Addrs :
          /\ SameLine(a, t.addr) => View(a)' = line.data[Offset(a)]
          /\ ~SameLine(a, t.addr) => View(a)' = View(a)
    BY <1>1, <1>3, AllocateView DEF line
  <1>7. /\ response'.data = DataOf(filled, t)
        /\ response'.raised = FALSE /\ Store!MayPutBack
    BY <1>1, AllocatePutsBack DEF AllocateResponse, Response
  <1>8. LoadsCurrent(t) \/ Store!StoreBack(t)
    BY <1>1, <1>2, <1>5, <1>6, <1>7, CachedStep DEF line
  <1>9. CleanMatchesMemory'
    BY <1>1, <1>3, <1>4, AllocateClean DEF line
  <1> QED
    BY <1>8, <1>9 DEF Succeeds

\* What access refuses does touch two lines, by the store's own reading of it.
LEMMA RejectedStraddles ==
    ASSUME NEW t \in Txns, CrossLine(t)
    PROVE  Store!Straddles(t)
  <1> DEFINE last == t.addr + (t.size - 1)
  <1>1. t.addr \in Nat /\ t.size \in {1, 2, 4, 8} /\ last \in Nat
    BY TxnType
  <1>2. Offset(t.addr) \in Offsets /\ Offset(last) \in Offsets
    BY <1>1, AddressSplit
  <1>3. Offset(last) < LineBytes /\ Offset(t.addr) + (t.size - 1) >= LineBytes
    BY <1>1, <1>2, LineBytesAssumption DEF CrossLine, Offsets
  <1>4. LineBase(t.addr) \in Int /\ LineBase(last) \in Int
    BY <1>1, LineBytesAssumption DEF LineBase
  <1>5. /\ Offset(last) = last - LineBase(last)
        /\ Offset(t.addr) = t.addr - LineBase(t.addr)
    BY DEF Offset
  <1>6. LineBase(last) # LineBase(t.addr)
    BY <1>1, <1>3, <1>4, <1>5, LineBytesAssumption
  <1>7. t.size - 1 \in 0 .. t.size - 1
    BY <1>1
  <1> QED
    BY <1>6, <1>7 DEF Store!Straddles, Store!LineBase, LineBase

LEMMA RejectSimulates ==
    ASSUME Coherent, NoDuplicateTag', NEW t \in Txns, RejectHit(t) \/ AnyRejectMiss(t)
    PROVE  Rejects(t)
  <1> DEFINE s == SetIdx(t.addr)
  <1>1. CASE RejectHit(t)
    <2>1. /\ ~t.uncached /\ UNCHANGED <<lines, memory>>
          /\ Answer' = None /\ response'.raised = TRUE /\ Store!Straddles(t)
      BY <1>1, RejectedStraddles DEF RejectHit, Answer, Raised, Response
    <2>2. Current' = Current /\ CleanMatchesMemory'
      BY <2>1 DEF Current, View, Resident, WaysHolding, Coherent, CleanMatchesMemory
    <2> QED
      BY <2>1, <2>2 DEF Rejects, Store!Fail, Store!MayPutBack
  <1>2. CASE AnyRejectMiss(t)
    <2>1. PICK w \in WayIds :
            /\ ~t.uncached
            /\ AnyAllocate(t, w)
            /\ lines' = [lines EXCEPT ![s][w] = FilledLine(t, w)]
            /\ response' = Raised
      BY <1>2 DEF AnyRejectMiss
    <2> DEFINE filled == FilledLine(t, w)
    <2>2. filled \in CacheLine /\ filled.valid /\ filled.tag = Tag(t.addr)
      BY <2>1, AllocateType DEF Coherent, CacheInv, FilledLine
    <2>3. ASSUME NEW a \in Addrs PROVE View(a)' = View(a)
      <3>1. CASE SameLine(a, t.addr)
        BY <2>1, <2>2, <3>1, AllocateView, FilledView
      <3>2. CASE ~SameLine(a, t.addr)
        BY <2>1, <2>2, <3>2, AllocateView
      <3> QED
        BY <3>1, <3>2
    <2>4. Current' = Current
      BY <2>3 DEF Current
    <2>5. Answer' = None /\ response'.raised = TRUE
      BY <2>1 DEF Answer, Raised, Response
    <2>6. CleanMatchesMemory' /\ Store!MayPutBack
      BY <2>1, <2>2, AllocateClean, AllocatePutsBack
    <2>7. Store!Straddles(t)
      BY <1>2, RejectedStraddles DEF AnyRejectMiss
    <2> QED
      BY <2>1, <2>4, <2>5, <2>6, <2>7 DEF Rejects, Store!Fail
  <1> QED
    BY <1>1, <1>2

\* An access that goes around the cache, if it does, with a byte to write and in its line.
SoundAccess(t) ==
    \/ UncachedAccess(t)
    \/ AnyWriteAround(t) /\ t.mask # {} /\ ~CrossLine(t)
    \/ AnyHit(t)
    \/ AnyMiss(t)
    \/ RejectHit(t)
    \/ AnyRejectMiss(t)

LEMMA SoundAccessSimulates ==
    ASSUME NEW S \in SUBSET Txns, Unaliased(S), BroughtInBy(S), Coherent,
           NEW t \in S, SoundAccess(t)
    PROVE  /\ Succeeds(t) \/ Rejects(t)
           /\ RejectHit(t) \/ AnyRejectMiss(t) \/ Succeeds(t)
           /\ Coherent'
           /\ BroughtInBy(S)'
  <1>1. AnyAccess(t)
    BY DEF SoundAccess, AnyAccess
  <1>2. CacheInv' /\ BroughtInBy(S)'
    BY <1>1, AnyAccessKeepsInv, AccessBringsIn DEF Coherent
  <1>3. NoDuplicateTag'
    BY <1>2 DEF CacheInv
  <1>4. CASE RejectHit(t) \/ AnyRejectMiss(t)
    <2>1. Rejects(t)
      BY <1>3, <1>4, RejectSimulates
    <2> QED
      BY <1>2, <1>4, <2>1 DEF Rejects, Coherent
  <1>5. CASE ~(RejectHit(t) \/ AnyRejectMiss(t))
    <2>1. CASE UncachedAccess(t)
      BY <1>2, <1>5, <2>1, UncachedSimulates DEF Succeeds, Coherent
    <2>2. CASE AnyWriteAround(t) /\ t.mask # {} /\ ~CrossLine(t)
      BY <1>2, <1>5, <2>2, WriteAroundSimulates DEF Succeeds, Coherent
    <2>3. CASE AnyHit(t) \/ AnyMiss(t)
      BY <1>2, <1>3, <1>5, <2>3, HitSimulates, MissSimulates DEF Succeeds, Coherent
    <2> QED
      BY <1>5, <2>1, <2>2, <2>3 DEF SoundAccess
  <1> QED
    BY <1>4, <1>5

LEMMA StreamAccessIsSound ==
    ASSUME StreamIsSound, Coherent, NEW t \in Txns, Access(t)
    PROVE  Unaliased(Txns) /\ BroughtInBy(Txns) /\ SoundAccess(t)
  <1>1. Unaliased(Txns) /\ BroughtInBy(Txns)
    BY DEF StreamIsSound, NoAliasing, Coherent, CacheInv, ResidentWasAccessed,
           BroughtInBy
  <1>2. WriteAround(t) => t.mask # {} /\ ~CrossLine(t)
    BY DEF StreamIsSound, NoStrayWriteAround, WriteAround, GoesAround
  <1> QED
    BY <1>1, <1>2, PathIsAny DEF Access, SoundAccess

LEMMA AccessSimulates ==
    ASSUME StreamIsSound, Coherent, NEW t \in Txns, Access(t)
    PROVE  /\ Succeeds(t) \/ Rejects(t)
           /\ Coherent'
  BY StreamAccessIsSound, SoundAccessSimulates

LEMMA ResetSimulates ==
    ASSUME Coherent, Reset
    PROVE  Store!FallBack /\ Coherent'
  <1>1. CacheInv'
    BY ResetKeepsInv DEF Coherent
  <1>2. lines' = [s \in SetIds |-> [w \in WayIds |->
                    [lines[s][w] EXCEPT !.valid = FALSE, !.dirty = FALSE, !.tag = 0]]]
    BY DEF Reset
  <1>3. ASSUME NEW s \in SetIds, NEW w \in WayIds PROVE ~lines'[s][w].valid
    <2>1. lines[s][w] \in CacheLine
      BY DEF Coherent, CacheInv, TypeOK
    <2> QED
      BY <1>2, <2>1 DEF CacheLine
  <1>4. ASSUME NEW a \in Addrs PROVE View(a)' = memory[a]
    <2>1. a \in Nat /\ SetIdx(a) \in SetIds
      BY AddrsAssumption, AddressSplit
    <2>2. WaysHolding(a)' = {}
      BY <1>3, <2>1 DEF WaysHolding
    <2> QED
      BY <1>1, <2>1, <2>2, ViewAfter DEF CacheInv, Reset
  <1>5. Current' = memory
    BY <1>4 DEF Current, Coherent, CacheInv, TypeOK
  <1>6. Answer' = None /\ response'.raised = FALSE /\ memory' = memory
    BY DEF Reset, Answer, Response
  <1>7. CleanMatchesMemory'
    BY <1>3 DEF CleanMatchesMemory
  <1> QED
    BY <1>1, <1>5, <1>6, <1>7 DEF Store!FallBack, Coherent

LEMMA InitImplements == Init => Coherent /\ Store!StoreInit
  <1> SUFFICES ASSUME Init PROVE Coherent /\ Store!StoreInit
    OBVIOUS
  <1>1. \A s \in SetIds, w \in WayIds : ~lines[s][w].valid
    BY DEF Init
  <1>2. Coherent
    BY <1>1, InitInv DEF Coherent, CleanMatchesMemory
  <1>3. ASSUME NEW a \in Addrs PROVE View(a) = 0
    <2>1. a \in Nat /\ SetIdx(a) \in SetIds
      BY AddrsAssumption, AddressSplit
    <2>2. WaysHolding(a) = {}
      BY <1>1, <2>1 DEF WaysHolding
    <2> QED
      BY <2>1, <2>2, ViewOfAbsent DEF Init
  <1>4. Current = [a \in Addrs |-> 0] /\ memory = Current
    BY <1>3 DEF Current, Init
  <1>5. Answer = None /\ response.raised = FALSE
    BY DEF Init, Answer, Response
  <1> QED
    BY <1>2, <1>4, <1>5 DEF Store!StoreInit

LEMMA NextImplements ==
    ASSUME StreamIsSound, Coherent, [Next]_vars
    PROVE  [Store!StoreNext]_(Store!storeVars) /\ Coherent'
  <1>1. ASSUME NEW t \in Txns, Access(t)
        PROVE  Store!StoreNext /\ Coherent'
    BY <1>1, AccessSimulates DEF Succeeds, Rejects, LoadsCurrent, Store!StoreNext
  <1>2. CASE Reset
    BY <1>2, ResetSimulates DEF Store!StoreNext
  <1>3. CASE UNCHANGED vars
    <2>1. UNCHANGED <<Current, memory, Answer, response.raised>>
      BY <1>3 DEF vars, Current, View, Resident, WaysHolding, Answer
    <2>2. CacheInv'
      BY NextKeepsInv DEF Coherent
    <2>3. CleanMatchesMemory'
      BY <1>3 DEF vars, Coherent, CleanMatchesMemory
    <2> QED
      BY <2>1, <2>2, <2>3 DEF Store!storeVars, Coherent
  <1> QED
    BY <1>1, <1>2, <1>3 DEF Next

(***************************************************************************)
(* On a sound stream a clean line always equals memory, so that dropping   *)
(* it on eviction loses nothing.                                           *)
(***************************************************************************)
THEOREM CleanLinesMatch ==
    ASSUME StreamIsSound
    PROVE  Spec => []CleanMatchesMemory
  <1>1. Init => Coherent
    BY InitImplements
  <1>2. Coherent /\ [Next]_vars => Coherent'
    BY NextImplements
  <1>3. Coherent => CleanMatchesMemory
    BY DEF Coherent
  <1> QED
    BY <1>1, <1>2, <1>3, PTL DEF Spec

(***************************************************************************)
(* On a sound stream the cache is indistinguishable from the write-back    *)
(* store: the sets, the ways, the replacement policy, evictions and        *)
(* rejected accesses cannot be observed in the data.                       *)
(***************************************************************************)
THEOREM CacheImplementsStore ==
    ASSUME StreamIsSound
    PROVE  Spec => ImplementsStore
  <1>1. Init => Coherent /\ Store!StoreInit
    BY InitImplements
  <1>2. Coherent /\ [Next]_vars => Coherent'
    BY NextImplements
  <1>3. Coherent /\ [Next]_vars => [Store!StoreNext]_(Store!storeVars)
    BY NextImplements
  <1> QED
    BY <1>1, <1>2, <1>3, PTL DEF Spec, ImplementsStore, Store!StoreSpec

-----------------------------------------------------------------------------
(***************************************************************************)
(* The model regression never raises a false alarm, for every geometry and *)
(* policy, on every sound stream of accesses that stay in their lines.     *)
(***************************************************************************)
(***************************************************************************)
(* Equality of the oracle and the cache on the addresses read so far is    *)
(* not inductive; what is, is their equality on every address, together    *)
(* with the coherence of cache and memory that evictions rely on.          *)
(***************************************************************************)
RegressionInv ==
    /\ Coherent
    /\ RegressionTypeOK
    /\ status # "FAIL"
    /\ oracle = Current

LEMMA NothingRaised ==
    ASSUME NEW t, t.uncached \/ ~CrossLine(t), AnyAccess(t)
    PROVE  ~RejectHit(t) /\ ~AnyRejectMiss(t) /\ ~response'.raised
  <1>1. ~RejectHit(t) /\ ~AnyRejectMiss(t)
    BY DEF RejectHit, AnyRejectMiss
  <1>2. CASE UncachedAccess(t)
    BY <1>1, <1>2 DEF UncachedAccess, Response
  <1>3. CASE AnyWriteAround(t)
    BY <1>1, <1>3 DEF AnyWriteAround, Response
  <1>4. CASE AnyHit(t)
    BY <1>1, <1>4 DEF AnyHit, Response
  <1>5. CASE AnyMiss(t)
    BY <1>1, <1>5 DEF AnyMiss, AllocateResponse, Response
  <1> QED
    BY <1>1, <1>2, <1>3, <1>4, <1>5 DEF AnyAccess

LEMMA InitRegression == RegressionInit => RegressionInv
  <1> SUFFICES ASSUME RegressionInit PROVE RegressionInv
    OBVIOUS
  <1>1. Coherent /\ Store!StoreInit
    BY InitImplements DEF RegressionInit
  <1>2. oracle = Current
    BY <1>1 DEF RegressionInit, Store!StoreInit
  <1>3. RegressionTypeOK
    BY <1>1, ByteAssumption DEF RegressionInit, RegressionTypeOK, Coherent, CacheInv
  <1> QED
    BY <1>1, <1>2, <1>3 DEF RegressionInit, RegressionInv

LEMMA JudgedAccess ==
    ASSUME NEW S \in SUBSET Txns, Unaliased(S), BroughtInBy(S), Coherent,
           oracle \in [Addrs -> Byte], oracle = Current, status = "RUNNING",
           NEW t \in S, t.uncached \/ ~CrossLine(t), SoundAccess(t),
           IF response'.raised THEN AccessRaised ELSE CheckRead(t) \/ ApplyWrite(t)
    PROVE  /\ BroughtInBy(S)' /\ Coherent'
           /\ oracle' \in [Addrs -> Byte] /\ oracle' = Current'
           /\ status' = "RUNNING"
  <1>1. AnyAccess(t)
    BY DEF SoundAccess, AnyAccess
  <1>2. ~response'.raised /\ Succeeds(t) /\ Coherent' /\ BroughtInBy(S)'
    BY <1>1, NothingRaised, SoundAccessSimulates
  <1>3. CASE CheckRead(t)
    <2>1. LoadsCurrent(t)
      BY <1>2, <1>3 DEF CheckRead, Succeeds, Store!StoreBack, Store!StoreThrough
    <2>2. response'.data = Expected(t) /\ Current' = Current
      BY <2>1 DEF LoadsCurrent, Store!Load, Store!LoadBytes, Expected, Bytes
    <2> QED
      BY <1>2, <1>3, <2>2 DEF CheckRead
  <1>4. CASE ApplyWrite(t)
    <2>1. Current' = Store!Merge(Current, t)
      BY <1>2, <1>4
         DEF ApplyWrite, Succeeds, LoadsCurrent, Store!Load, Store!StoreBack,
             Store!StoreThrough
    <2>2. oracle' = Current'
      BY <1>4, <2>1 DEF ApplyWrite, Store!Merge
    <2>3. oracle' \in [Addrs -> Byte]
      BY <1>4, TxnType DEF ApplyWrite
    <2> QED
      BY <1>2, <1>4, <2>2, <2>3 DEF ApplyWrite
  <1> QED
    BY <1>2, <1>3, <1>4

LEMMA TransactionKeepsInv ==
    ASSUME StreamIsSound, NoCrossLine, RegressionInv, NEW t \in Txns, RunTransaction(t)
    PROVE  RegressionInv'
  <1>1. /\ Access(t) /\ status = "RUNNING" /\ Coherent
        /\ oracle = Current /\ oracle \in [Addrs -> Byte]
    BY DEF RunTransaction, RegressionInv, RegressionTypeOK
  <1>2. Unaliased(Txns) /\ BroughtInBy(Txns) /\ SoundAccess(t)
    BY <1>1, StreamAccessIsSound
  <1>3. t.uncached \/ ~CrossLine(t)
    BY DEF NoCrossLine
  <1>4. ~response'.raised
    BY <1>2, <1>3, NothingRaised DEF SoundAccess, AnyAccess
  <1>5. IF response'.raised THEN AccessRaised ELSE CheckRead(t) \/ ApplyWrite(t)
    BY <1>4 DEF RunTransaction, AccessRaised
  <1>6. /\ Coherent' /\ status' = "RUNNING"
        /\ oracle' \in [Addrs -> Byte] /\ oracle' = Current'
    BY <1>1, <1>2, <1>3, <1>5, JudgedAccess
  <1> QED
    BY <1>6 DEF RegressionInv, RegressionTypeOK, Coherent, CacheInv

LEMMA RegressionStep ==
    ASSUME StreamIsSound, NoCrossLine, RegressionInv,
           [RegressionNext]_regressionVars
    PROVE  RegressionInv'
  <1>1. ASSUME NEW t \in Txns, RunTransaction(t) PROVE RegressionInv'
    BY <1>1, TransactionKeepsInv
  <1>2. CASE EndOfStream \/ UNCHANGED regressionVars
    <2>1. UNCHANGED vars /\ UNCHANGED oracle
      BY <1>2 DEF EndOfStream, regressionVars, vars
    <2>2. Coherent' /\ Current' = Current
      <3>1. CacheInv'
        BY <2>1, NextKeepsInv DEF RegressionInv, Coherent
      <3>2. CleanMatchesMemory' /\ Current' = Current
        BY <2>1 DEF vars, RegressionInv, Coherent, CleanMatchesMemory,
                    Current, View, Resident, WaysHolding
      <3> QED
        BY <3>1, <3>2 DEF Coherent
    <2>3. status' \in {"RUNNING", "PASS"}
      BY <1>2 DEF EndOfStream, regressionVars, RegressionInv, RegressionTypeOK
    <2> QED
      BY <2>1, <2>2, <2>3 DEF RegressionInv, RegressionTypeOK, Coherent, CacheInv
  <1> QED
    BY <1>1, <1>2 DEF RegressionNext

(***************************************************************************)
(* NoFalseAlarm for every cache and every sound stream: no sequence of     *)
(* hits, fills, evictions and bypasses makes the byte oracle and the       *)
(* reference model disagree.                                               *)
(***************************************************************************)
THEOREM RegressionNeverFails ==
    ASSUME StreamIsSound, NoCrossLine
    PROVE  RegressionSpec => [](NoFalseAlarm /\ OracleAgrees)
  <1>1. RegressionInit => RegressionInv
    BY InitRegression
  <1>2. RegressionInv /\ [RegressionNext]_regressionVars => RegressionInv'
    BY RegressionStep
  <1>3. RegressionInv => NoFalseAlarm /\ OracleAgrees
    BY DEF RegressionInv, NoFalseAlarm, OracleAgrees
  <1> QED
    BY <1>1, <1>2, <1>3, PTL DEF RegressionSpec

-----------------------------------------------------------------------------
(***************************************************************************)
(* The accesses of the suite's caches: under every policy, an access is    *)
(* one of AnyAccess.                                                       *)
(***************************************************************************)
LEMMA UnderAddresses ==
    ASSUME NEW p \in Params
    PROVE  /\ Under(p)!WayIds = WayIds /\ Under(p)!Ranks = Ranks
           /\ \A a : /\ Under(p)!SetIdx(a) = SetIdx(a)
                     /\ Under(p)!Tag(a) = Tag(a)
                     /\ Under(p)!LineBase(a) = LineBase(a)
                     /\ Under(p)!WaysHolding(a) = WaysHolding(a)
           /\ \A t : Under(p)!CrossLine(t) <=> CrossLine(t)
           /\ \A w, W : Under(p)!IsFirst(w, W) <=> IsFirst(w, W)
           /\ \A s : Under(p)!InvalidWays(s) = InvalidWays(s)
  BY DEF Under!WayIds, WayIds, Under!Ranks, Ranks, Under!SetIdx, SetIdx, Under!Tag, Tag,
         Under!LineBase, LineBase, Under!Offset, Offset, Under!CrossLine, CrossLine,
         Under!WaysHolding, WaysHolding, Under!IsFirst, IsFirst,
         Under!InvalidWays, InvalidWays

LEMMA UnderMoveToFront ==
    ASSUME NEW p \in Params, NEW order, NEW w
    PROVE  Under(p)!MoveToFront(order, w) = MoveToFront(order, w)
  BY DEF Under!MoveToFront, MoveToFront, Under!Ranks, Ranks

LEMMA UnderResponses ==
    ASSUME NEW p \in Params
    PROVE  /\ \A data, hit : Under(p)!Response(data, hit) = Response(data, hit)
           /\ Under(p)!Raised = Raised
           /\ \A line, t : Under(p)!DataOf(line, t) = DataOf(line, t)
           /\ \A line, t : Under(p)!AfterAccess(line, t) = AfterAccess(line, t)
           /\ \A t : Under(p)!Bytes(t) = Bytes(t)
           /\ \A mem, t, mask : Under(p)!WriteMemory(mem, t, mask) = WriteMemory(mem, t, mask)
           /\ \A mem, t : Under(p)!ReadMemory(mem, t) = ReadMemory(mem, t)
           /\ Under(p)!NoData = NoData
  BY DEF Under!Response, Response, Under!Raised, Raised, Under!DataOf, DataOf,
         Under!LoadFrom, LoadFrom, Under!AfterAccess, AfterAccess, Under!StoreInto,
         StoreInto, Under!Bytes, Bytes, Under!WriteMemory, WriteMemory, Under!ReadMemory,
         ReadMemory, Under!NoData, NoData, Under!Offset, Offset, Under!LineBase, LineBase,
         Under!Offsets, Offsets

LEMMA UnderEvictions ==
    ASSUME NEW p \in Params
    PROVE  /\ \A s : Under(p)!Evicts(s) <=> Evicts(s)
           /\ \A s, w : Under(p)!EvictsDirty(s, w) <=> EvictsDirty(s, w)
           /\ \A s, w : Under(p)!VictimBase(s, w) = VictimBase(s, w)
           /\ \A s, w : Under(p)!MemoryAfterEviction(s, w) = MemoryAfterEviction(s, w)
           /\ \A t, w : Under(p)!FilledLine(t, w) = FilledLine(t, w)
  BY DEF Under!Evicts, Evicts, Under!EvictsDirty, EvictsDirty, Under!VictimBase, VictimBase,
         Under!AddrFromTagSet, AddrFromTagSet, Under!MemoryAfterEviction,
         MemoryAfterEviction, Under!WriteLine, WriteLine, Under!FilledLine, FilledLine,
         Under!ReadLine, ReadLine, Under!InvalidWays, InvalidWays, Under!WayIds, WayIds,
         Under!Offsets, Offsets, Under!SetIdx, SetIdx, Under!Tag, Tag, Under!LineBase,
         LineBase

LEMMA UnderAllocateResponse ==
    ASSUME NEW p \in Params, NEW t, NEW w, NEW data
    PROVE  Under(p)!AllocateResponse(t, w, data) = AllocateResponse(t, w, data)
  BY DEF Under!AllocateResponse, AllocateResponse, Under!Response, Response,
         Under!Evicts, Evicts, Under!EvictsDirty, EvictsDirty, Under!VictimBase, VictimBase,
         Under!AddrFromTagSet, AddrFromTagSet, Under!InvalidWays, InvalidWays,
         Under!WayIds, WayIds, Under!SetIdx, SetIdx

LEMMA UnderAllocate ==
    ASSUME NEW p \in Params, NEW t, NEW w, Under(p)!Allocate(t, w)
    PROVE  AnyAllocate(t, w)
  <1> DEFINE s == SetIdx(t.addr)
  <1>1. /\ w \in WayIds /\ WaysHolding(t.addr) = {}
        /\ IsFirst(w, InvalidWays(s)) \/ InvalidWays(s) = {}
    BY UnderAddresses DEF Under!Allocate, Under!IsAllocated
  <1>2. /\ memory' = MemoryAfterEviction(s, w)
        /\ last_writeback' = IF EvictsDirty(s, w)
                             THEN [addr |-> VictimBase(s, w), data |-> lines[s][w].data]
                             ELSE last_writeback
    BY UnderAddresses, UnderEvictions DEF Under!Allocate
  <1>3. fifo' = fifo \/ fifo' = [fifo EXCEPT ![s] = MoveToFront(fifo[s], w)]
    <2>1. Under(p)!SetIdx(t.addr) = s
      BY UnderAddresses
    <2>2. Under(p)!MoveToFront(fifo[s], w) = MoveToFront(fifo[s], w)
      BY UnderMoveToFront
    <2> HIDE DEF s
    <2> QED
      BY <2>1, <2>2 DEF Under!Allocate
  <1> QED
    BY <1>1, <1>2, <1>3 DEF AnyAllocate

LEMMA UnderTouch ==
    ASSUME NEW p \in Params, NEW s, NEW w, Under(p)!Touch(s, w)
    PROVE  AnyTouch(s, w)
  BY UnderMoveToFront DEF Under!Touch, AnyTouch

LEMMA UnderAccess ==
    ASSUME NEW p \in Params, NEW t, Under(p)!Access(t),
           t.op = "write" /\ ~t.uncached => t.mask # {} /\ ~CrossLine(t)
    PROVE  SoundAccess(t)
  <1> DEFINE s == SetIdx(t.addr)
  <1>1. CASE Under(p)!UncachedAccess(t)
    <2>1. UncachedAccess(t)
      BY <1>1, UnderResponses DEF Under!UncachedAccess, UncachedAccess
    <2> QED
      BY <2>1 DEF SoundAccess
  <1>2. CASE Under(p)!WriteAround(t)
    <2>1. ~t.uncached /\ t.op = "write" /\ WaysHolding(t.addr) = {}
      BY <1>2, UnderAddresses DEF Under!WriteAround, Under!GoesAround
    <2>2. memory' = WriteMemory(memory, t, IF t.mask = {} THEN Bytes(t) ELSE t.mask)
      BY <1>2, UnderResponses DEF Under!WriteAround
    <2>3. response' = Response(NoData, FALSE) /\ UNCHANGED <<lines, lru, fifo, last_writeback>>
      BY <1>2, UnderResponses DEF Under!WriteAround
    <2>4. AnyWriteAround(t)
      BY <2>1, <2>2, <2>3 DEF AnyWriteAround
    <2> QED
      BY <2>1, <2>4 DEF SoundAccess
  <1>3. CASE Under(p)!Hit(t)
    <2>1. AnyHit(t)
      <3>1. PICK w \in WayIds :
              /\ ~t.uncached /\ ~CrossLine(t)
              /\ IsFirst(w, WaysHolding(t.addr))
              /\ lines' = [lines EXCEPT ![s][w] = AfterAccess(lines[s][w], t)]
              /\ Under(p)!Touch(s, w)
              /\ response' = Response(DataOf(lines[s][w], t), TRUE)
              /\ UNCHANGED <<fifo, memory, last_writeback>>
        BY <1>3, UnderAddresses, UnderResponses DEF Under!Hit
      <3> QED
        BY <3>1, UnderTouch DEF AnyHit
    <2> QED
      BY <2>1 DEF SoundAccess
  <1>4. CASE Under(p)!Miss(t)
    <2>1. AnyMiss(t)
      <3>1. PICK w \in WayIds :
              /\ ~t.uncached /\ ~CrossLine(t)
              /\ Under(p)!Allocate(t, w)
              /\ lines' = [lines EXCEPT ![s][w] = AfterAccess(FilledLine(t, w), t)]
              /\ Under(p)!Touch(s, w)
              /\ response' = AllocateResponse(t, w, DataOf(FilledLine(t, w), t))
        <4>1. /\ Under(p)!SetIdx(t.addr) = s /\ Under(p)!WayIds = WayIds
              /\ Under(p)!CrossLine(t) <=> CrossLine(t)
          BY UnderAddresses
        <4>2. ASSUME NEW w
              PROVE  LET line == FilledLine(t, w)
                     IN  /\ Under(p)!FilledLine(t, w) = line
                         /\ Under(p)!AfterAccess(line, t) = AfterAccess(line, t)
                         /\ Under(p)!AllocateResponse(t, w, Under(p)!DataOf(line, t)) =
                               AllocateResponse(t, w, DataOf(line, t))
          BY UnderEvictions, UnderResponses, UnderAllocateResponse
        <4> HIDE DEF s
        <4> QED
          BY <1>4, <4>1, <4>2 DEF Under!Miss
      <3> QED
        BY <3>1, UnderAllocate, UnderTouch DEF AnyMiss
    <2> QED
      BY <2>1 DEF SoundAccess
  <1>5. CASE Under(p)!RejectHit(t)
    <2>1. RejectHit(t)
      BY <1>5, UnderAddresses, UnderResponses DEF Under!RejectHit, RejectHit
    <2> QED
      BY <2>1 DEF SoundAccess
  <1>6. CASE Under(p)!RejectMiss(t)
    <2>1. AnyRejectMiss(t)
      BY <1>6, UnderAddresses, UnderResponses, UnderEvictions, UnderAllocate
         DEF Under!RejectMiss, AnyRejectMiss
    <2> QED
      BY <2>1 DEF SoundAccess
  <1> QED
    BY <1>1, <1>2, <1>3, <1>4, <1>5, <1>6 DEF Under!Access

LEMMA RefAccessIsSound ==
    ASSUME NEW t, SoundTxns({t}), AccessRef(t)
    PROVE  SoundAccess(t)
  <1>1. PICK p \in Params : Under(p)!Access(t)
    BY DEF AccessRef
  <1>2. t.op = "write" /\ ~t.uncached => t.mask # {} /\ ~CrossLine(t)
    BY DEF SoundTxns
  <1> QED
    BY <1>1, <1>2, UnderAccess

-----------------------------------------------------------------------------
(***************************************************************************)
(* What the random methods return is sound.                                *)
(***************************************************************************)
LEMMA RandomStaysInLine ==
    ASSUME NEW t \in Txns, CanBeRandom(t) PROVE ~CrossLine(t)
  <1>1. Offset(t.addr) \in Nat /\ t.size \in Nat /\ LineBytes \in Nat
    <2>1. t.addr \in Nat /\ t.size \in {1, 2, 4, 8}
      BY TxnType
    <2>2. Offset(t.addr) \in Offsets
      BY <2>1, AddressSplit
    <2> QED
      BY <2>1, <2>2, LineBytesAssumption DEF Offsets
  <1>2. Offset(t.addr) <= LineBytes - t.size
    BY DEF CanBeRandom, CanBeRandomAddr
  <1> QED
    BY <1>1, <1>2 DEF CrossLine

LEMMA LineSplit ==
    ASSUME NEW a \in Nat
    PROVE  /\ a \div LineBytes \in Nat
           /\ a % LineBytes \in Offsets
           /\ a = (a \div LineBytes) * LineBytes + (a % LineBytes)
  BY DivModSplit, LineBytesAssumption DEF Offsets

LEMMA OffsetOf ==
    ASSUME NEW n \in Nat, NEW r \in Offsets PROVE Offset(n * LineBytes + r) = r
  <1>1. (n * LineBytes + r) % LineBytes = r
    BY DivModOfSum, LineBytesAssumption DEF Offsets
  <1>2. n * LineBytes + r \in Int /\ r \in Int
    BY LineBytesAssumption DEF Offsets
  <1> QED
    BY <1>1, <1>2 DEF Offset, LineBase

LEMMA WeightedStaysInLine ==
    ASSUME NEW t \in Txns, CanBeWeighted(t) PROVE ~CrossLine(t)
  <1> DEFINE d == LineBytes * Ways
             q == t.addr \div d
             r == t.addr % d
  <1>1. LineBytes \in Nat \ {0} /\ Ways \in Nat \ {0} /\ d \in Nat \ {0}
    BY LineBytesAssumption, WaysAssumption
  <1>2. t.addr \in Nat /\ t.size \in {1, 2, 4, 8}
    BY TxnType
  <1>3. q \in Nat /\ r \in Nat /\ t.addr = q * d + r
    <2>1. d \in Nat \ {0} /\ t.addr \in Nat
      BY <1>1, <1>2
    <2>2. q \in Nat /\ r \in 0 .. d - 1 /\ t.addr = q * d + r
      <3> HIDE DEF d
      <3> QED
        BY <2>1, DivModSplit
    <2> QED
      BY <2>2
  <1>4. r <= LineBytes - 8
    BY DEF CanBeWeighted
  <1>5. r \in Offsets
    BY <1>1, <1>3, <1>4 DEF Offsets
  <1>6. q * Ways \in Nat /\ q * d = (q * Ways) * LineBytes
    BY <1>1, <1>3
  <1>7. Offset(t.addr) = r
    <2> HIDE DEF d, q, r
    <2> QED
      BY <1>3, <1>5, <1>6, OffsetOf
  <1> HIDE DEF d, q, r
  <1> QED
    BY <1>1, <1>2, <1>3, <1>4, <1>7 DEF CrossLine

LEMMA ShiftedOffset ==
    ASSUME NEW base \in Nat, base % LineBytes = 0, NEW a \in Nat
    PROVE  Offset(base + a) = a % LineBytes
  <1>1. PICK m \in Nat : base = m * LineBytes + (base % LineBytes)
    BY LineSplit, Zenon
  <1>2. PICK n \in Nat : a = n * LineBytes + (a % LineBytes)
    BY LineSplit, Zenon
  <1>3. a % LineBytes \in Offsets
    BY LineSplit, Zenon
  <1> DEFINE r == a % LineBytes
  <1>4. base = m * LineBytes /\ a = n * LineBytes + r /\ r \in Nat /\ LineBytes \in Nat
    <2>1. base = m * LineBytes + 0
      BY <1>1, Zenon
    <2>2. m * LineBytes + 0 = m * LineBytes
      BY LineBytesAssumption
    <2>3. r \in Nat
      BY <1>3 DEF Offsets
    <2> QED
      BY <1>2, <2>1, <2>2, <2>3, LineBytesAssumption, Zenon
  <1> HIDE DEF r
  <1>5. base + a = (m + n) * LineBytes + r /\ m + n \in Nat
    BY <1>4
  <1>6. r \in Offsets
    BY <1>3 DEF r
  <1>7. Offset(base + a) = r
    BY <1>5, <1>6, OffsetOf
  <1> QED
    BY <1>7 DEF r

LEMMA ImpliedStaysInLine ==
    ASSUME LineBytes >= 8, ImplicationBase % LineBytes = 0, NEW t \in Txns, CanBeImplied(t)
    PROVE  ~CrossLine(t)
  <1>1. t.addr \in Nat /\ t.size \in {1, 2, 4, 8}
    BY TxnType
  <1>2. PICK a \in Nat : a = t.addr - ImplicationBase
    BY <1>1 DEF CanBeImplied
  <1>3. t.addr = ImplicationBase + a /\ ImplicationBase \in Nat
    BY <1>1, <1>2 DEF ImplicationBase
  <1>4. Offset(ImplicationBase + a) = a % LineBytes
    BY <1>2, <1>3, ShiftedOffset, Zenon
  <1>5. PICK r \in Offsets : r = a % LineBytes
    BY <1>2, LineSplit, Zenon
  <1>6. (r = 0 /\ t.size = 8) \/ r \in 1 .. LineBytes - t.size
    BY <1>2, <1>5, Zenon DEF CanBeImplied
  <1>7. Offset(t.addr) = r
    BY <1>3, <1>4, <1>5
  <1> QED
    BY <1>1, <1>6, <1>7, LineBytesAssumption DEF CrossLine, Offsets

(***************************************************************************)
(* Whatever random_txn, weighted_stream and implication_stream return, with*)
(* the uncached weight at 0 and lines as wide as the widest access, can be *)
(* judged by the oracle: cached, inside one line, no write without a mask. *)
(***************************************************************************)
THEOREM RandomTxnsAreSound ==
    ASSUME Sample \subseteq Txns, UncachedWeight = 0,
           LineBytes >= 8, ImplicationBase % LineBytes = 0
    PROVE  RandomTxns \subseteq Txns /\ SoundTxns(RandomTxns)
  <1>1. ASSUME NEW t \in RandomTxns
        PROVE  ~t.uncached /\ ~CrossLine(t) /\ (t.op = "write" => t.mask # {})
    <2>1. /\ t \in Txns
          /\ CanBeRandom(t) \/ CanBeWeighted(t) \/ CanBeImplied(t)
      BY DEF RandomTxns
    <2>2. ~CrossLine(t)
      BY <2>1, RandomStaysInLine, WeightedStaysInLine, ImpliedStaysInLine
    <2>3. ~t.uncached
      BY <2>1 DEF CanBeRandom, CanBeWeighted, CanBeImplied
    <2>4. {} \notin WeightedMasks(t.size)
      <3>1. 0 \in Full(t.size)
        BY <2>1, TxnType DEF Full
      <3> DEFINE options ==
                   <<Full(8), 0 .. 3, 4 .. 7, {0}, {4}, {0, 4}, {0, 2, 4, 6}, {1, 3, 5, 7}>>
                 chosen(i) == IF options[i] \cap Full(t.size) = {} THEN Full(t.size)
                              ELSE options[i] \cap Full(t.size)
      <3>2. WeightedMasks(t.size) = {chosen(i) : i \in 1 .. t.size}
        BY DEF WeightedMasks
      <3>3. \A i \in 1 .. t.size : chosen(i) # {}
        <4> HIDE DEF options
        <4> QED
          BY <3>1
      <3> HIDE DEF chosen
      <3> QED
        BY <3>2, <3>3
    <2>5. t.op = "write" => t.mask # {}
      <3>1. CanBeRandom(t) /\ t.op = "write" => t.mask # {}
        BY DEF CanBeRandom
      <3>2. CanBeWeighted(t) /\ t.op = "write" => t.mask \in WeightedMasks(t.size)
        BY DEF CanBeWeighted
      <3>3. CanBeImplied(t) /\ t.op = "write" => t.mask # {}
        BY DEF CanBeImplied
      <3> QED
        BY <2>1, <2>4, <3>1, <3>2, <3>3
    <2> QED
      BY <2>2, <2>3, <2>5
  <1>2. RandomTxns \subseteq Txns
    BY DEF RandomTxns
  <1> QED
    BY <1>1, <1>2 DEF SoundTxns, Unaliased

-----------------------------------------------------------------------------
(***************************************************************************)
(* The regression programs.  What is kept from one job to the next is only *)
(* that nothing failed; a job with an oracle builds the rest itself.       *)
(***************************************************************************)
JobTxns(job) ==
    CASE job = "smoke" -> TxnsOf(SmokeStream)
      [] job = "directed" -> TxnsOf(DirectedStream)
      [] job = "crv" -> RandomTxns

StreamInv(S) ==
    /\ status = "RUNNING"
    /\ Coherent
    /\ BroughtInBy(S)
    /\ oracle \in [Addrs -> Byte]
    /\ oracle = Current

JobNames ==
    {"smoke", "directed", "crv", "closure", "fifo", "evidence_directed", "evidence_crv",
     "clean_write_miss", "flip_read_bit", "drop_mask_bit", "corrupt_writeback_byte",
     "swap_order", "flip_tag_match", "corrupt_writeback_addr"}

SuiteInv ==
    /\ \/ todo \in Seq(JobNames) \ {<<>>} /\ status = "RUNNING"
       \/ todo = <<"done">> /\ status \in {"PASS", "INCOMPLETE"}
    /\ index \in Nat \ {0}
    /\ params \in Params
    /\ \A job \in OracleJobs : Job = job => StreamInv(JobTxns(job))

\* The fixed streams fit the cache, and the generator makes nothing uncached in lines
\* that hold its widest access and divide the base address of implication_stream.
SuiteAssumptions ==
    /\ FixedStreamsAreSound
    /\ Sample \subseteq Txns
    /\ UncachedWeight = 0
    /\ LineBytes >= 8
    /\ ImplicationBase % LineBytes = 0

LEMMA JobTxnsAreSound ==
    ASSUME SuiteAssumptions, NEW job \in OracleJobs
    PROVE  JobTxns(job) \in SUBSET Txns /\ SoundTxns(JobTxns(job))
  <1>1. ASSUME NEW stream \in {SmokeStream, DirectedStream}
        PROVE  TxnsOf(stream) \in SUBSET Txns /\ SoundTxns(TxnsOf(stream))
    <2>1. stream \in Seq(Txns) /\ SoundTxns(TxnsOf(stream))
      BY DEF SuiteAssumptions, FixedStreamsAreSound
    <2>2. \A i \in 1 .. Len(stream) : stream[i] \in Txns
      BY <2>1
    <2> QED
      BY <2>1, <2>2 DEF TxnsOf
  <1>2. RandomTxns \in SUBSET Txns /\ SoundTxns(RandomTxns)
    BY RandomTxnsAreSound DEF SuiteAssumptions
  <1> QED
    BY <1>1, <1>2 DEF OracleJobs, JobTxns

LEMMA SoundTxn ==
    ASSUME NEW S, SoundTxns(S), NEW t \in S
    PROVE  SoundTxns({t}) /\ Unaliased(S) /\ (t.uncached \/ ~CrossLine(t))
  BY DEF SoundTxns, Unaliased

LEMMA JudgedRefAccess ==
    ASSUME NEW S \in SUBSET Txns, SoundTxns(S), StreamInv(S), NEW t \in S, AccessRef(t),
           IF response'.raised THEN AccessRaised ELSE CheckRead(t) \/ ApplyWrite(t)
    PROVE  StreamInv(S)'
  <1>1. Unaliased(S) /\ (t.uncached \/ ~CrossLine(t)) /\ SoundAccess(t)
    BY SoundTxn, RefAccessIsSound
  <1> QED
    BY <1>1, JudgedAccess DEF StreamInv

\* The stream goes on, with the same job.
SameJob ==
    /\ UNCHANGED <<todo, params>>
    /\ index' \in Nat \ {0}

LEMMA JobGoesOn ==
    ASSUME SuiteInv, SameJob, NEW job \in OracleJobs, Job = job, StreamInv(JobTxns(job))'
    PROVE  SuiteInv'
  <1>1. Job' = job
    BY DEF SameJob, Job
  <1>2. status' = "RUNNING"
    BY DEF StreamInv
  <1>3. todo # <<"done">>
    BY DEF Job, OracleJobs
  <1> QED
    BY <1>1, <1>2, <1>3 DEF SuiteInv, SameJob

LEMMA OtherJobGoesOn ==
    ASSUME SuiteInv, SameJob, Job \notin OracleJobs, status' = status
    PROVE  SuiteInv'
  <1>1. Job' = Job
    BY DEF SameJob, Job
  <1> QED
    BY <1>1 DEF SuiteInv, SameJob

LEMMA RunNamedKeepsInv ==
    ASSUME SuiteAssumptions, SuiteInv, RunNamed
    PROVE  SuiteInv'
  <1>1. PICK job \in {"smoke", "directed"} : job = Job
    BY DEF RunNamed
  <1>2. job \in OracleJobs
    BY DEF OracleJobs
  <1> DEFINE S == JobTxns(job)
  <1>3. S \in SUBSET Txns /\ SoundTxns(S)
    BY <1>2, JobTxnsAreSound
  <1>4. StreamInv(S)
    BY <1>1, <1>2 DEF SuiteInv
  <1>5. PICK t \in S : t = Stream(Job)[index]
    <2>1. Stream(job) \in Seq(Txns) /\ S = TxnsOf(Stream(job))
      <3>1. /\ job = "smoke" => Stream(job) = SmokeStream /\ S = TxnsOf(SmokeStream)
            /\ job = "directed" => Stream(job) = DirectedStream /\ S = TxnsOf(DirectedStream)
        BY DEF Stream, JobTxns, IsFaultTest, Faults, ResponseFaults
      <3> QED
        BY <3>1 DEF SuiteAssumptions, FixedStreamsAreSound
    <2>2. index \in 1 .. Len(Stream(job))
      BY <1>1, <2>1 DEF RunNamed, SuiteInv
    <2> QED
      BY <1>1, <2>1, <2>2 DEF TxnsOf
  <1>6. /\ AccessRef(t)
        /\ IF response'.raised THEN AccessRaised ELSE CheckRead(t) \/ ApplyWrite(t)
    BY <1>5 DEF RunNamed
  <1>7. StreamInv(S)'
    BY <1>3, <1>4, <1>5, <1>6, JudgedRefAccess
  <1>8. SameJob
    BY DEF RunNamed, SameJob, SuiteInv
  <1> QED
    BY <1>1, <1>2, <1>7, <1>8, JobGoesOn

LEMMA TakeRandomKeepsInv ==
    ASSUME SuiteAssumptions, SuiteInv, TakeRandom
    PROVE  SuiteInv'
  <1> DEFINE S == JobTxns("crv")
  <1>1. "crv" \in OracleJobs /\ Job = "crv" /\ S = RandomTxns
    BY DEF OracleJobs, TakeRandom, JobTxns
  <1>2. S \in SUBSET Txns /\ SoundTxns(S)
    BY <1>1, JobTxnsAreSound
  <1>3. StreamInv(S)
    BY <1>1 DEF SuiteInv
  <1>4. PICK t \in S :
          /\ AccessRef(t)
          /\ IF response'.raised THEN AccessRaised ELSE CheckRead(t) \/ ApplyWrite(t)
    BY <1>1 DEF TakeRandom
  <1>5. StreamInv(S)'
    BY <1>2, <1>3, <1>4, JudgedRefAccess
  <1>6. SameJob
    BY DEF TakeRandom, SameJob, SuiteInv
  <1> QED
    BY <1>1, <1>5, <1>6, JobGoesOn

\* The closure has no oracle, and nothing in its stream raises.
LEMMA RunClosureKeepsInv ==
    ASSUME SuiteAssumptions, SuiteInv, RunClosure
    PROVE  SuiteInv'
  <1>1. ClosureStream \in Seq(Txns) /\ SoundTxns(TxnsOf(ClosureStream))
    BY DEF SuiteAssumptions, FixedStreamsAreSound
  <1>2. index \in 1 .. Len(ClosureStream)
    BY <1>1 DEF RunClosure, SuiteInv
  <1>3. PICK t \in TxnsOf(ClosureStream) : t = ClosureStream[index]
    BY <1>2 DEF TxnsOf
  <1>4. AccessRef(t) /\ status' = IF response'.raised THEN "FAIL" ELSE status
    BY <1>3 DEF RunClosure
  <1>5. SoundAccess(t) /\ (t.uncached \/ ~CrossLine(t))
    BY <1>1, <1>4, SoundTxn, RefAccessIsSound
  <1>6. ~response'.raised
    BY <1>5, NothingRaised DEF SoundAccess, AnyAccess
  <1>7. Job \notin OracleJobs /\ SameJob
    BY DEF RunClosure, OracleJobs, SameJob, SuiteInv
  <1> QED
    BY <1>4, <1>6, <1>7, OtherJobGoesOn DEF SuiteInv

LEMMA OtherJobKeepsInv ==
    ASSUME SuiteInv,
           RunFifo \/ CollectDirected \/ CollectRandom \/ CollectCleanWriteMiss \/ RunFaultTest
    PROVE  SuiteInv'
  <1>1. Job \notin OracleJobs
    BY DEF RunFifo, CollectDirected, CollectRandom, CollectCleanWriteMiss, RunFaultTest,
           IsFaultTest, Faults, ResponseFaults, OracleJobs
  <1>2. SameJob /\ status' = status
    <2>1. UNCHANGED <<todo, params, status>> /\ index' = index + 1
      BY DEF RunFifo, CollectDirected, CollectRandom, CollectCleanWriteMiss, RunFaultTest
    <2> QED
      BY <2>1 DEF SameJob, SuiteInv
  <1> QED
    BY <1>1, <1>2, OtherJobGoesOn DEF SuiteInv

\* A job with an oracle starts from new models.
LEMMA NewRefIsInit == NewRef(Sets, Ways) => Init'
  BY DEF NewRef, Init, Emptied, Ordered, Zeroed, InitialOrder, SetIds, WayIds, Ranks

LEMMA InitCoherent == Init => Coherent /\ Current = Zeroed
  <1> SUFFICES ASSUME Init PROVE Coherent /\ Current = Zeroed
    OBVIOUS
  <1> QED
    BY InitImplements DEF Store!StoreInit, Zeroed

LEMMA NextJobKeepsInv ==
    ASSUME SuiteInv, NextJob, (Init => Coherent /\ Current = Zeroed)'
    PROVE  SuiteInv'
  <1>1. todo' \in Seq(JobNames) \ {<<>>} /\ Job' = todo[2]
    <2>1. todo \in Seq(JobNames) /\ Len(todo) > 1 /\ todo' = Tail(todo)
      <3>1. Len(<<"done">>) = 1
        OBVIOUS
      <3> QED
        BY <3>1 DEF SuiteInv, NextJob
    <2>2. /\ Tail(todo) \in Seq(JobNames) /\ Len(Tail(todo)) = Len(todo) - 1
          /\ Tail(todo)[1] = todo[2]
      BY <2>1
    <2>3. Tail(todo) # <<>>
      <3>1. Len(todo) \in Nat
        BY <2>1, LenProperties
      <3>2. Len(Tail(todo)) # 0
        BY <2>1, <2>2, <3>1
      <3> QED
        BY <3>2, EmptySeq, Zenon
    <2> QED
      BY <2>1, <2>2, <2>3 DEF Job
  <1>2. index' = 1 /\ params' = params /\ status' = "RUNNING" /\ oracle' = Zeroed
    BY DEF NextJob
  <1>3. ASSUME NEW job \in OracleJobs, Job' = job
        PROVE  StreamInv(JobTxns(job))'
    <2>1. NewRef(Sets, Ways)
      BY <1>1, <1>3 DEF NextJob, NewModels, KeepsRef, OneWayFaults, OracleJobs
    <2>2. Coherent' /\ Current' = Zeroed
      BY <2>1, NewRefIsInit DEF Zeroed
    <2>3. BroughtInBy(JobTxns(job))'
      BY <2>1 DEF NewRef, Emptied, BroughtInBy, SetIds, WayIds
    <2>4. Zeroed \in [Addrs -> Byte]
      BY ByteAssumption DEF Zeroed
    <2> QED
      BY <1>2, <2>2, <2>3, <2>4 DEF StreamInv
  <1> QED
    BY <1>1, <1>2, <1>3 DEF SuiteInv

LEMMA FinishKeepsInv ==
    ASSUME SuiteInv, Finish
    PROVE  SuiteInv'
  <1>1. todo' = <<"done">> /\ Job' \notin OracleJobs
    <2>1. todo' = <<"done">>
      BY DEF Finish
    <2>2. <<"done">>[1] = "done"
      OBVIOUS
    <2> QED
      BY <2>1, <2>2 DEF Job, OracleJobs
  <1>2. status' \in {"PASS", "INCOMPLETE"} /\ UNCHANGED <<index, params>>
    BY DEF Finish
  <1> QED
    BY <1>1, <1>2 DEF SuiteInv

LEMMA SuiteStutters ==
    ASSUME SuiteInv, UNCHANGED suiteVars
    PROVE  SuiteInv'
  <1>1. UNCHANGED <<vars, oracle, status, todo, index, params>>
    BY DEF suiteVars
  <1>2. Job' = Job
    BY <1>1 DEF Job
  <1>3. Coherent => Coherent'
    <2>1. Coherent => CacheInv'
      BY <1>1, NextKeepsInv DEF Coherent
    <2> QED
      BY <1>1, <2>1 DEF vars, Coherent, CleanMatchesMemory
  <1>4. Current' = Current
    BY <1>1 DEF vars, Current, View, Resident, WaysHolding
  <1>5. ASSUME NEW S PROVE BroughtInBy(S) => BroughtInBy(S)'
    BY <1>1 DEF vars, BroughtInBy
  <1>6. ASSUME NEW S PROVE StreamInv(S) => StreamInv(S)'
    BY <1>1, <1>3, <1>4, <1>5 DEF StreamInv
  <1> QED
    BY <1>1, <1>2, <1>6 DEF SuiteInv

LEMMA InitSuite == SuiteInit => SuiteInv
  <1> SUFFICES ASSUME SuiteInit PROVE SuiteInv
    OBVIOUS
  <1>1. todo \in Seq(JobNames) \ {<<>>}
    <2>1. FaultTests \in Seq(JobNames) /\ Len(FaultTests) = 6
      BY DEF FaultTests, JobNames
    <2>2. \A s \in Seq(JobNames) : s \o FaultTests \in Seq(JobNames) /\ s \o FaultTests # <<>>
      <3> TAKE s \in Seq(JobNames)
      <3>1. /\ s \o FaultTests \in Seq(JobNames)
            /\ Len(s \o FaultTests) = Len(s) + Len(FaultTests)
        BY <2>1, ConcatProperties, Zenon
      <3>2. Len(s) \in Nat
        BY LenProperties
      <3> QED
        BY <2>1, <3>1, <3>2, EmptySeq
    <2>3. /\ <<"smoke", "directed", "crv", "closure", "fifo">> \in Seq(JobNames)
          /\ <<"crv">> \in Seq(JobNames) /\ <<"crv">> # <<>>
          /\ <<"evidence_directed", "evidence_crv", "fifo", "clean_write_miss">> \in Seq(JobNames)
      BY DEF JobNames
    <2>4. todo = Jobs(flow) /\ flow \in {"core", "enhanced", "large_scale", "evidence"}
      BY DEF SuiteInit
    <2>5. /\ flow = "core" => todo = <<"smoke", "directed", "crv", "closure", "fifo">> \o FaultTests
          /\ flow = "enhanced" => todo = <<"crv">> \o FaultTests
          /\ flow = "large_scale" => todo = <<"crv">>
          /\ flow = "evidence" =>
                todo = <<"evidence_directed", "evidence_crv", "fifo", "clean_write_miss">>
                       \o FaultTests
      BY <2>4 DEF Jobs
    <2> QED
      BY <2>2, <2>3, <2>4, <2>5
  <1>2. index \in Nat \ {0} /\ params \in Params
    <2>1. index = 1 /\ params \in Params \cup {DefaultParams}
      BY DEF SuiteInit
    <2>2. DefaultParams \in Params
      BY DEF DefaultParams, Params
    <2> QED
      BY <2>1, <2>2
  <1>3. RegressionInit /\ Init
    BY DEF SuiteInit, RegressionInit
  <1>4. RegressionInv /\ status = "RUNNING"
    BY <1>3, InitRegression DEF RegressionInit
  <1>5. ASSUME NEW S PROVE StreamInv(S)
    <2>1. BroughtInBy(S)
      BY <1>3 DEF Init, BroughtInBy
    <2> QED
      BY <1>4, <2>1 DEF StreamInv, RegressionInv, RegressionTypeOK
  <1> QED
    BY <1>1, <1>2, <1>4, <1>5 DEF SuiteInv

LEMMA SuiteStep ==
    ASSUME SuiteAssumptions
    PROVE  SuiteInv /\ [SuiteNext]_suiteVars => SuiteInv'
  <1>1. (Init => Coherent /\ Current = Zeroed)'
    BY InitCoherent, PTL
  <1> QED
    BY <1>1, RunNamedKeepsInv, TakeRandomKeepsInv, RunClosureKeepsInv, OtherJobKeepsInv,
       NextJobKeepsInv, FinishKeepsInv, SuiteStutters
       DEF SuiteNext, RunSeed, RunLargeScale

(***************************************************************************)
(* No regression program reports a failure of the fault-free model, and    *)
(* wherever a stream runs against the oracle, the two agree on every byte: *)
(* under each of the four policies, for every geometry the fixed streams   *)
(* are sound for, and whatever the random methods make, as long as they    *)
(* make nothing uncached.                                                  *)
(***************************************************************************)
THEOREM SuiteNeverFails ==
    ASSUME SuiteAssumptions
    PROVE  SuiteSpec => [](NoFalseAlarm /\ StreamOracleAgrees)
  <1>1. SuiteInit => SuiteInv
    BY InitSuite
  <1>2. SuiteInv /\ [SuiteNext]_suiteVars => SuiteInv'
    BY SuiteStep
  <1>3. SuiteInv => NoFalseAlarm /\ StreamOracleAgrees
    BY DEF SuiteInv, StreamInv, NoFalseAlarm, StreamOracleAgrees, OracleAgrees
  <1> QED
    BY <1>1, <1>2, <1>3, PTL DEF SuiteSpec

(***************************************************************************)
(* The verdicts, as far as they do not depend on the faults a fixed stream *)
(* detects or the bins it covers.                                          *)
(***************************************************************************)
VerdictInv ==
    /\ \A r \in results : r[1] \in Faults \/ r[2]
    /\ flow = "large_scale" =>
          \/ todo = <<"crv">> /\ results = {}
          \/ todo = <<"done">> /\ status = "PASS" /\ AllPassed(results)

LEMMA PassedUnlessFaulty ==
    ASSUME SuiteInv, IsOver
    PROVE  Job \notin Faults => Passed
  <1>1. Job # "done"
    BY DEF IsOver, IsFaultTest, Faults, ResponseFaults
  <1>2. status = "RUNNING"
    BY <1>1 DEF SuiteInv, Job
  <1> QED
    BY <1>2 DEF Passed, IsFaultTest

LEMMA VerdictStep ==
    ASSUME SuiteInv, VerdictInv, [SuiteNext]_suiteVars
    PROVE  VerdictInv'
  <1>1. CASE UNCHANGED <<flow, todo, results>> /\ Job # "done"
    BY <1>1 DEF VerdictInv, Job
  <1>2. CASE NextJob
    <2>1. \A r \in results' : r[1] \in Faults \/ r[2]
      <3>1. results' = results \cup {<<Job, Passed>>} /\ IsOver
        BY <1>2 DEF NextJob
      <3> QED
        BY <3>1, PassedUnlessFaulty DEF VerdictInv
    <2>2. flow # "large_scale" /\ flow' = flow
      BY <1>2 DEF NextJob, VerdictInv
    <2> QED
      BY <2>1, <2>2 DEF VerdictInv
  <1>3. CASE Finish
    <2>1. /\ results' = results \cup {<<Job, Passed>>} /\ IsOver
          /\ todo' = <<"done">> /\ flow' = flow
          /\ \E passed \in Verdicts(results') :
                status' = IF passed THEN "PASS" ELSE "INCOMPLETE"
      BY <1>3 DEF Finish
    <2>2. \A r \in results' : r[1] \in Faults \/ r[2]
      BY <2>1, PassedUnlessFaulty DEF VerdictInv
    <2>3. CASE flow = "large_scale"
      <3>1. Job = "crv" /\ results = {}
        BY <2>1, <2>3 DEF VerdictInv, Job, IsOver, IsFaultTest, Faults, ResponseFaults
      <3>2. AllPassed(results')
        <4>1. Passed = TRUE
          BY <2>1, <3>1, PassedUnlessFaulty DEF Faults, ResponseFaults
        <4>2. \A r \in results' : r = <<Job, TRUE>>
          BY <2>1, <3>1, <4>1
        <4>3. \A r \in results' : r[2]
          <5>1. <<Job, TRUE>>[2] = TRUE
            OBVIOUS
          <5> QED
            BY <4>2, <5>1, Zenon
        <4> QED
          BY <4>3 DEF AllPassed
      <3>3. status' = "PASS"
        BY <2>1, <2>3, <3>2 DEF Verdicts
      <3> QED
        BY <2>1, <2>2, <3>2, <3>3 DEF VerdictInv
    <2> QED
      BY <2>1, <2>2, <2>3 DEF VerdictInv
  <1>4. CASE UNCHANGED suiteVars
    BY <1>4 DEF suiteVars, VerdictInv, AllPassed
  <1> QED
    <2>1. RunNamed \/ TakeRandom \/ RunClosure \/ RunFifo \/ CollectDirected
          \/ CollectRandom \/ CollectCleanWriteMiss \/ RunFaultTest
          => UNCHANGED <<flow, todo, results>> /\ Job # "done"
      BY DEF RunNamed, TakeRandom, RunClosure, RunFifo, CollectDirected, CollectRandom,
             CollectCleanWriteMiss, RunFaultTest, IsFaultTest, Faults, ResponseFaults
    <2> QED
      BY <1>1, <1>2, <1>3, <1>4, <2>1 DEF SuiteNext, RunSeed, RunLargeScale

(***************************************************************************)
(* Every job without a fault in it ends as passed, and the large-scale     *)
(* regression of a fault-free model ends with PASS.                        *)
(***************************************************************************)
THEOREM StreamsPass ==
    ASSUME SuiteAssumptions
    PROVE  SuiteSpec => /\ [](\A r \in results : r[1] \in Faults \/ r[2])
                        /\ [](flow = "large_scale" => SuitePasses)
  <1>1. SuiteInit => SuiteInv /\ VerdictInv
    BY InitSuite DEF SuiteInit, VerdictInv, Jobs
  <1>2. SuiteInv /\ [SuiteNext]_suiteVars => SuiteInv'
    BY SuiteStep
  <1>3. SuiteInv /\ VerdictInv /\ [SuiteNext]_suiteVars => VerdictInv'
    BY VerdictStep
  <1>4. VerdictInv => (\A r \in results : r[1] \in Faults \/ r[2])
    BY DEF VerdictInv
  <1>5. VerdictInv => (flow = "large_scale" => SuitePasses)
    BY DEF VerdictInv, SuitePasses, Job
  <1> QED
    BY <1>1, <1>2, <1>3, <1>4, <1>5, PTL DEF SuiteSpec
=============================================================================
