--------------------------- MODULE LockstepProofs ---------------------------
(***************************************************************************)
(* The reference cache beside another one that sees the same transactions: *)
(* its faulty twin (FaultDetection), and the second implementation of      *)
(* cross validation (AlternativeModel).                                    *)
(***************************************************************************)
EXTENDS FaultDetection, AlternativeModel, ReferenceCacheProofs

-----------------------------------------------------------------------------
(***************************************************************************)
(* Two copies of the reference model under the same transactions, for      *)
(* every geometry, stream and policy but the random one: an access has one *)
(* outcome, so a detection needs a fault; and until it is detected a fault *)
(* has changed nothing but the bytes of the write it was injected into.    *)
(***************************************************************************)
SameState ==
    /\ f_lines = lines /\ f_lru = lru /\ f_fifo = fifo /\ f_memory = memory
    /\ f_last_writeback = last_writeback /\ f_response = response

\* FaithfulNeverRefused alone is not inductive: the copies have to be equal, too.
TwinInv == injected \/ (SameState /\ ~detected)

-----------------------------------------------------------------------------
(***************************************************************************)
(* An access has one outcome.                                              *)
(***************************************************************************)
LEMMA FirstIsUnique ==
    ASSUME NEW W \in SUBSET WayIds, NEW v, NEW w, IsFirst(v, W), IsFirst(w, W)
    PROVE  v = w
  <1>1. v \in WayIds /\ w \in WayIds /\ v <= w /\ w <= v
    BY DEF IsFirst
  <1> QED
    BY <1>1, WaysAssumption DEF WayIds

LEMMA AllocatedIsUnique ==
    ASSUME Replacement # "random", NEW s, NEW v, NEW w,
           IsAllocated(s, v), IsAllocated(s, w)
    PROVE  v = w
  <1>1. InvalidWays(s) \in SUBSET WayIds
    BY DEF InvalidWays
  <1>2. CASE InvalidWays(s) = {}
    <2>1. v \in Victims(s) /\ w \in Victims(s)
      BY <1>2 DEF IsAllocated, IsFirst
    <2> QED
      BY <2>1, PolicyAssumption DEF Victims
  <1>3. CASE InvalidWays(s) # {}
    BY <1>1, <1>3, FirstIsUnique DEF IsAllocated
  <1> QED
    BY <1>2, <1>3

LEMMA SameLookup ==
    ASSUME f_lines = lines, f_lru = lru, f_fifo = fifo
    PROVE  /\ \A a : Faulty!WaysHolding(a) = WaysHolding(a)
           /\ \A s : Faulty!InvalidWays(s) = InvalidWays(s)
           /\ \A s, w : Faulty!IsAllocated(s, w) <=> IsAllocated(s, w)
           /\ \A W, w : Faulty!IsFirst(w, W) <=> IsFirst(w, W)
  <1>1. \A a : Faulty!WaysHolding(a) = WaysHolding(a)
    BY DEF Faulty!WaysHolding, WaysHolding, Faulty!WayIds, WayIds, Faulty!SetIdx, SetIdx,
           Faulty!Tag, Tag
  <1>2. \A s : Faulty!InvalidWays(s) = InvalidWays(s)
    BY DEF Faulty!InvalidWays, InvalidWays, Faulty!WayIds, WayIds
  <1>3. \A W, w : Faulty!IsFirst(w, W) <=> IsFirst(w, W)
    BY DEF Faulty!IsFirst, IsFirst
  <1>4. \A s : Faulty!Victims(s) = Victims(s)
    BY DEF Faulty!Victims, Victims, Faulty!WayIds, WayIds
  <1>5. \A s, w : Faulty!IsAllocated(s, w) <=> IsAllocated(s, w)
    BY <1>2, <1>3, <1>4 DEF Faulty!IsAllocated, IsAllocated
  <1> QED
    BY <1>1, <1>2, <1>3, <1>5

LEMMA SameParts ==
    ASSUME SameState, NEW t \in Txns, NEW w
    PROVE  /\ Faulty!GoesAround(t) <=> GoesAround(t)
           /\ Faulty!CrossLine(t) <=> CrossLine(t)
           /\ Faulty!FilledLine(t, w) = FilledLine(t, w)
           /\ \A line : Faulty!AfterAccess(line, t) = AfterAccess(line, t)
           /\ \A line : Faulty!DataOf(line, t) = DataOf(line, t)
           /\ \A data : Faulty!AllocateResponse(t, w, data) = AllocateResponse(t, w, data)
           /\ \A order : Faulty!MoveToFront(order, w) = MoveToFront(order, w)
           /\ \A s : Faulty!MemoryAfterEviction(s, w) = MemoryAfterEviction(s, w)
  <1>1. f_lines = lines /\ f_memory = memory
    BY DEF SameState
  <1>2. Faulty!GoesAround(t) <=> GoesAround(t)
    BY SameLookup DEF SameState, Faulty!GoesAround, GoesAround
  <1>3. Faulty!CrossLine(t) <=> CrossLine(t)
    BY DEF Faulty!CrossLine, CrossLine, Faulty!Offset, Offset, Faulty!LineBase, LineBase
  <1>4. \A s : Faulty!EvictsDirty(s, w) = EvictsDirty(s, w)
    BY <1>1, SameLookup DEF SameState, Faulty!EvictsDirty, EvictsDirty, Faulty!Evicts, Evicts
  <1>5. \A s : Faulty!VictimBase(s, w) = VictimBase(s, w)
    BY <1>1 DEF Faulty!VictimBase, VictimBase, Faulty!AddrFromTagSet, AddrFromTagSet
  <1>6. \A mem, base, data : Faulty!WriteLine(mem, base, data) = WriteLine(mem, base, data)
    BY DEF Faulty!WriteLine, WriteLine, Faulty!Offsets, Offsets
  <1>7. \A s : Faulty!MemoryAfterEviction(s, w) = MemoryAfterEviction(s, w)
    BY <1>1, <1>4, <1>5, <1>6 DEF Faulty!MemoryAfterEviction, MemoryAfterEviction
  <1>8. Faulty!FilledLine(t, w) = FilledLine(t, w)
    BY <1>7 DEF Faulty!FilledLine, FilledLine, Faulty!ReadLine, ReadLine, Faulty!Offsets,
                Offsets, Faulty!Tag, Tag, Faulty!SetIdx, SetIdx, Faulty!LineBase, LineBase
  <1>9. \A line : Faulty!AfterAccess(line, t) = AfterAccess(line, t)
    BY DEF Faulty!AfterAccess, AfterAccess, Faulty!StoreInto, StoreInto, Faulty!Offsets,
           Offsets, Faulty!Offset, Offset, Faulty!LineBase, LineBase
  <1>10. \A line : Faulty!DataOf(line, t) = DataOf(line, t)
    BY DEF Faulty!DataOf, DataOf, Faulty!LoadFrom, LoadFrom, Faulty!Bytes, Bytes,
           Faulty!Offset, Offset, Faulty!LineBase, LineBase, Faulty!NoData, NoData
  <1>11. ASSUME NEW data
         PROVE  Faulty!AllocateResponse(t, w, data) = AllocateResponse(t, w, data)
    <2> DEFINE s == SetIdx(t.addr)
    <2>1. Faulty!SetIdx(t.addr) = s
      BY DEF Faulty!SetIdx, SetIdx
    <2>2. Faulty!Response(data, FALSE) = Response(data, FALSE)
      BY DEF Faulty!Response, Response
    <2>3. Faulty!Evicts(s) = Evicts(s)
      BY SameLookup DEF SameState, Faulty!Evicts, Evicts
    <2> QED
      BY <1>1, <1>4, <1>5, <2>1, <2>2, <2>3
         DEF Faulty!AllocateResponse, AllocateResponse
  <1>12. \A order : Faulty!MoveToFront(order, w) = MoveToFront(order, w)
    BY DEF Faulty!MoveToFront, MoveToFront, Faulty!Ranks, Ranks
  <1> QED
    BY <1>2, <1>3, <1>7, <1>8, <1>9, <1>10, <1>11, <1>12

\* The same transaction takes the same path through both copies, to the same end.
LEMMA TwinAllocate ==
    ASSUME Replacement # "random", SameState, NEW t \in Txns, NEW v, NEW w,
           Allocate(t, v), Faulty!Allocate(t, w)
    PROVE  /\ v = w /\ v \in WayIds
           /\ f_memory' = memory' /\ f_last_writeback' = last_writeback' /\ f_fifo' = fifo'
  <1> DEFINE s == SetIdx(t.addr)
  <1>1. Faulty!SetIdx(t.addr) = s
    BY DEF Faulty!SetIdx, SetIdx
  <1>2. IsAllocated(s, v) /\ IsAllocated(s, w)
    BY <1>1, SameLookup DEF SameState, Allocate, Faulty!Allocate
  <1>3. v = w
    BY <1>2, AllocatedIsUnique
  <1>4. Faulty!EvictsDirty(s, w) = EvictsDirty(s, w) /\ Faulty!VictimBase(s, w) = VictimBase(s, w)
    BY SameLookup
       DEF SameState, Faulty!EvictsDirty, EvictsDirty, Faulty!Evicts, Evicts,
           Faulty!VictimBase, VictimBase, Faulty!AddrFromTagSet, AddrFromTagSet
  <1>5. f_memory' = memory' /\ f_last_writeback' = last_writeback'
    BY <1>1, <1>3, <1>4, SameParts DEF SameState, Allocate, Faulty!Allocate
  <1>6. f_fifo' = fifo'
    BY <1>1, <1>3, SameParts DEF SameState, Allocate, Faulty!Allocate
  <1> QED
    BY <1>3, <1>5, <1>6 DEF Allocate

LEMMA TwinAccess ==
    ASSUME Replacement # "random", SameState, NEW t \in Txns,
           Access(t), Faulty!Access(t)
    PROVE  SameState'
  <1> DEFINE s == SetIdx(t.addr)
  <1>1. /\ Faulty!SetIdx(t.addr) = s
        /\ Faulty!WaysHolding(t.addr) = WaysHolding(t.addr)
        /\ \A w : Faulty!IsFirst(w, WaysHolding(t.addr)) <=> IsFirst(w, WaysHolding(t.addr))
        /\ Faulty!WayIds = WayIds
    BY SameLookup DEF SameState, Faulty!SetIdx, SetIdx, Faulty!WayIds, WayIds
  <1>2. /\ Faulty!GoesAround(t) <=> GoesAround(t)
        /\ Faulty!CrossLine(t) <=> CrossLine(t)
    BY SameParts
  <1>3. /\ \A data, hit : Faulty!Response(data, hit) = Response(data, hit)
        /\ Faulty!Raised = Raised
        /\ Faulty!NoData = NoData
        /\ Faulty!Bytes(t) = Bytes(t)
    BY DEF Faulty!Response, Response, Faulty!Raised, Raised, Faulty!NoData, NoData,
           Faulty!Bytes, Bytes
  <1>4. /\ \A mask : Faulty!WriteMemory(memory, t, mask) = WriteMemory(memory, t, mask)
        /\ Faulty!ReadMemory(memory, t) = ReadMemory(memory, t)
    BY <1>3 DEF Faulty!WriteMemory, WriteMemory, Faulty!ReadMemory, ReadMemory
  <1>5. CASE UncachedAccess(t)
    <2>1. Faulty!UncachedAccess(t)
      BY <1>5 DEF UncachedAccess, Faulty!Access, Faulty!WriteAround, Faulty!Hit, Faulty!Miss,
                  Faulty!RejectHit, Faulty!RejectMiss
    <2> QED
      BY <1>3, <1>4, <1>5, <2>1 DEF SameState, UncachedAccess, Faulty!UncachedAccess
  <1>6. CASE WriteAround(t)
    <2>1. WaysHolding(t.addr) = {} /\ GoesAround(t) /\ ~t.uncached
      BY <1>6 DEF WriteAround, GoesAround
    <2>2. Faulty!WriteAround(t)
      BY <1>1, <1>2, <2>1
         DEF Faulty!Access, Faulty!UncachedAccess, Faulty!Hit, Faulty!Miss, IsFirst,
             Faulty!RejectHit, Faulty!RejectMiss
    <2> QED
      BY <1>3, <1>4, <1>6, <2>2 DEF SameState, WriteAround, Faulty!WriteAround
  <1>7. CASE Hit(t)
    <2>1. PICK v \in WayIds :
             /\ IsFirst(v, WaysHolding(t.addr))
             /\ lines' = [lines EXCEPT ![s][v] = AfterAccess(@, t)]
             /\ Touch(s, v)
             /\ response' = Response(DataOf(lines[s][v], t), TRUE)
             /\ UNCHANGED <<fifo, memory, last_writeback>>
      BY <1>7 DEF Hit
    <2>2. /\ ~t.uncached /\ ~CrossLine(t)
          /\ WaysHolding(t.addr) # {} /\ ~GoesAround(t)
      BY <1>7, <2>1 DEF Hit, GoesAround, IsFirst
    <2>3. Faulty!Hit(t)
      BY <1>1, <1>2, <2>2
         DEF Faulty!Access, Faulty!UncachedAccess, Faulty!WriteAround, Faulty!Miss,
             Faulty!RejectHit, Faulty!RejectMiss, Faulty!Allocate
    <2>4. PICK w \in WayIds :
             /\ IsFirst(w, WaysHolding(t.addr))
             /\ f_lines' = [f_lines EXCEPT ![s][w] = Faulty!AfterAccess(@, t)]
             /\ Faulty!Touch(s, w)
             /\ f_response' = Faulty!Response(Faulty!DataOf(f_lines[s][w], t), TRUE)
             /\ UNCHANGED <<f_fifo, f_memory, f_last_writeback>>
      BY <1>1, <2>3 DEF Faulty!Hit
    <2>5. v = w
      BY <2>1, <2>4, FirstIsUnique DEF WaysHolding
    <2>6. f_lru' = lru'
      BY <2>1, <2>4, <2>5, SameParts DEF SameState, Touch, Faulty!Touch
    <2> QED
      BY <1>3, <2>1, <2>4, <2>5, <2>6, SameParts DEF SameState
  <1>8. CASE Miss(t)
    <2>1. PICK v \in WayIds :
             /\ Allocate(t, v)
             /\ lines' = [lines EXCEPT ![s][v] = AfterAccess(FilledLine(t, v), t)]
             /\ Touch(s, v)
             /\ response' = AllocateResponse(t, v, DataOf(FilledLine(t, v), t))
      BY <1>8 DEF Miss
    <2>2. /\ ~t.uncached /\ ~CrossLine(t) /\ ~GoesAround(t)
          /\ WaysHolding(t.addr) = {}
      BY <1>8, <2>1 DEF Miss, Allocate
    <2>3. Faulty!Miss(t)
      BY <1>1, <1>2, <2>2
         DEF Faulty!Access, Faulty!UncachedAccess, Faulty!WriteAround, Faulty!Hit, IsFirst,
             Faulty!RejectHit, Faulty!RejectMiss
    <2>4. PICK w \in WayIds :
             /\ Faulty!Allocate(t, w)
             /\ f_lines' = [f_lines EXCEPT
                              ![s][w] = Faulty!AfterAccess(Faulty!FilledLine(t, w), t)]
             /\ Faulty!Touch(s, w)
             /\ f_response' = Faulty!AllocateResponse(t, w,
                                   Faulty!DataOf(Faulty!FilledLine(t, w), t))
      BY <1>1, <2>3 DEF Faulty!Miss
    <2>5. /\ v = w
          /\ f_memory' = memory' /\ f_last_writeback' = last_writeback' /\ f_fifo' = fifo'
      BY <2>1, <2>4, TwinAllocate
    <2>6. f_lru' = lru'
      BY <2>1, <2>4, <2>5, SameParts DEF SameState, Touch, Faulty!Touch
    <2>7. f_lines' = lines' /\ f_response' = response'
      BY <2>1, <2>4, <2>5, SameParts DEF SameState
    <2> QED
      BY <2>5, <2>6, <2>7 DEF SameState
  <1>9. CASE RejectHit(t)
    <2>1. Faulty!RejectHit(t)
      BY <1>1, <1>2, <1>9
         DEF RejectHit, GoesAround, Faulty!Access, Faulty!UncachedAccess, Faulty!WriteAround,
             Faulty!Hit, Faulty!Miss, Faulty!RejectMiss, Faulty!Allocate
    <2> QED
      BY <1>3, <1>9, <2>1 DEF SameState, RejectHit, Faulty!RejectHit
  <1>10. CASE RejectMiss(t)
    <2>1. PICK v \in WayIds :
             /\ Allocate(t, v)
             /\ lines' = [lines EXCEPT ![s][v] = FilledLine(t, v)]
             /\ response' = Raised
             /\ UNCHANGED lru
      BY <1>10 DEF RejectMiss
    <2>2. /\ ~t.uncached /\ CrossLine(t) /\ ~GoesAround(t)
          /\ WaysHolding(t.addr) = {}
      BY <1>10, <2>1 DEF RejectMiss, Allocate
    <2>3. Faulty!RejectMiss(t)
      BY <1>1, <1>2, <2>2
         DEF Faulty!Access, Faulty!UncachedAccess, Faulty!WriteAround, Faulty!Hit,
             Faulty!Miss, Faulty!RejectHit
    <2>4. PICK w \in WayIds :
             /\ Faulty!Allocate(t, w)
             /\ f_lines' = [f_lines EXCEPT ![s][w] = Faulty!FilledLine(t, w)]
             /\ f_response' = Faulty!Raised
             /\ UNCHANGED f_lru
      BY <1>1, <2>3 DEF Faulty!RejectMiss
    <2>5. /\ v = w
          /\ f_memory' = memory' /\ f_last_writeback' = last_writeback' /\ f_fifo' = fifo'
      BY <2>1, <2>4, TwinAllocate
    <2>6. f_lines' = lines'
      BY <2>1, <2>4, <2>5, SameParts DEF SameState
    <2> QED
      BY <1>3, <2>1, <2>4, <2>5, <2>6 DEF SameState
  <1> QED
    BY <1>5, <1>6, <1>7, <1>8, <1>9, <1>10 DEF Access
-----------------------------------------------------------------------------
(***************************************************************************)
(* The detection loop.                                                     *)
(***************************************************************************)
LEMMA TwinsAtStart == DetectionInit => TwinInv
  BY DEF DetectionInit, TwinInv, SameState, Init, Faulty!Init, Faulty!InitialOrder,
         InitialOrder, Faulty!Response, Response, Faulty!NoData, NoData, Faulty!WayIds,
         WayIds, Faulty!SetIds, SetIds, Faulty!Offsets, Offsets, Faulty!Ranks, Ranks

LEMMA TwinsAreNotRefused ==
    ASSUME Replacement # "random", TwinInv, ~injected, NEW t \in Txns, CompareFaithful(t)
    PROVE  TwinInv'
  <1>1. SameState /\ ~detected
    BY DEF TwinInv
  <1>2. SameState'
    BY <1>1, TwinAccess DEF CompareFaithful, Compare
  <1>3. Corruptions("none", f_response') = {f_response'}
    BY DEF Corruptions
  <1>4. detected' = (detected \/ Mismatch(t, response', f_response', TRUE))
    BY <1>3 DEF CompareFaithful, Compare
  <1>5. ~Mismatch(t, response', f_response', TRUE)
    BY <1>2 DEF SameState, Mismatch, Check!Diverges
  <1> QED
    BY <1>1, <1>2, <1>4, <1>5 DEF TwinInv

LEMMA NextKeepsTwins ==
    ASSUME Replacement # "random", TwinInv, [DetectionNext]_detectionVars
    PROVE  TwinInv'
  <1>1. CASE UNCHANGED detectionVars
    BY <1>1 DEF TwinInv, SameState, detectionVars, vars, faultyVars
  <1>2. CASE DetectionNext /\ injected
    BY <1>2 DEF DetectionNext, CompareFaithful, Inject, TwinInv
  <1>3. CASE DetectionNext /\ ~injected
    <2>1. ASSUME NEW t \in Txns, CompareFaithful(t)
          PROVE  TwinInv'
      BY <1>3, <2>1, TwinsAreNotRefused
    <2>2. ASSUME NEW t \in Txns, NEW kind \in Faults, NEW bit \in Bytes(t),
                 Inject(t, kind, bit)
          PROVE  TwinInv'
      BY <2>2 DEF Inject, TwinInv
    <2> QED
      BY <1>3, <2>1, <2>2 DEF DetectionNext
  <1> QED
    BY <1>1, <1>2, <1>3

(***************************************************************************)
(* For every geometry, every stream and the policies LRU and FIFO: the     *)
(* scoreboard raises nothing before a fault is injected.  (Under the       *)
(* random policy this rests on two generators with one seed, which the     *)
(* model, where a draw is free, does not tell apart.)                      *)
(***************************************************************************)
THEOREM NoFaultNoDetection ==
    ASSUME Replacement # "random"
    PROVE  DetectionSpec => []FaithfulNeverRefused
  <1>1. TwinInv => FaithfulNeverRefused
    BY DEF TwinInv, FaithfulNeverRefused
  <1>2. TwinInv /\ [DetectionNext]_detectionVars => TwinInv'
    BY NextKeepsTwins
  <1> QED
    BY <1>1, <1>2, TwinsAtStart, PTL DEF DetectionSpec
-----------------------------------------------------------------------------
(***************************************************************************)
(* Copies that agree but for the bytes at the addresses D.                 *)
(***************************************************************************)
MemoryAgrees(m, fm, D) == \A a \in Addrs \ D : fm[a] = m[a]

LineAgrees(line, fline, base, D) ==
    /\ fline.valid = line.valid /\ fline.dirty = line.dirty /\ fline.tag = line.tag
    /\ line.valid => \A o \in Offsets : base + o \notin D => fline.data[o] = line.data[o]

LinesAgree(l, fl, D) ==
    \A s \in SetIds : \A w \in WayIds :
        LineAgrees(l[s][w], fl[s][w], AddrFromTagSet(l[s][w].tag, s), D)

LineTable == [SetIds -> [WayIds -> CacheLine]]

\* Transaction t as the second copy sees it: the same, or short of mask bits while
\* all its bytes may differ anyway.
DrivenAs(t, u, D) ==
    /\ u.op = t.op /\ u.addr = t.addr /\ u.size = t.size
    /\ u.data = t.data /\ u.uncached = t.uncached
    /\ u.mask \subseteq Bytes(t)
    /\ u.mask = t.mask \/ \A i \in Bytes(t) : t.addr + i \in D

LEMMA SameOperators ==
    /\ \A line, u : Faulty!AfterAccess(line, u) = AfterAccess(line, u)
    /\ \A mem, u, mask : Faulty!WriteMemory(mem, u, mask) = WriteMemory(mem, u, mask)
    /\ \A mem, base, data : Faulty!WriteLine(mem, base, data) = WriteLine(mem, base, data)
    /\ \A mem, base : Faulty!ReadLine(mem, base) = ReadLine(mem, base)
    /\ \A order, w : Faulty!MoveToFront(order, w) = MoveToFront(order, w)
    /\ \A tag, s : Faulty!AddrFromTagSet(tag, s) = AddrFromTagSet(tag, s)
    /\ \A a : /\ Faulty!SetIdx(a) = SetIdx(a) /\ Faulty!Tag(a) = Tag(a)
              /\ Faulty!LineBase(a) = LineBase(a)
    /\ \A u : /\ Faulty!CrossLine(u) <=> CrossLine(u)
              /\ Faulty!Bytes(u) = Bytes(u)
    /\ \A W, w : Faulty!IsFirst(w, W) <=> IsFirst(w, W)
    /\ Faulty!WayIds = WayIds /\ Faulty!SetIds = SetIds
  <1>1. /\ \A a : /\ Faulty!SetIdx(a) = SetIdx(a) /\ Faulty!Tag(a) = Tag(a)
                  /\ Faulty!LineBase(a) = LineBase(a) /\ Faulty!Offset(a) = Offset(a)
        /\ \A u : Faulty!Bytes(u) = Bytes(u)
        /\ Faulty!Offsets = Offsets /\ Faulty!Ranks = Ranks
        /\ Faulty!WayIds = WayIds /\ Faulty!SetIds = SetIds
    BY DEF Faulty!SetIdx, SetIdx, Faulty!Tag, Tag, Faulty!LineBase, LineBase, Faulty!Offset,
           Offset, Faulty!Bytes, Bytes, Faulty!Offsets, Offsets, Faulty!Ranks, Ranks,
           Faulty!WayIds, WayIds, Faulty!SetIds, SetIds
  <1>2. \A line, u : Faulty!AfterAccess(line, u) = AfterAccess(line, u)
    BY <1>1 DEF Faulty!AfterAccess, AfterAccess, Faulty!StoreInto, StoreInto
  <1>3. \A mem, u, mask : Faulty!WriteMemory(mem, u, mask) = WriteMemory(mem, u, mask)
    BY DEF Faulty!WriteMemory, WriteMemory
  <1>4. \A mem, base, data : Faulty!WriteLine(mem, base, data) = WriteLine(mem, base, data)
    BY <1>1 DEF Faulty!WriteLine, WriteLine
  <1>5. \A mem, base : Faulty!ReadLine(mem, base) = ReadLine(mem, base)
    BY <1>1 DEF Faulty!ReadLine, ReadLine
  <1>6. \A order, w : Faulty!MoveToFront(order, w) = MoveToFront(order, w)
    BY <1>1 DEF Faulty!MoveToFront, MoveToFront
  <1>7. \A u : Faulty!CrossLine(u) <=> CrossLine(u)
    BY <1>1 DEF Faulty!CrossLine, CrossLine
  <1>8. \A tag, s : Faulty!AddrFromTagSet(tag, s) = AddrFromTagSet(tag, s)
    BY DEF Faulty!AddrFromTagSet, AddrFromTagSet
  <1>9. \A W, w : Faulty!IsFirst(w, W) <=> IsFirst(w, W)
    BY DEF Faulty!IsFirst, IsFirst
  <1> QED
    BY <1>1, <1>2, <1>3, <1>4, <1>5, <1>6, <1>7, <1>8, <1>9

\* A write of some of t's bytes on one side and others on the other.
LEMMA WritesAgree ==
    ASSUME NEW t \in Txns, NEW u, NEW D, DrivenAs(t, u, D),
           NEW m \in [Addrs -> Byte], NEW fm \in [Addrs -> Byte], MemoryAgrees(m, fm, D),
           NEW M \in SUBSET Bytes(t), NEW N \in SUBSET Bytes(t),
           M = N \/ \A i \in Bytes(t) : t.addr + i \in D
    PROVE  /\ MemoryAgrees(WriteMemory(m, t, M), WriteMemory(fm, u, N), D)
           /\ WriteMemory(fm, u, N) \in [Addrs -> Byte]
  <1>1. u.addr = t.addr /\ u.data = t.data
    BY DEF DrivenAs
  <1>2. WriteMemory(fm, u, N) = WriteMemory(fm, t, N)
    BY <1>1 DEF WriteMemory
  <1>3. ASSUME NEW a \in Addrs \ D
        PROVE  WriteMemory(fm, t, N)[a] = WriteMemory(m, t, M)[a]
    <2>1. a \in Nat /\ t.addr \in Nat /\ t.addr + (a - t.addr) = a
      BY TxnType, AddrsAssumption
    <2>2. M = N \/ a - t.addr \notin Bytes(t)
      BY <2>1
    <2>3. fm[a] = m[a]
      BY DEF MemoryAgrees
    <2> QED
      BY <2>2, <2>3 DEF WriteMemory
  <1> QED
    BY <1>2, <1>3, MemoryTypes DEF MemoryAgrees

\* A line written back.
LEMMA WritebacksAgree ==
    ASSUME NEW D, NEW base \in Nat,
           NEW m \in [Addrs -> Byte], NEW fm \in [Addrs -> Byte], MemoryAgrees(m, fm, D),
           NEW line \in CacheLine, NEW fline \in CacheLine,
           LineAgrees(line, fline, base, D), line.valid
    PROVE  /\ MemoryAgrees(WriteLine(m, base, line.data), WriteLine(fm, base, fline.data), D)
           /\ WriteLine(fm, base, fline.data) \in [Addrs -> Byte]
  <1>1. ASSUME NEW a \in Addrs \ D
        PROVE  WriteLine(fm, base, fline.data)[a] = WriteLine(m, base, line.data)[a]
    <2>1. a \in Nat /\ base + (a - base) = a
      BY AddrsAssumption
    <2>2. a - base \in Offsets => fline.data[a - base] = line.data[a - base]
      BY <2>1 DEF LineAgrees
    <2> QED
      BY <2>2 DEF WriteLine, MemoryAgrees
  <1>2. WriteLine(fm, base, fline.data) \in [Addrs -> Byte]
    BY DEF WriteLine, CacheLine
  <1> QED
    BY <1>1, <1>2 DEF MemoryAgrees

\* A line read or merged into.
LEMMA AccessesAgree ==
    ASSUME NEW t \in Txns, NEW u, NEW D, DrivenAs(t, u, D),
           NEW line \in CacheLine, NEW fline \in CacheLine,
           LineAgrees(line, fline, LineBase(t.addr), D)
    PROVE  /\ LineAgrees(AfterAccess(line, t), AfterAccess(fline, u), LineBase(t.addr), D)
           /\ AfterAccess(fline, u) \in CacheLine
  <1>1. /\ u.op = t.op /\ u.addr = t.addr /\ u.data = t.data /\ u.mask \subseteq Bytes(t)
        /\ t.data \in [Bytes(t) -> Byte] /\ t.mask \subseteq Bytes(t)
    BY TxnType DEF DrivenAs
  <1>2. CASE t.op # "write"
    BY <1>1, <1>2 DEF AfterAccess
  <1>3. CASE t.op = "write"
    <2>1. /\ AfterAccess(line, t) = StoreInto(line, t)
          /\ AfterAccess(fline, u) = StoreInto(fline, u)
      BY <1>1, <1>3 DEF AfterAccess
    <2>2. StoreInto(fline, u) \in CacheLine
      BY <1>1 DEF StoreInto, CacheLine
    <2>3. ASSUME NEW o \in Offsets, LineBase(t.addr) + o \notin D, line.valid
          PROVE  StoreInto(fline, u).data[o] = StoreInto(line, t).data[o]
      <3>1. fline.data[o] = line.data[o]
        BY <2>3 DEF LineAgrees
      <3>2. LineBase(t.addr) + o = t.addr + (o - Offset(t.addr))
        <4>1. t.addr \in Nat /\ LineBase(t.addr) \in Nat
          BY TxnAddresses, AddrsAssumption
        <4>2. o \in Int
          BY LineBytesAssumption DEF Offsets
        <4> QED
          BY <4>1, <4>2 DEF Offset
      <3>3. u.mask = t.mask \/ o - Offset(t.addr) \notin Bytes(t)
        BY <2>3, <3>2 DEF DrivenAs
      <3>4. o - Offset(t.addr) \in u.mask <=> o - Offset(t.addr) \in t.mask
        BY <1>1, <3>3
      <3> QED
        BY <1>1, <3>1, <3>4 DEF StoreInto, CacheLine
    <2>4. /\ StoreInto(fline, u).valid = fline.valid /\ StoreInto(fline, u).tag = fline.tag
          /\ StoreInto(line, t).valid = line.valid /\ StoreInto(line, t).tag = line.tag
          /\ StoreInto(fline, u).dirty = TRUE /\ StoreInto(line, t).dirty = TRUE
      BY DEF StoreInto, CacheLine
    <2> QED
      BY <2>1, <2>2, <2>3, <2>4 DEF LineAgrees
  <1> QED
    BY <1>2, <1>3

\* A line fetched.
LEMMA FillsAgree ==
    ASSUME NEW t \in Txns, NEW D,
           NEW m \in [Addrs -> Byte], NEW fm \in [Addrs -> Byte], MemoryAgrees(m, fm, D),
           NEW line, NEW fline,
           line = [valid |-> TRUE, dirty |-> FALSE, tag |-> Tag(t.addr),
                   data |-> ReadLine(m, LineBase(t.addr))],
           fline = [valid |-> TRUE, dirty |-> FALSE, tag |-> Tag(t.addr),
                    data |-> ReadLine(fm, LineBase(t.addr))]
    PROVE  /\ line \in CacheLine /\ fline \in CacheLine
           /\ LineAgrees(line, fline, LineBase(t.addr), D)
  <1>1. line \in CacheLine /\ fline \in CacheLine
    BY MemoryTypes, TxnAddresses DEF CacheLine
  <1>2. \A o \in Offsets : LineBase(t.addr) + o \notin D => fline.data[o] = line.data[o]
    BY TxnAddresses DEF ReadLine, MemoryAgrees
  <1> QED
    BY <1>1, <1>2 DEF LineAgrees

\* One line of each table replaced.
LEMMA ReplacedLinesAgree ==
    ASSUME NEW D, NEW l \in LineTable, NEW fl \in LineTable, LinesAgree(l, fl, D),
           NEW s \in SetIds, NEW w \in WayIds,
           NEW line \in CacheLine, NEW fline \in CacheLine,
           LineAgrees(line, fline, AddrFromTagSet(line.tag, s), D)
    PROVE  /\ LinesAgree([l EXCEPT ![s][w] = line], [fl EXCEPT ![s][w] = fline], D)
           /\ [fl EXCEPT ![s][w] = fline] \in LineTable
  BY DEF LinesAgree, LineTable

(***************************************************************************)
(* Agreement is kept by an access, which takes the same way in both.       *)
(***************************************************************************)
CopiesAgree(D) ==
    /\ lines \in LineTable /\ f_lines \in LineTable
    /\ memory \in [Addrs -> Byte] /\ f_memory \in [Addrs -> Byte]
    /\ f_lru = lru /\ f_fifo = fifo
    /\ LinesAgree(lines, f_lines, D)
    /\ MemoryAgrees(memory, f_memory, D)

LEMMA AgreeingLookup ==
    ASSUME NEW D, CopiesAgree(D), NEW s \in SetIds
    PROVE  /\ \A a : SetIdx(a) = s => Faulty!WaysHolding(a) = WaysHolding(a)
           /\ Faulty!InvalidWays(s) = InvalidWays(s)
           /\ \A w : Faulty!IsAllocated(s, w) <=> IsAllocated(s, w)
           /\ \A w \in WayIds : /\ Faulty!EvictsDirty(s, w) <=> EvictsDirty(s, w)
                                /\ Faulty!VictimBase(s, w) = VictimBase(s, w)
  <1>1. \A w \in WayIds : /\ f_lines[s][w].valid = lines[s][w].valid
                          /\ f_lines[s][w].dirty = lines[s][w].dirty
                          /\ f_lines[s][w].tag = lines[s][w].tag
    BY DEF CopiesAgree, LinesAgree, LineAgrees
  <1>2. \A a : SetIdx(a) = s => Faulty!WaysHolding(a) = WaysHolding(a)
    BY <1>1, SameOperators DEF Faulty!WaysHolding, WaysHolding
  <1>3. Faulty!InvalidWays(s) = InvalidWays(s)
    BY <1>1, SameOperators DEF Faulty!InvalidWays, InvalidWays
  <1>4. Faulty!Victims(s) = Victims(s)
    BY SameOperators DEF CopiesAgree, Faulty!Victims, Victims
  <1>5. \A w : Faulty!IsAllocated(s, w) <=> IsAllocated(s, w)
    BY <1>3, <1>4, SameOperators DEF Faulty!IsAllocated, IsAllocated
  <1>6. \A w \in WayIds : /\ Faulty!EvictsDirty(s, w) <=> EvictsDirty(s, w)
                          /\ Faulty!VictimBase(s, w) = VictimBase(s, w)
    BY <1>1, <1>3, SameOperators
       DEF Faulty!EvictsDirty, EvictsDirty, Faulty!Evicts, Evicts,
           Faulty!VictimBase, VictimBase
  <1> QED
    BY <1>2, <1>3, <1>5, <1>6

LEMMA AllocationsAgree ==
    ASSUME Replacement # "random", CacheInv, NEW D, CopiesAgree(D),
           NEW t \in Txns, NEW u, DrivenAs(t, u, D), NEW v, NEW w,
           Allocate(t, v), Faulty!Allocate(u, w)
    PROVE  /\ v = w /\ v \in WayIds
           /\ f_fifo' = fifo'
           /\ MemoryAgrees(memory', f_memory', D)
           /\ f_memory' \in [Addrs -> Byte]
           /\ FilledLine(t, v) \in CacheLine /\ Faulty!FilledLine(u, v) \in CacheLine
           /\ LineAgrees(FilledLine(t, v), Faulty!FilledLine(u, v), LineBase(t.addr), D)
  <1> DEFINE s == SetIdx(t.addr)
  <1>1. /\ s \in SetIds /\ u.addr = t.addr
        /\ Faulty!SetIdx(u.addr) = s
        /\ Faulty!Tag(u.addr) = Tag(t.addr) /\ Faulty!LineBase(u.addr) = LineBase(t.addr)
    BY TxnAddresses, SameOperators DEF DrivenAs
  <1>2. IsAllocated(s, v) /\ IsAllocated(s, w) /\ v \in WayIds
    BY <1>1, AgreeingLookup DEF Allocate, Faulty!Allocate
  <1>3. v = w
    BY <1>2, AllocatedIsUnique
  <1>4. f_fifo' = fifo'
    BY <1>1, <1>3, SameOperators DEF CopiesAgree, Allocate, Faulty!Allocate
  <1>5. /\ MemoryAgrees(MemoryAfterEviction(s, v), Faulty!MemoryAfterEviction(s, v), D)
        /\ MemoryAfterEviction(s, v) \in [Addrs -> Byte]
        /\ Faulty!MemoryAfterEviction(s, v) \in [Addrs -> Byte]
    <2>1. CASE ~EvictsDirty(s, v)
      BY <1>1, <1>2, <2>1, AgreeingLookup
         DEF MemoryAfterEviction, Faulty!MemoryAfterEviction, CopiesAgree
    <2>2. CASE EvictsDirty(s, v)
      <3> DEFINE line == lines[s][v]
                 fline == f_lines[s][v]
                 base == VictimBase(s, v)
      <3>1. line.valid
        BY <1>2, <2>2 DEF EvictsDirty, Evicts, InvalidWays
      <3>2. base \in Nat
        BY <1>1, <1>2, <3>1, VictimAddress, AddrsAssumption DEF CacheInv
      <3>3. line \in CacheLine /\ fline \in CacheLine /\ LineAgrees(line, fline, base, D)
        BY <1>1, <1>2 DEF CopiesAgree, LineTable, LinesAgree, VictimBase
      <3>4. /\ MemoryAfterEviction(s, v) = WriteLine(memory, base, line.data)
            /\ Faulty!MemoryAfterEviction(s, v) = WriteLine(f_memory, base, fline.data)
        BY <1>1, <1>2, <2>2, AgreeingLookup, SameOperators
           DEF MemoryAfterEviction, Faulty!MemoryAfterEviction
      <3>5. /\ MemoryAgrees(WriteLine(memory, base, line.data),
                            WriteLine(f_memory, base, fline.data), D)
            /\ WriteLine(f_memory, base, fline.data) \in [Addrs -> Byte]
        BY <3>1, <3>2, <3>3, WritebacksAgree DEF CopiesAgree
      <3>6. WriteLine(memory, base, line.data) \in [Addrs -> Byte]
        BY <3>3, MemoryTypes DEF CopiesAgree, CacheLine
      <3> QED
        BY <3>4, <3>5, <3>6
    <2> QED
      BY <2>1, <2>2
  <1>6. memory' = MemoryAfterEviction(s, v) /\ f_memory' = Faulty!MemoryAfterEviction(s, v)
    BY <1>1, <1>3 DEF Allocate, Faulty!Allocate
  <1>7. /\ FilledLine(t, v) = [valid |-> TRUE, dirty |-> FALSE, tag |-> Tag(t.addr),
                               data |-> ReadLine(MemoryAfterEviction(s, v), LineBase(t.addr))]
        /\ Faulty!FilledLine(u, v) =
              [valid |-> TRUE, dirty |-> FALSE, tag |-> Tag(t.addr),
               data |-> ReadLine(Faulty!MemoryAfterEviction(s, v), LineBase(t.addr))]
    BY <1>1, SameOperators DEF FilledLine, Faulty!FilledLine
  <1>8. /\ FilledLine(t, v) \in CacheLine /\ Faulty!FilledLine(u, v) \in CacheLine
        /\ LineAgrees(FilledLine(t, v), Faulty!FilledLine(u, v), LineBase(t.addr), D)
    BY <1>5, <1>7, FillsAgree
  <1> QED
    BY <1>2, <1>3, <1>4, <1>5, <1>6, <1>8

LEMMA PlacedLinesAgree ==
    ASSUME NEW D, CopiesAgree(D), NEW t \in Txns, NEW v \in WayIds,
           NEW line \in CacheLine, NEW fline \in CacheLine,
           line.tag = Tag(t.addr), LineAgrees(line, fline, LineBase(t.addr), D),
           lines' = [lines EXCEPT ![SetIdx(t.addr)][v] = line],
           f_lines' = [f_lines EXCEPT ![SetIdx(t.addr)][v] = fline]
    PROVE  LinesAgree(lines', f_lines', D) /\ f_lines' \in LineTable
  <1>1. SetIdx(t.addr) \in SetIds /\ AddrFromTagSet(line.tag, SetIdx(t.addr)) = LineBase(t.addr)
    BY TxnAddresses
  <1>2. /\ lines \in LineTable /\ f_lines \in LineTable /\ LinesAgree(lines, f_lines, D)
        /\ LineAgrees(line, fline, AddrFromTagSet(line.tag, SetIdx(t.addr)), D)
    BY <1>1 DEF CopiesAgree
  <1> QED
    BY <1>1, <1>2, ReplacedLinesAgree

LEMMA AccessKeepsAgreement ==
    ASSUME Replacement # "random", CacheInv, CacheInv', NEW D, CopiesAgree(D),
           NEW t \in Txns, NEW u, DrivenAs(t, u, D), Access(t), Faulty!Access(u)
    PROVE  /\ f_lines' \in LineTable /\ f_memory' \in [Addrs -> Byte]
           /\ f_lru' = lru' /\ f_fifo' = fifo'
           /\ LinesAgree(lines', f_lines', D)
           /\ MemoryAgrees(memory', f_memory', D)
  <1> DEFINE s == SetIdx(t.addr)
             Agreed == /\ f_lines' \in LineTable /\ f_memory' \in [Addrs -> Byte]
                       /\ f_lru' = lru' /\ f_fifo' = fifo'
                       /\ LinesAgree(lines', f_lines', D)
                       /\ MemoryAgrees(memory', f_memory', D)
  <1>1. /\ u.op = t.op /\ u.addr = t.addr /\ u.uncached = t.uncached /\ u.size = t.size
        /\ u.mask \subseteq Bytes(t) /\ t.mask \subseteq Bytes(t)
        /\ Faulty!Bytes(u) = Bytes(t)
        /\ s \in SetIds /\ AddrFromTagSet(Tag(t.addr), s) = LineBase(t.addr)
        /\ Faulty!SetIdx(u.addr) = s
    BY TxnType, TxnAddresses, SameOperators DEF DrivenAs, Bytes
  <1>2. /\ Faulty!WaysHolding(u.addr) = WaysHolding(t.addr)
        /\ Faulty!CrossLine(u) <=> CrossLine(t)
        /\ \A w : Faulty!IsFirst(w, WaysHolding(t.addr)) <=> IsFirst(w, WaysHolding(t.addr))
    BY <1>1, AgreeingLookup, SameOperators DEF CrossLine
  <1>3. Faulty!GoesAround(u) <=> GoesAround(t)
    BY <1>1, <1>2 DEF Faulty!GoesAround, GoesAround
  <1>4. CASE UncachedAccess(t)
    <2>1. Faulty!UncachedAccess(u)
      BY <1>1, <1>4
         DEF UncachedAccess, Faulty!Access, Faulty!WriteAround, Faulty!Hit, Faulty!Miss,
             Faulty!RejectHit, Faulty!RejectMiss
    <2>2. /\ MemoryAgrees(WriteMemory(memory, t, t.mask), WriteMemory(f_memory, u, u.mask), D)
          /\ WriteMemory(f_memory, u, u.mask) \in [Addrs -> Byte]
      BY <1>1, WritesAgree DEF CopiesAgree, DrivenAs
    <2>3. MemoryAgrees(memory', f_memory', D) /\ f_memory' \in [Addrs -> Byte]
      BY <1>1, <1>4, <2>1, <2>2, SameOperators
         DEF UncachedAccess, Faulty!UncachedAccess, CopiesAgree
    <2> QED
      BY <1>4, <2>1, <2>3 DEF UncachedAccess, Faulty!UncachedAccess, CopiesAgree
  <1>5. CASE WriteAround(t)
    <2>1. WaysHolding(t.addr) = {} /\ GoesAround(t) /\ ~t.uncached
      BY <1>5 DEF WriteAround, GoesAround
    <2>2. Faulty!WriteAround(u)
      BY <1>1, <1>2, <1>3, <2>1
         DEF Faulty!Access, Faulty!UncachedAccess, Faulty!Hit, Faulty!Miss, IsFirst,
             Faulty!RejectHit, Faulty!RejectMiss
    <2> DEFINE M == IF t.mask = {} THEN Bytes(t) ELSE t.mask
               N == IF u.mask = {} THEN Bytes(t) ELSE u.mask
    <2>3. /\ M \in SUBSET Bytes(t) /\ N \in SUBSET Bytes(t)
          /\ M = N \/ \A i \in Bytes(t) : t.addr + i \in D
      BY <1>1 DEF DrivenAs
    <2>4. memory' = WriteMemory(memory, t, M) /\ f_memory' = WriteMemory(f_memory, u, N)
      BY <1>1, <1>5, <2>2, SameOperators DEF WriteAround, Faulty!WriteAround
    <2> HIDE DEF M, N
    <2>5. MemoryAgrees(memory', f_memory', D) /\ f_memory' \in [Addrs -> Byte]
      BY <2>3, <2>4, WritesAgree DEF CopiesAgree
    <2> QED
      BY <1>5, <2>2, <2>5 DEF WriteAround, Faulty!WriteAround, CopiesAgree
  <1>6. CASE Hit(t)
    <2>1. PICK v \in WayIds :
             /\ IsFirst(v, WaysHolding(t.addr))
             /\ lines' = [lines EXCEPT ![s][v] = AfterAccess(@, t)]
             /\ Touch(s, v)
             /\ UNCHANGED <<fifo, memory, last_writeback>>
      BY <1>6 DEF Hit
    <2>2. /\ ~t.uncached /\ ~CrossLine(t)
          /\ WaysHolding(t.addr) # {} /\ ~GoesAround(t)
      BY <1>6, <2>1 DEF Hit, GoesAround, IsFirst
    <2>3. Faulty!Hit(u)
      BY <1>1, <1>2, <1>3, <2>2
         DEF Faulty!Access, Faulty!UncachedAccess, Faulty!WriteAround, Faulty!Miss,
             Faulty!RejectHit, Faulty!RejectMiss, Faulty!Allocate
    <2>4. PICK w \in WayIds :
             /\ IsFirst(w, WaysHolding(t.addr))
             /\ f_lines' = [f_lines EXCEPT ![s][w] = AfterAccess(@, u)]
             /\ Faulty!Touch(s, w)
             /\ UNCHANGED <<f_fifo, f_memory, f_last_writeback>>
      BY <1>1, <1>2, <2>3, SameOperators DEF Faulty!Hit
    <2>5. v = w
      BY <2>1, <2>4, FirstIsUnique DEF WaysHolding
    <2>6. f_lru' = lru'
      BY <2>1, <2>4, <2>5, SameOperators DEF CopiesAgree, Touch, Faulty!Touch
    <2>7. /\ lines[s][v] \in CacheLine /\ f_lines[s][v] \in CacheLine
          /\ lines[s][v].tag = Tag(t.addr)
          /\ LineAgrees(lines[s][v], f_lines[s][v], LineBase(t.addr), D)
      BY <1>1, <2>1 DEF IsFirst, WaysHolding, CopiesAgree, LineTable, LinesAgree
    <2>8. /\ LineAgrees(AfterAccess(lines[s][v], t), AfterAccess(f_lines[s][v], u),
                        LineBase(t.addr), D)
          /\ AfterAccess(f_lines[s][v], u) \in CacheLine
          /\ AfterAccess(lines[s][v], t) \in CacheLine
          /\ AfterAccess(lines[s][v], t).tag = Tag(t.addr)
      BY <2>7, AccessesAgree, AfterAccessType
    <2>9. /\ lines' = [lines EXCEPT ![s][v] = AfterAccess(lines[s][v], t)]
          /\ f_lines' = [f_lines EXCEPT ![s][v] = AfterAccess(f_lines[s][v], u)]
      BY <2>1, <2>4, <2>5
    <2>10. LinesAgree(lines', f_lines', D) /\ f_lines' \in LineTable
      BY <2>8, <2>9, PlacedLinesAgree
    <2> QED
      BY <2>1, <2>4, <2>6, <2>10 DEF CopiesAgree
  <1>7. CASE Miss(t)
    <2>1. PICK v \in WayIds :
             /\ Allocate(t, v)
             /\ lines' = [lines EXCEPT ![s][v] = AfterAccess(FilledLine(t, v), t)]
             /\ Touch(s, v)
      BY <1>7 DEF Miss
    <2>2. /\ ~t.uncached /\ ~CrossLine(t) /\ ~GoesAround(t)
          /\ WaysHolding(t.addr) = {}
      BY <1>7, <2>1 DEF Miss, Allocate
    <2>3. Faulty!Miss(u)
      BY <1>1, <1>2, <1>3, <2>2
         DEF Faulty!Access, Faulty!UncachedAccess, Faulty!WriteAround, Faulty!Hit, IsFirst,
             Faulty!RejectHit, Faulty!RejectMiss
    <2>4. PICK w \in WayIds :
             /\ Faulty!Allocate(u, w)
             /\ f_lines' = [f_lines EXCEPT ![s][w] = AfterAccess(Faulty!FilledLine(u, w), u)]
             /\ Faulty!Touch(s, w)
      BY <1>1, <2>3, SameOperators DEF Faulty!Miss
    <2>5. /\ v = w /\ f_fifo' = fifo'
          /\ MemoryAgrees(memory', f_memory', D) /\ f_memory' \in [Addrs -> Byte]
          /\ FilledLine(t, v) \in CacheLine /\ Faulty!FilledLine(u, v) \in CacheLine
          /\ LineAgrees(FilledLine(t, v), Faulty!FilledLine(u, v), LineBase(t.addr), D)
      BY <2>1, <2>4, AllocationsAgree
    <2>6. f_lru' = lru'
      BY <2>1, <2>4, <2>5, SameOperators DEF CopiesAgree, Touch, Faulty!Touch
    <2>7. /\ LineAgrees(AfterAccess(FilledLine(t, v), t),
                        AfterAccess(Faulty!FilledLine(u, v), u), LineBase(t.addr), D)
          /\ AfterAccess(Faulty!FilledLine(u, v), u) \in CacheLine
          /\ AfterAccess(FilledLine(t, v), t) \in CacheLine
          /\ AfterAccess(FilledLine(t, v), t).tag = FilledLine(t, v).tag
      BY <2>5, AccessesAgree, AfterAccessType
    <2>8. FilledLine(t, v).tag = Tag(t.addr)
      BY DEF FilledLine
    <2>9. LinesAgree(lines', f_lines', D) /\ f_lines' \in LineTable
      BY <2>1, <2>4, <2>5, <2>7, <2>8, PlacedLinesAgree
    <2> QED
      BY <2>5, <2>6, <2>9
  <1>8. CASE RejectHit(t)
    <2>1. Faulty!RejectHit(u)
      BY <1>1, <1>2, <1>3, <1>8
         DEF RejectHit, GoesAround, Faulty!Access, Faulty!UncachedAccess, Faulty!WriteAround,
             Faulty!Hit, Faulty!Miss, Faulty!RejectMiss, Faulty!Allocate
    <2> QED
      BY <1>8, <2>1 DEF CopiesAgree, RejectHit, Faulty!RejectHit
  <1>9. CASE RejectMiss(t)
    <2>1. PICK v \in WayIds :
             /\ Allocate(t, v)
             /\ lines' = [lines EXCEPT ![s][v] = FilledLine(t, v)]
             /\ UNCHANGED lru
      BY <1>9 DEF RejectMiss
    <2>2. /\ ~t.uncached /\ CrossLine(t) /\ ~GoesAround(t)
          /\ WaysHolding(t.addr) = {}
      BY <1>9, <2>1 DEF RejectMiss, Allocate
    <2>3. Faulty!RejectMiss(u)
      BY <1>1, <1>2, <1>3, <2>2
         DEF Faulty!Access, Faulty!UncachedAccess, Faulty!WriteAround, Faulty!Hit,
             Faulty!Miss, Faulty!RejectHit
    <2>4. PICK w \in WayIds :
             /\ Faulty!Allocate(u, w)
             /\ f_lines' = [f_lines EXCEPT ![s][w] = Faulty!FilledLine(u, w)]
             /\ UNCHANGED f_lru
      BY <1>1, <2>3, SameOperators DEF Faulty!RejectMiss
    <2>5. /\ v = w /\ f_fifo' = fifo'
          /\ MemoryAgrees(memory', f_memory', D) /\ f_memory' \in [Addrs -> Byte]
          /\ FilledLine(t, v) \in CacheLine /\ Faulty!FilledLine(u, v) \in CacheLine
          /\ LineAgrees(FilledLine(t, v), Faulty!FilledLine(u, v), LineBase(t.addr), D)
      BY <2>1, <2>4, AllocationsAgree
    <2>6. FilledLine(t, v).tag = Tag(t.addr)
      BY DEF FilledLine
    <2>7. LinesAgree(lines', f_lines', D) /\ f_lines' \in LineTable
      BY <2>1, <2>4, <2>5, <2>6, PlacedLinesAgree
    <2> QED
      BY <2>1, <2>4, <2>5, <2>7 DEF CopiesAgree
  <1> QED
    BY <1>4, <1>5, <1>6, <1>7, <1>8, <1>9 DEF Access
-----------------------------------------------------------------------------
(***************************************************************************)
(* The detection loop again, now through the injection and beyond it.      *)
(***************************************************************************)

\* A CacheTxn as a record, and not Python's None.
IsTxnRecord(t) ==
    /\ t = [op |-> t.op, addr |-> t.addr, size |-> t.size,
            data |-> t.data, mask |-> t.mask, uncached |-> t.uncached]
    /\ t # None

\* FaultStaysInItsWrite needs the cache's own invariant (a victim's address is
\* one of the memory's) and copies that differ nowhere before the injection.
StayInv ==
    /\ CacheInv
    /\ CopiesAgree(MayDiffer)
    /\ injected \/ dropped = None

LEMMA AgreementWeakens ==
    ASSUME NEW D, CopiesAgree({})
    PROVE  CopiesAgree(D)
  BY DEF CopiesAgree, LinesAgree, LineAgrees, MemoryAgrees

LEMMA CopiesAgreeAtStart ==
    ASSUME DetectionInit
    PROVE  StayInv
  <1>1. CacheInv
    BY InitInv DEF DetectionInit
  <1>2. f_lines = lines /\ f_lru = lru /\ f_fifo = fifo /\ f_memory = memory
    BY DEF DetectionInit, Init, Faulty!Init, Faulty!InitialOrder, InitialOrder,
           Faulty!WayIds, WayIds, Faulty!SetIds, SetIds, Faulty!Offsets, Offsets,
           Faulty!Ranks, Ranks
  <1>3. lines \in LineTable /\ memory \in [Addrs -> Byte]
    BY <1>1 DEF CacheInv, TypeOK, LineTable
  <1>4. CopiesAgree({})
    BY <1>2, <1>3 DEF CopiesAgree, LinesAgree, LineAgrees, MemoryAgrees
  <1> QED
    BY <1>1, <1>4, AgreementWeakens DEF StayInv, DetectionInit

LEMMA ComparedCopiesAgree ==
    ASSUME Replacement # "random", CacheInv, NEW D, CopiesAgree(D),
           NEW t \in Txns, NEW u, DrivenAs(t, u, D), Access(t), Faulty!Access(u)
    PROVE  /\ CacheInv'
           /\ lines' \in LineTable /\ f_lines' \in LineTable
           /\ memory' \in [Addrs -> Byte] /\ f_memory' \in [Addrs -> Byte]
           /\ f_lru' = lru' /\ f_fifo' = fifo'
           /\ LinesAgree(lines', f_lines', D)
           /\ MemoryAgrees(memory', f_memory', D)
  <1>1. CacheInv'
    BY AccessKeepsInv
  <1>2. lines' \in LineTable /\ memory' \in [Addrs -> Byte]
    BY <1>1 DEF CacheInv, TypeOK, LineTable
  <1> QED
    BY <1>1, <1>2, AccessKeepsAgreement

LEMMA FaithfulKeepsStay ==
    ASSUME Replacement # "random", StayInv, NEW t \in Txns, CompareFaithful(t)
    PROVE  StayInv'
  <1>1. CacheInv /\ CopiesAgree(MayDiffer) /\ DrivenAs(t, t, MayDiffer)
    BY TxnType DEF StayInv, DrivenAs
  <1>2. Access(t) /\ Faulty!Access(t) /\ injected' = injected /\ dropped' = dropped
    BY DEF CompareFaithful, Compare
  <1>3. MayDiffer' = MayDiffer
    BY <1>2 DEF MayDiffer
  <1>4. CacheInv' /\ CopiesAgree(MayDiffer)'
    BY <1>1, <1>2, <1>3, ComparedCopiesAgree DEF CopiesAgree
  <1> QED
    BY <1>2, <1>4 DEF StayInv

LEMMA InjectKeepsStay ==
    ASSUME Replacement # "random", StayInv, NEW t \in Txns, IsTxnRecord(t),
           NEW kind, NEW bit, Inject(t, kind, bit)
    PROVE  StayInv'
  <1> DEFINE u == IF kind = "drop_mask_bit" THEN DropMaskBit(t, bit) ELSE t
             D == MayDiffer'
  <1>1. Access(t) /\ Faulty!Access(u) /\ injected' = TRUE
    BY DEF Inject, Compare
  <1>2. CopiesAgree({})
    BY DEF StayInv, Inject, MayDiffer
  <1>3. DrivenAs(t, u, D)
    <2>1. CASE kind # "drop_mask_bit"
      BY <2>1, TxnType DEF DrivenAs
    <2>2. CASE kind = "drop_mask_bit"
      <3>1. D = {t.addr + i : i \in Bytes(t)}
        BY <2>2 DEF Inject, MayDiffer, IsTxnRecord
      <3>2. /\ u.op = t.op /\ u.addr = t.addr /\ u.size = t.size
            /\ u.data = t.data /\ u.uncached = t.uncached
            /\ u.mask = t.mask \ {bit}
        BY <2>2 DEF DropMaskBit, IsTxnRecord
      <3> QED
        BY <3>1, <3>2, TxnType DEF DrivenAs
    <2> QED
      BY <2>1, <2>2
  <1>4. CacheInv /\ CopiesAgree(D)
    BY <1>2, AgreementWeakens DEF StayInv
  <1> HIDE DEF u, D
  <1>5. /\ CacheInv'
        /\ lines' \in LineTable /\ f_lines' \in LineTable
        /\ memory' \in [Addrs -> Byte] /\ f_memory' \in [Addrs -> Byte]
        /\ f_lru' = lru' /\ f_fifo' = fifo'
        /\ LinesAgree(lines', f_lines', D)
        /\ MemoryAgrees(memory', f_memory', D)
    BY <1>1, <1>3, <1>4, ComparedCopiesAgree
  <1> USE DEF D
  <1> QED
    BY <1>1, <1>5 DEF StayInv, CopiesAgree

LEMMA NextKeepsStay ==
    ASSUME Replacement # "random", \A t \in Txns : IsTxnRecord(t),
           StayInv, [DetectionNext]_detectionVars
    PROVE  StayInv'
  <1>1. CASE UNCHANGED detectionVars
    <2>1. CacheInv'
      BY <1>1 DEF StayInv, CacheInv, TypeOK, ResidentWasAccessed, NoDuplicateTag,
                  ListsArePermutations, detectionVars, vars
    <2>2. MayDiffer' = MayDiffer
      BY <1>1 DEF MayDiffer, detectionVars
    <2>3. CopiesAgree(MayDiffer)'
      BY <1>1, <2>2 DEF StayInv, CopiesAgree, detectionVars, vars, faultyVars
    <2> QED
      BY <1>1, <2>1, <2>3 DEF StayInv, detectionVars
  <1>2. CASE DetectionNext
    BY <1>2, FaithfulKeepsStay, InjectKeepsStay DEF DetectionNext
  <1> QED
    BY <1>1, <1>2

LEMMA StayMeansLocal ==
    ASSUME StayInv
    PROVE  FaultStaysInItsWrite
  <1>1. SameBookkeeping
    BY DEF StayInv, CopiesAgree, LinesAgree, LineAgrees, SameBookkeeping
  <1>2. SameBytesBut(MayDiffer)
    BY DEF StayInv, CopiesAgree, LinesAgree, LineAgrees, MemoryAgrees, SameBytesBut
  <1> QED
    BY <1>1, <1>2 DEF FaultStaysInItsWrite

(***************************************************************************)
(* For every geometry, every stream and the policies LRU and FIFO: until   *)
(* the scoreboard raises, a fault - a dropped mask bit above all, which    *)
(* changes what the device stores - has changed no bookkeeping of the      *)
(* cache and no byte but those of the write it was injected into, through  *)
(* any number of later hits, merges, evictions and refills.                *)
(***************************************************************************)
THEOREM FaultStaysLocal ==
    ASSUME Replacement # "random", \A t \in Txns : IsTxnRecord(t)
    PROVE  DetectionSpec => []FaultStaysInItsWrite
  <1>1. DetectionInit => StayInv
    BY CopiesAgreeAtStart
  <1>2. StayInv /\ [DetectionNext]_detectionVars => StayInv'
    BY NextKeepsStay
  <1>3. StayInv => FaultStaysInItsWrite
    BY StayMeansLocal
  <1> QED
    BY <1>1, <1>2, <1>3, PTL DEF DetectionSpec

-----------------------------------------------------------------------------
(***************************************************************************)
(* The two reference models in step, for every geometry and stream.        *)
(***************************************************************************)
StoresTyped ==
    /\ tag_store \in [SetIds -> [WayIds -> Nat \cup {-1}]]
    /\ dirty_store \in [SetIds -> [WayIds -> BOOLEAN]]
    /\ lru_count \in [SetIds -> [WayIds -> Nat]]
    /\ lru_tick \in [SetIds -> Nat]

\* A way that was never filled has tick 0, and no other; no tick lies ahead.
TicksFit ==
    \A s \in SetIds : \A w \in WayIds :
        /\ lines[s][w].valid <=> lru_count[s][w] # 0
        /\ lru_count[s][w] <= lru_tick[s]

\* No list names a way twice.
Injective(order) == \A i, j \in Ranks : order[i] = order[j] => i = j

InStep ==
    /\ SameVerdict /\ SameLines /\ SameOrder /\ TicksFit
    /\ \A s \in SetIds : Injective(lru[s])

LockstepInv ==
    /\ CacheInv
    /\ StoresTyped
    /\ in_step /\ Replacement = "lru" /\ WriteAllocate => InStep
-----------------------------------------------------------------------------
(***************************************************************************)
(* The victim.  A takes the first invalid way, or the last of its list; B  *)
(* the first of the ways with the smallest tick.                           *)
(***************************************************************************)
LEMMA SameVictim ==
    ASSUME CacheInv, StoresTyped, InStep, Replacement = "lru",
           NEW s \in SetIds, NEW v \in WayIds, NEW w \in WayIds,
           IsAllocated(s, v), AltVictim(s, w)
    PROVE  v = w
  <1>1. lru[s] \in [Ranks -> WayIds] /\ Ways \in Ranks
    BY WaysAssumption DEF CacheInv, TypeOK, Ranks
  <1>2. w \in LeastRecent(s) /\ \A u \in LeastRecent(s) : w <= u
    BY DEF AltVictim, IsFirst
  <1>3. \A u \in WayIds : lru_count[s][u] \in Nat
    BY DEF StoresTyped
  <1>4. CASE InvalidWays(s) # {}
    <2>1. \A u \in WayIds : u \in InvalidWays(s) <=> lru_count[s][u] = 0
      BY DEF InStep, TicksFit, InvalidWays
    <2>2. LeastRecent(s) = InvalidWays(s)
      BY <1>3, <1>4, <2>1 DEF LeastRecent, InvalidWays
    <2>3. v \in InvalidWays(s) /\ \A u \in InvalidWays(s) : v <= u
      BY <1>4 DEF IsAllocated, IsFirst
    <2> QED
      BY <1>2, <2>2, <2>3 DEF WayIds
  <1>5. CASE InvalidWays(s) = {}
    <2>1. v = lru[s][Ways]
      BY <1>5 DEF IsAllocated, IsFirst, Victims
    <2>2. \A u \in WayIds : lines[s][u].valid
      BY <1>5 DEF InvalidWays
    <2>3. PICK i \in Ranks : lru[s][i] = w
      BY DEF CacheInv, ListsArePermutations
    <2>4. CASE i = Ways
      BY <2>1, <2>3, <2>4
    <2>5. CASE i < Ways
      <3>1. lru_count[s][w] > lru_count[s][v]
        BY <1>1, <2>1, <2>2, <2>3, <2>5 DEF InStep, SameOrder
      <3> QED
        BY <1>2, <1>3, <3>1 DEF LeastRecent
    <2> QED
      BY <2>4, <2>5, WaysAssumption DEF Ranks
  <1> QED
    BY <1>4, <1>5

\* Both models find the line in the same ways.
LEMMA SameWays ==
    ASSUME CacheInv, StoresTyped, InStep, NEW t \in Txns
    PROVE  AltWays(t) = WaysHolding(t.addr)
  BY TxnAddresses DEF InStep, SameLines, AltWays, WaysHolding
-----------------------------------------------------------------------------
(***************************************************************************)
(* The order.  The way that moves to the front of the list gets a tick     *)
(* above every other.                                                      *)
(***************************************************************************)

\* Behind the front is what was in the list before, in its order.
LEMMA BehindTheFront ==
    ASSUME NEW order \in [Ranks -> WayIds], Injective(order),
           NEW w \in WayIds, \E i \in Ranks : order[i] = w
    PROVE  /\ MoveToFront(order, w)[1] = w
           /\ \A j \in Ranks : j > 1 => MoveToFront(order, w)[j] # w
           /\ \A i, j \in Ranks : 1 < i /\ i < j =>
                 \E k, m \in Ranks : /\ k < m
                                     /\ MoveToFront(order, w)[i] = order[k]
                                     /\ MoveToFront(order, w)[j] = order[m]
           /\ Injective(MoveToFront(order, w))
  <1> DEFINE old == CHOOSE i \in Ranks : order[i] = w
             new == MoveToFront(order, w)
             was(i) == IF i <= old THEN i - 1 ELSE i
  <1>1. old \in Ranks /\ order[old] = w
    OBVIOUS
  <1>2. \A i \in Ranks : new[i] = IF i = 1 THEN w ELSE order[was(i)]
    BY DEF MoveToFront
  <1> HIDE DEF old, new
  <1>3. \A i \in Ranks : i > 1 => was(i) \in Ranks /\ was(i) # old
    BY <1>1, WaysAssumption DEF Ranks
  <1>4. \A i, j \in Ranks : 1 < i /\ i < j => was(i) < was(j)
    BY <1>1 DEF Ranks
  <1>5. 1 \in Ranks
    BY WaysAssumption DEF Ranks
  <1> HIDE DEF was
  <1>6. new[1] = w
    BY <1>2, <1>5
  <1>7. \A j \in Ranks : j > 1 => new[j] = order[was(j)] /\ new[j] # w
    BY <1>1, <1>2, <1>3, <1>5 DEF Injective, Ranks
  <1>8. \A i, j \in Ranks : 1 < i /\ i < j =>
           \E k, m \in Ranks : k < m /\ new[i] = order[k] /\ new[j] = order[m]
    BY <1>3, <1>4, <1>7 DEF Ranks
  <1>9. \A i, j \in Ranks : i < j => new[i] # new[j]
    <2> SUFFICES ASSUME NEW i \in Ranks, NEW j \in Ranks, i < j PROVE new[i] # new[j]
      OBVIOUS
    <2>1. CASE i = 1
      BY <1>6, <1>7, <2>1
    <2>2. CASE 1 < i
      BY <1>8, <2>2 DEF Injective, Ranks
    <2> QED
      BY <2>1, <2>2 DEF Ranks
  <1>10. Injective(new)
    BY <1>9 DEF Injective, Ranks
  <1> QED
    BY <1>6, <1>7, <1>8, <1>10 DEF new

\* One way used: its tick is the largest, and it is valid from then on.
LEMMA UseKeepsOrder ==
    ASSUME CacheInv, StoresTyped, InStep, Replacement = "lru",
           NEW s \in SetIds, NEW w \in WayIds, Touch(s, w), UpdateLru(s, w),
           \A r \in SetIds, v \in WayIds :
              lines'[r][v].valid <=> (r = s /\ v = w) \/ lines[r][v].valid
    PROVE  /\ SameOrder' /\ TicksFit'
           /\ \A r \in SetIds : Injective(lru'[r])
           /\ lru_count' \in [SetIds -> [WayIds -> Nat]]
           /\ lru_tick' \in [SetIds -> Nat]
  <1> DEFINE new == MoveToFront(lru[s], w)
  <1>1. /\ lru[s] \in [Ranks -> WayIds] /\ lru \in [SetIds -> [Ranks -> WayIds]]
        /\ Injective(lru[s])
        /\ \E i \in Ranks : lru[s][i] = w
    BY DEF CacheInv, TypeOK, ListsArePermutations, InStep
  <1>2. /\ new[1] = w
        /\ \A j \in Ranks : j > 1 => new[j] # w
        /\ \A i, j \in Ranks : 1 < i /\ i < j =>
              \E k, m \in Ranks : k < m /\ new[i] = lru[s][k] /\ new[j] = lru[s][m]
        /\ Injective(new)
        /\ new \in [Ranks -> WayIds]
    BY <1>1, BehindTheFront, MoveToFrontType
  <1> HIDE DEF new
  <1>3. \A r \in SetIds : lru'[r] = IF r = s THEN new ELSE lru[r]
    BY <1>1 DEF Touch, new
  <1>4. /\ \A r \in SetIds, v \in WayIds :
              lru_count'[r][v] = IF r = s /\ v = w THEN lru_tick[s] + 1 ELSE lru_count[r][v]
        /\ \A r \in SetIds : lru_tick'[r] = IF r = s THEN lru_tick[s] + 1 ELSE lru_tick[r]
        /\ lru_count' \in [SetIds -> [WayIds -> Nat]]
        /\ lru_tick' \in [SetIds -> Nat]
    BY DEF UpdateLru, StoresTyped
  <1>5. \A r \in SetIds, v \in WayIds :
           /\ lru_count[r][v] \in Nat /\ lru_tick[r] \in Nat
           /\ lru_count[r][v] <= lru_tick[r]
           /\ lines[r][v].valid <=> lru_count[r][v] # 0
    BY DEF StoresTyped, InStep, TicksFit
  <1>6. ASSUME NEW r \in SetIds, NEW v \in WayIds
        PROVE  /\ lines'[r][v].valid <=> lru_count'[r][v] # 0
               /\ lru_count'[r][v] <= lru_tick'[r]
    <2>1. CASE r = s /\ v = w
      <3>1. lines'[r][v].valid
        BY <2>1
      <3>2. /\ lru_count'[r][v] = lru_tick[s] + 1 /\ lru_tick'[r] = lru_tick[s] + 1
            /\ lru_tick[s] \in Nat
        BY <1>4, <1>5, <2>1
      <3> QED
        BY <3>1, <3>2
    <2>2. CASE ~(r = s /\ v = w)
      <3>1. /\ lines'[r][v].valid <=> lines[r][v].valid
            /\ lru_count'[r][v] = lru_count[r][v]
        BY <1>4, <2>2
      <3>2. lru_tick[r] <= lru_tick'[r]
        BY <1>4, <1>5
      <3>3. lru_tick'[r] \in Nat
        BY <1>4
      <3> QED
        BY <1>5, <3>1, <3>2, <3>3
    <2> QED
      BY <2>1, <2>2
  <1>7. \A r \in SetIds : Injective(lru'[r])
    BY <1>2, <1>3 DEF InStep
  <1>8. ASSUME NEW i \in Ranks, NEW j \in Ranks, i < j,
               lines'[s][new[i]].valid, lines'[s][new[j]].valid
        PROVE  lru_count'[s][new[i]] > lru_count'[s][new[j]]
    <2>1. new[i] \in WayIds /\ new[j] \in WayIds /\ j > 1 /\ new[j] # w
      BY <1>2, <1>8 DEF Ranks
    <2>2. CASE i = 1
      BY <1>2, <1>4, <1>5, <2>1, <2>2
    <2>3. CASE i > 1
      <3>1. new[i] # w
        BY <1>2, <2>3
      <3>2. PICK k, m \in Ranks : k < m /\ new[i] = lru[s][k] /\ new[j] = lru[s][m]
        BY <1>2, <1>8, <2>3
      <3>3. lines[s][new[i]].valid /\ lines[s][new[j]].valid
        BY <1>8, <2>1, <3>1
      <3>4. lru_count[s][new[i]] > lru_count[s][new[j]]
        BY <3>2, <3>3 DEF InStep, SameOrder
      <3> QED
        BY <1>4, <2>1, <3>1, <3>4
    <2> QED
      BY <2>2, <2>3 DEF Ranks
  <1>9. ASSUME NEW r \in SetIds, r # s, NEW i \in Ranks, NEW j \in Ranks, i < j,
               lines'[r][lru[r][i]].valid, lines'[r][lru[r][j]].valid
        PROVE  lru_count'[r][lru[r][i]] > lru_count'[r][lru[r][j]]
    <2>1. lru[r][i] \in WayIds /\ lru[r][j] \in WayIds
      BY <1>1
    <2>2. lines[r][lru[r][i]].valid /\ lines[r][lru[r][j]].valid
      BY <1>9, <2>1
    <2> QED
      BY <1>4, <1>9, <2>1, <2>2 DEF InStep, SameOrder
  <1>10. SameOrder'
    BY <1>3, <1>8, <1>9 DEF SameOrder
  <1> QED
    BY <1>4, <1>6, <1>7, <1>10 DEF TicksFit
-----------------------------------------------------------------------------
(***************************************************************************)
(* One access of both models.                                              *)
(***************************************************************************)
LEMMA AltAccessTypes ==
    ASSUME CacheInv, StoresTyped, NEW t \in Txns, AltAccess(t)
    PROVE  StoresTyped'
  <1> DEFINE s == SetIdx(t.addr)
  <1>1. s \in SetIds /\ Tag(t.addr) \in Nat /\ t.op \in {"read", "write"}
        /\ WriteAllocate \in BOOLEAN
    BY TxnAddresses, TxnType, PolicyAssumption
  <1>2. ASSUME NEW w \in WayIds, UpdateLru(s, w)
        PROVE  lru_count' \in [SetIds -> [WayIds -> Nat]] /\ lru_tick' \in [SetIds -> Nat]
    BY <1>1, <1>2 DEF UpdateLru, StoresTyped
  <1>3. CASE AltHit(t)
    <2>1. PICK w \in WayIds :
            /\ UpdateLru(s, w)
            /\ dirty_store' = [dirty_store EXCEPT ![s][w] = @ \/ t.op = "write"]
            /\ UNCHANGED tag_store
      BY <1>3 DEF AltHit
    <2>2. dirty_store' \in [SetIds -> [WayIds -> BOOLEAN]]
      BY <1>1, <2>1 DEF StoresTyped
    <2> QED
      BY <1>2, <2>1, <2>2 DEF StoresTyped
  <1>4. CASE AltMiss(t)
    <2>1. PICK w \in WayIds :
            /\ UpdateLru(s, w)
            /\ tag_store' = [tag_store EXCEPT ![s][w] = Tag(t.addr)]
            /\ dirty_store' = [dirty_store EXCEPT
                                 ![s][w] = (t.op = "write" /\ WriteAllocate)]
      BY <1>4 DEF AltMiss
    <2>2. /\ dirty_store' \in [SetIds -> [WayIds -> BOOLEAN]]
          /\ tag_store' \in [SetIds -> [WayIds -> Nat \cup {-1}]]
      BY <1>1, <2>1 DEF StoresTyped
    <2> QED
      BY <1>2, <2>1, <2>2 DEF StoresTyped
  <1> QED
    BY <1>3, <1>4 DEF AltAccess

LEMMA AfterAccessDirty ==
    ASSUME NEW line \in CacheLine, NEW t \in Txns
    PROVE  AfterAccess(line, t).dirty = (line.dirty \/ t.op = "write")
  <1>1. StoreInto(line, t).dirty = TRUE
    BY DEF StoreInto, CacheLine
  <1>2. line.dirty \in BOOLEAN
    BY DEF CacheLine
  <1> QED
    BY <1>1, <1>2 DEF AfterAccess

\* What both lines are in when one way of a set changes to the same tag and dirty bit.
LEMMA OneWayKeepsSameLines ==
    ASSUME CacheInv, StoresTyped, SameLines, NEW s \in SetIds, NEW w \in WayIds,
           NEW line \in CacheLine, line.valid, line.tag \in Nat,
           lines' = [lines EXCEPT ![s][w] = line],
           tag_store' = [tag_store EXCEPT ![s][w] = line.tag],
           dirty_store' = [dirty_store EXCEPT ![s][w] = line.dirty]
    PROVE  /\ SameLines'
           /\ \A r \in SetIds, v \in WayIds :
                 lines'[r][v].valid <=> (r = s /\ v = w) \/ lines[r][v].valid
  <1>1. \A r \in SetIds, v \in WayIds :
           /\ lines'[r][v] = IF r = s /\ v = w THEN line ELSE lines[r][v]
           /\ tag_store'[r][v] = IF r = s /\ v = w THEN line.tag ELSE tag_store[r][v]
           /\ dirty_store'[r][v] = IF r = s /\ v = w THEN line.dirty ELSE dirty_store[r][v]
    BY DEF CacheInv, TypeOK, StoresTyped
  <1>2. line.valid = TRUE
    BY DEF CacheLine
  <1>3. ASSUME NEW r \in SetIds, NEW v \in WayIds
        PROVE  /\ lines'[r][v].valid <=> tag_store'[r][v] # -1
               /\ lines'[r][v].valid => /\ lines'[r][v].tag = tag_store'[r][v]
                                        /\ lines'[r][v].dirty = dirty_store'[r][v]
               /\ lines'[r][v].valid <=> (r = s /\ v = w) \/ lines[r][v].valid
    <2>1. CASE r = s /\ v = w
      <3>1. /\ lines'[r][v] = line /\ tag_store'[r][v] = line.tag
            /\ dirty_store'[r][v] = line.dirty
        BY <1>1, <2>1
      <3> QED
        BY <1>2, <2>1, <3>1
    <2>2. CASE ~(r = s /\ v = w)
      <3>1. /\ lines'[r][v] = lines[r][v] /\ tag_store'[r][v] = tag_store[r][v]
            /\ dirty_store'[r][v] = dirty_store[r][v]
        BY <1>1, <2>2
      <3>2. /\ lines[r][v].valid <=> tag_store[r][v] # -1
            /\ lines[r][v].valid => /\ lines[r][v].tag = tag_store[r][v]
                                    /\ lines[r][v].dirty = dirty_store[r][v]
        BY DEF SameLines
      <3> QED
        BY <2>2, <3>1, <3>2
    <2> QED
      BY <2>1, <2>2
  <1> QED
    BY <1>3 DEF SameLines

LEMMA HitTogether ==
    ASSUME CacheInv, StoresTyped, InStep, Replacement = "lru",
           NEW t \in Txns, Hit(t), AltHit(t)
    PROVE  InStep'
  <1> DEFINE s == SetIdx(t.addr)
  <1>1. s \in SetIds /\ Tag(t.addr) \in Nat
    BY TxnAddresses
  <1>2. PICK w \in WayIds :
          /\ IsFirst(w, WaysHolding(t.addr))
          /\ lines' = [lines EXCEPT ![s][w] = AfterAccess(@, t)]
          /\ Touch(s, w)
          /\ response' = Response(DataOf(lines[s][w], t), TRUE)
    BY DEF Hit
  <1>3. PICK v \in WayIds :
          /\ IsFirst(v, AltWays(t))
          /\ UpdateLru(s, v)
          /\ dirty_store' = [dirty_store EXCEPT ![s][v] = @ \/ t.op = "write"]
          /\ response_b' = Response(AltLoaded(data_store[s][v], t), TRUE)
          /\ UNCHANGED tag_store
    BY DEF AltHit
  <1>4. v = w
    BY <1>2, <1>3, SameWays DEF IsFirst, WayIds
  <1>5. SameVerdict'
    BY <1>2, <1>3 DEF SameVerdict, Response
  <1> DEFINE line == AfterAccess(lines[s][w], t)
  <1>6. /\ lines[s][w] \in CacheLine /\ lines[s][w].valid /\ lines[s][w].tag = Tag(t.addr)
        /\ lines' = [lines EXCEPT ![s][w] = line]
    BY <1>1, <1>2 DEF IsFirst, WaysHolding, CacheInv, TypeOK
  <1>7. /\ line \in CacheLine /\ line.valid /\ line.tag = Tag(t.addr)
        /\ line.dirty = (lines[s][w].dirty \/ t.op = "write")
    BY <1>6, AfterAccessType, AfterAccessDirty
  <1>8. /\ tag_store[s][w] = Tag(t.addr) /\ dirty_store[s][w] = lines[s][w].dirty
    BY <1>1, <1>6 DEF InStep, SameLines
  <1> HIDE DEF line
  <1>9. tag_store' = [tag_store EXCEPT ![s][w] = line.tag]
    BY <1>1, <1>3, <1>7, <1>8 DEF StoresTyped
  <1>10. dirty_store' = [dirty_store EXCEPT ![s][w] = line.dirty]
    BY <1>1, <1>3, <1>4, <1>7, <1>8 DEF StoresTyped
  <1>11. /\ SameLines'
         /\ \A r \in SetIds, u \in WayIds :
               lines'[r][u].valid <=> (r = s /\ u = w) \/ lines[r][u].valid
    <2>1. SameLines /\ line.tag \in Nat /\ line \in CacheLine /\ line.valid
      BY <1>1, <1>7 DEF InStep
    <2> QED
      BY <1>1, <1>6, <1>9, <1>10, <2>1, OneWayKeepsSameLines
  <1>12. SameOrder' /\ TicksFit' /\ \A r \in SetIds : Injective(lru'[r])
    BY <1>1, <1>2, <1>3, <1>4, <1>11, UseKeepsOrder
  <1> QED
    BY <1>5, <1>11, <1>12 DEF InStep

\* The address that A rebuilds from tag and set, and B from its own product.
LEMMA SameAddress ==
    ASSUME NEW tag \in Nat, NEW s \in SetIds
    PROVE  AddrFromTagSet(tag, s) = tag * LineBytes * Sets + s * LineBytes
  BY SetsAssumption, LineBytesAssumption, SMTT(30) DEF AddrFromTagSet, SetIds

LEMMA MissTogether ==
    ASSUME CacheInv, StoresTyped, InStep, Replacement = "lru", WriteAllocate,
           NEW t \in Txns, Miss(t), AltMiss(t)
    PROVE  InStep'
  <1> DEFINE s == SetIdx(t.addr)
  <1>1. s \in SetIds /\ Tag(t.addr) \in Nat /\ t.op \in {"read", "write"}
    BY TxnAddresses, TxnType
  <1>2. PICK w \in WayIds :
          /\ Allocate(t, w)
          /\ lines' = [lines EXCEPT ![s][w] = AfterAccess(FilledLine(t, w), t)]
          /\ Touch(s, w)
          /\ response' = AllocateResponse(t, w, DataOf(FilledLine(t, w), t))
    BY DEF Miss
  <1> DEFINE dirtyB(v) == tag_store[s][v] # -1 /\ dirty_store[s][v]
  <1>3. PICK v \in WayIds :
          /\ AltVictim(s, v)
          /\ response_b' =
               [Response(AltLoaded(ZeroLine, t), FALSE) EXCEPT
                  !.evicted_dirty = dirtyB(v),
                  !.writeback_addr = IF dirtyB(v)
                                     THEN tag_store[s][v] * LineBytes * Sets + s * LineBytes
                                     ELSE None,
                  !.writeback_data = IF dirtyB(v) THEN data_store[s][v] ELSE None]
          /\ tag_store' = [tag_store EXCEPT ![s][v] = Tag(t.addr)]
          /\ dirty_store' = [dirty_store EXCEPT ![s][v] = (t.op = "write" /\ WriteAllocate)]
          /\ UpdateLru(s, v)
    BY DEF AltMiss
  <1>4. IsAllocated(s, w)
    BY <1>2 DEF Allocate
  <1>5. v = w
    BY <1>1, <1>3, <1>4, SameVictim
  <1>6. lines[s][w] \in CacheLine /\ FilledLine(t, w) \in CacheLine
    BY <1>1, <1>2, AllocateIsAny, AllocateType DEF CacheInv, TypeOK
  <1>7. dirtyB(w) <=> EvictsDirty(s, w)
    <2>1. CASE InvalidWays(s) = {}
      <3>1. lines[s][w].valid
        BY <2>1 DEF InvalidWays
      <3> QED
        BY <1>1, <2>1, <3>1 DEF EvictsDirty, Evicts, InStep, SameLines
    <2>2. CASE InvalidWays(s) # {}
      <3>1. ~lines[s][w].valid
        BY <1>4, <2>2 DEF IsAllocated, IsFirst, InvalidWays
      <3> QED
        BY <1>1, <2>2, <3>1 DEF EvictsDirty, Evicts, InStep, SameLines
    <2> QED
      BY <2>1, <2>2
  <1>8. dirtyB(w) => VictimBase(s, w) = tag_store[s][w] * LineBytes * Sets + s * LineBytes
    <2> SUFFICES ASSUME dirtyB(w)
                 PROVE  VictimBase(s, w) = tag_store[s][w] * LineBytes * Sets + s * LineBytes
      OBVIOUS
    <2>1. lines[s][w].tag = tag_store[s][w] /\ tag_store[s][w] \in Nat
      BY <1>1 DEF InStep, SameLines, StoresTyped
    <2> QED
      BY <1>1, <2>1, SameAddress DEF VictimBase
  <1>9. /\ response'.hit = FALSE
        /\ response'.evicted_dirty = EvictsDirty(s, w)
        /\ response'.writeback_addr = IF EvictsDirty(s, w) THEN VictimBase(s, w) ELSE None
    BY <1>2 DEF AllocateResponse, Response
  <1>10. /\ response_b'.hit = FALSE
         /\ response_b'.evicted_dirty = dirtyB(w)
         /\ response_b'.writeback_addr =
               IF dirtyB(w) THEN tag_store[s][w] * LineBytes * Sets + s * LineBytes
               ELSE None
    BY <1>3, <1>5 DEF Response
  <1>11. EvictsDirty(s, w) \in BOOLEAN /\ dirtyB(w) \in BOOLEAN
    BY <1>1, <1>6 DEF EvictsDirty, Evicts, CacheLine, StoresTyped
  <1>12. SameVerdict'
    <2> HIDE DEF dirtyB
    <2> QED
      BY <1>7, <1>8, <1>9, <1>10, <1>11 DEF SameVerdict
  <1> DEFINE line == AfterAccess(FilledLine(t, w), t)
  <1>13. /\ line \in CacheLine /\ line.valid /\ line.tag = Tag(t.addr)
         /\ line.dirty = (t.op = "write")
    <2>1. /\ FilledLine(t, w).valid /\ FilledLine(t, w).tag = Tag(t.addr)
          /\ FilledLine(t, w).dirty = FALSE
      BY DEF FilledLine
    <2> QED
      BY <1>6, <2>1, AfterAccessType, AfterAccessDirty
  <1> HIDE DEF line
  <1>14. /\ tag_store' = [tag_store EXCEPT ![s][w] = line.tag]
         /\ dirty_store' = [dirty_store EXCEPT ![s][w] = line.dirty]
         /\ lines' = [lines EXCEPT ![s][w] = line]
    BY <1>2, <1>3, <1>5, <1>13 DEF line
  <1>15. /\ SameLines'
         /\ \A r \in SetIds, u \in WayIds :
               lines'[r][u].valid <=> (r = s /\ u = w) \/ lines[r][u].valid
    <2>1. SameLines /\ line.tag \in Nat /\ line \in CacheLine /\ line.valid
      BY <1>1, <1>13 DEF InStep
    <2> QED
      BY <1>1, <1>14, <2>1, OneWayKeepsSameLines
  <1>16. SameOrder' /\ TicksFit' /\ \A r \in SetIds : Injective(lru'[r])
    BY <1>1, <1>2, <1>3, <1>5, <1>15, UseKeepsOrder
  <1> QED
    BY <1>12, <1>15, <1>16 DEF InStep

LEMMA AccessTogether ==
    ASSUME CacheInv, StoresTyped, InStep, Replacement = "lru", WriteAllocate,
           NEW t \in Txns, BothAccess(t)
    PROVE  InStep'
  <1>1. Access(t) /\ AltAccess(t) /\ ~t.uncached /\ ~CrossLine(t)
    BY DEF BothAccess, Comparable
  <1>2. Hit(t) \/ Miss(t)
    BY <1>1 DEF Access, UncachedAccess, WriteAround, GoesAround, RejectHit, RejectMiss
  <1>3. Hit(t) => WaysHolding(t.addr) # {}
    BY DEF Hit, IsFirst
  <1>4. Miss(t) => WaysHolding(t.addr) = {}
    BY DEF Miss, Allocate
  <1>5. (AltHit(t) => AltWays(t) # {}) /\ (AltMiss(t) => AltWays(t) = {})
    BY DEF AltHit, AltMiss, IsFirst
  <1> QED
    BY <1>1, <1>2, <1>3, <1>4, <1>5, SameWays, HitTogether, MissTogether DEF AltAccess
-----------------------------------------------------------------------------
LEMMA AltInitialTyped ==
    /\ AltInitial.tag_store \in [SetIds -> [WayIds -> Nat \cup {-1}]]
    /\ AltInitial.dirty_store \in [SetIds -> [WayIds -> BOOLEAN]]
    /\ AltInitial.lru_count \in [SetIds -> [WayIds -> Nat]]
    /\ AltInitial.lru_tick \in [SetIds -> Nat]
    /\ \A s \in SetIds, w \in WayIds :
          AltInitial.tag_store[s][w] = -1 /\ AltInitial.lru_count[s][w] = 0
    /\ \A s \in SetIds : AltInitial.lru_tick[s] = 0
  BY DEF AltInitial

LEMMA LockstepStarts ==
    ASSUME LockstepInit
    PROVE  LockstepInv
  <1>1. CacheInv
    BY InitInv DEF LockstepInit
  <1>2. StoresTyped
    BY AltInitialTyped DEF LockstepInit, StoresTyped
  <1>3. \A s \in SetIds, w \in WayIds :
           /\ lines[s][w].valid = FALSE
           /\ tag_store[s][w] = -1 /\ lru_count[s][w] = 0 /\ lru_tick[s] = 0
    BY AltInitialTyped DEF LockstepInit, Init
  <1>4. SameLines /\ SameOrder /\ TicksFit
    <2>1. \A s \in SetIds, i \in Ranks : lru[s][i] \in WayIds
      BY <1>1 DEF CacheInv, TypeOK
    <2> QED
      BY <1>3, <2>1 DEF SameLines, SameOrder, TicksFit
  <1>5. \A s \in SetIds : Injective(lru[s])
    BY WaysAssumption DEF LockstepInit, Init, InitialOrder, Injective, Ranks
  <1>6. SameVerdict
    BY DEF LockstepInit, Init, SameVerdict
  <1> QED
    BY <1>1, <1>2, <1>4, <1>5, <1>6 DEF LockstepInv, InStep

LEMMA LockstepKept ==
    ASSUME LockstepInv, [LockstepNext]_lockstepVars
    PROVE  LockstepInv'
  <1>1. ASSUME NEW t \in Txns, BothAccess(t) PROVE LockstepInv'
    <2>1. Access(t) /\ AltAccess(t) /\ in_step' = in_step
      BY <1>1 DEF BothAccess
    <2>2. CacheInv' /\ StoresTyped'
      BY <2>1, AccessKeepsInv, AltAccessTypes DEF LockstepInv
    <2> QED
      BY <1>1, <2>1, <2>2, AccessTogether DEF LockstepInv
  <1>2. CASE OnlyA
    <2>1. in_step' = FALSE /\ FreshB
      BY <1>2 DEF OnlyA, LeaveB
    <2>2. Next
      BY <1>2 DEF OnlyA, Next
    <2>3. CacheInv'
      BY <2>2, NextKeepsInv DEF LockstepInv
    <2>4. StoresTyped'
      BY <2>1, AltInitialTyped DEF FreshB, StoresTyped
    <2> QED
      BY <2>1, <2>3, <2>4 DEF LockstepInv
  <1>3. CASE UNCHANGED lockstepVars
    <2>1. UNCHANGED vars /\ UNCHANGED <<stores, ticks, response_b, in_step>>
      BY <1>3 DEF lockstepVars, modelB
    <2>2. CacheInv'
      BY <2>1, NextKeepsInv DEF LockstepInv
    <2>3. StoresTyped'
      BY <2>1 DEF stores, ticks, LockstepInv, StoresTyped
    <2>4. InStep => InStep'
      BY <2>1 DEF vars, stores, ticks, InStep, SameVerdict, SameLines, SameOrder, TicksFit
    <2> QED
      BY <2>1, <2>2, <2>3, <2>4 DEF LockstepInv
  <1> QED
    BY <1>1, <1>2, <1>3 DEF LockstepNext

THEOREM LockstepInvariant == LockstepSpec => []LockstepInv
  <1>1. LockstepInit => LockstepInv
    BY LockstepStarts
  <1>2. LockstepInv /\ [LockstepNext]_lockstepVars => LockstepInv'
    BY LockstepKept
  <1> QED
    BY <1>1, <1>2, PTL DEF LockstepSpec

(***************************************************************************)
(* Under LRU the two models of cross_validation.py give the same verdict   *)
(* for every geometry and every stream that B was written for, however     *)
(* long: A's list and B's ticks always pick the same victim.               *)
(***************************************************************************)
THEOREM TwoModelsAgree == LockstepSpec => []ModelsAgree
  <1>1. LockstepInv => ModelsAgree
    BY DEF LockstepInv, InStep, ModelsAgree
  <1> QED
    BY <1>1, LockstepInvariant, PTL
=============================================================================
