------------------------ MODULE TransactionGenerator ------------------------
(***************************************************************************)
(* CacheGenerator of cache_vip/generator.py and the fixed streams of       *)
(* regression.py.  A directed sequence is the sequence of its              *)
(* transactions; a random method is the predicate that tells which         *)
(* transactions it can return, whatever its seed.                          *)
(*                                                                         *)
(* The bytes a write carries are told apart by its marker and their index. *)
(* A directed transaction may carry the outcome that the comment next to   *)
(* it promises.                                                            *)
(***************************************************************************)
EXTENDS ReferenceCache, Sequences, FiniteSets

CONSTANTS
    UncachedBase,     \* 0x80000000, where the uncached sequence goes
    UncachedWeight    \* GeneratorProfile.uncached_weight

ASSUME GeneratorAssumption ==
    /\ UncachedBase \in Nat
    /\ UncachedWeight \in 0 .. 100

Full(size) == 0 .. size - 1

\* _make
Make(op, addr, size, marker, mask, uncached, promise) ==
    [op |-> op, addr |-> addr, size |-> size,
     data |-> [i \in 0 .. size - 1 |-> IF marker = 0 THEN 0 ELSE 8 * (marker - 1) + i + 1],
     mask |-> mask, uncached |-> uncached, promise |-> promise]

ReadAt(addr, size) == Make("read", addr, size, 0, Full(size), FALSE, None)
ReadPromised(addr, size, promise) == [ReadAt(addr, size) EXCEPT !.promise = promise]
WriteAt(addr, size, marker, mask) == Make("write", addr, size, marker, mask, FALSE, None)
AsUncached(t) == [t EXCEPT !.uncached = TRUE]

AddrOf(tag, s) == AddrFromTagSet(tag, s)
-----------------------------------------------------------------------------
(***************************************************************************)
(* Directed sequences.                                                     *)
(***************************************************************************)
\* Faulty variant: one tag short of what fills the set and evicts.
ReplacementSequenceThatFits(s, dirty) ==
    [tag \in 1 .. Ways |-> IF dirty THEN WriteAt(AddrOf(tag - 1, s), 8, tag, Full(8))
                           ELSE ReadAt(AddrOf(tag - 1, s), 8)]
    \o <<ReadAt(AddrOf(0, s), 8)>>

ReplacementSequence(s, dirty) ==
    [tag \in 1 .. Ways + 1 |-> IF dirty THEN WriteAt(AddrOf(tag - 1, s), 8, tag, Full(8))
                               ELSE ReadAt(AddrOf(tag - 1, s), 8)]
    \o <<ReadAt(AddrOf(0, s), 8)>>

\* Faulty variant: the read that makes tag 1 the most recently used is left out.
ReplacementWithoutTouch(s) ==
    [tag \in 1 .. Ways + 1 |-> WriteAt(AddrOf(tag - 1, s), 8, tag, Full(8))]
    \o <<ReadPromised(AddrOf(0, s), 8, "miss"), ReadPromised(AddrOf(1, s), 8, "hit")>>

ReplacementWithLruCheck(s) ==
    [tag \in 1 .. Ways + 1 |-> WriteAt(AddrOf(tag - 1, s), 8, tag, Full(8))]
    \o <<ReadAt(AddrOf(1, s), 8),
         ReadPromised(AddrOf(0, s), 8, "miss"),
         ReadPromised(AddrOf(1, s), 8, "hit")>>

PartialWriteSequence(base_addr) ==
    LET base == LineBase(base_addr)
    IN  <<WriteAt(base, 8, 1, Full(8)), WriteAt(base + 1, 4, 2, {0, 2}),
          WriteAt(base + 6, 2, 3, {1}), ReadAt(base, 8)>>

PartialWriteCrossOffset(base_addr) ==
    LET base == LineBase(base_addr)
    IN  <<WriteAt(base, 8, 1, Full(8)), WriteAt(base + 4, 4, 2, {0, 2}),
          WriteAt(base + 12, 4, 3, {1, 3}), WriteAt(base + 24, 1, 4, {0}),
          ReadAt(base, 8), ReadAt(base + 8, 8)>>

RawDependencySequence(base_addr) ==
    LET base == LineBase(base_addr)
    IN  <<WriteAt(base, 8, 1, Full(8)), ReadAt(base, 8),
          WriteAt(base + 2, 2, 2, Full(2)), ReadAt(base, 8),
          WriteAt(base, 4, 3, Full(4)), ReadAt(base, 8)>>

LineBoundaryAllSizes(base_addr) ==
    LET end == LineBase(base_addr) + LineBytes
    IN  <<ReadAt(end - 1, 1), ReadAt(end - 2, 2), ReadAt(end - 4, 4), ReadAt(end - 8, 8),
          WriteAt(end - 4, 4, 1, Full(4)), ReadAt(end - 8, 8)>>

UncachedAccessSequence(base) ==
    <<AsUncached(WriteAt(base, 4, 1, Full(4))), AsUncached(ReadAt(base, 4)),
      AsUncached(WriteAt(base + 4, 2, 2, Full(2))), AsUncached(ReadAt(base + 4, 2)),
      WriteAt(base + 256, 4, 3, Full(4)), ReadAt(base + 256, 4)>>

ResetStateClear(base_addr) ==
    LET base == LineBase(base_addr)
    IN  <<WriteAt(base, 8, 1, Full(8)), ReadPromised(base, 8, "hit"), ReadAt(base, 8)>>

\* regression._raw_hazard_sequence and _line_boundary_sequence
RawHazardSequence(base) ==
    <<WriteAt(base, 8, 1, Full(8)), ReadAt(base, 8), WriteAt(base + 2, 2, 2, Full(2)),
      ReadAt(base, 8), WriteAt(base, 4, 3, {1, 3}), ReadAt(base, 8)>>

LineBoundarySequence == <<ReadAt(63, 1), ReadAt(62, 2), ReadAt(60, 4), ReadAt(56, 8)>>

SmokeStream ==
    <<ReadAt(0, 8), WriteAt(0, 8, 1, Full(8)), ReadAt(0, 8), WriteAt(4, 4, 2, {0, 2}),
      ReadAt(0, 8)>>

DirectedStream ==
    PartialWriteSequence(4096) \o ReplacementSequence(1, TRUE)
    \o ReplacementSequence(2, FALSE) \o RawHazardSequence(12288) \o LineBoundarySequence
    \o ReplacementWithLruCheck(3) \o PartialWriteCrossOffset(20480)
    \o RawDependencySequence(24576) \o LineBoundaryAllSizes(23552)
    \o UncachedAccessSequence(UncachedBase) \o ResetStateClear(28672)
    \o <<ReadAt(56, 8), AsUncached(WriteAt(8192, 1, 4, {0})), AsUncached(ReadAt(8192, 1))>>

\* The stream of _run_coverage_closure.
ClosureStream ==
    <<ReadAt(0, 1), ReadAt(0, 1), WriteAt(8, 2, 1, Full(2)), WriteAt(8, 2, 2, {0}),
      WriteAt(16, 4, 3, {0, 2}), WriteAt(24, 8, 4, Full(8)), ReadAt(56, 8),
      WriteAt(64, 1, 5, {0})>>
    \o ReplacementSequence(1, TRUE) \o ReplacementSequence(2, FALSE)
    \o [w \in 1 .. Ways |-> ReadAt(AddrOf(w - 1, 3), 4)]
    \o <<WriteAt(AddrOf(Ways, 3), 4, 6, Full(4))>>
-----------------------------------------------------------------------------
(***************************************************************************)
(* Random methods.                                                         *)
(***************************************************************************)
Least(a, b) == IF a < b THEN a ELSE b

HotSetBases == {AddrOf(tag, s) : tag \in 0 .. 31, s \in 0 .. Least(8, Sets) - 1}

\* Faulty variant: the offset is drawn from the whole line.
CanBeRandomAddrAnywhere(addr, size) ==
    LineBase(addr) \in HotSetBases \/ LineBase(addr) < 65536

\* _random_addr
CanBeRandomAddr(addr, size) ==
    /\ LineBase(addr) \in HotSetBases \/ LineBase(addr) < 65536
    /\ Offset(addr) <= LineBytes - size

\* random_txn: any data, and any non-empty mask of a write (_random_mask).
CanBeRandom(t) ==
    /\ CanBeRandomAddr(t.addr, t.size)
    /\ IF t.op = "write" THEN t.mask # {} ELSE t.mask = Full(t.size)
    /\ t.uncached => UncachedWeight > 0

\* mask_options[:size]
WeightedMasks(size) ==
    LET options == <<Full(8), 0 .. 3, 4 .. 7, {0}, {4}, {0, 4}, {0, 2, 4, 6}, {1, 3, 5, 7}>>
    IN  {LET mask == options[i] \cap Full(size)
         IN  IF mask = {} THEN Full(size) ELSE mask : i \in 1 .. size}

\* weighted_stream
CanBeWeighted(t) ==
    /\ LET index == t.addr \div (LineBytes * Ways)
       IN  index < Least(Sets, 8) /\ t.addr % (LineBytes * Ways) <= LineBytes - 8
    /\ IF t.op = "write" THEN t.mask \in WeightedMasks(t.size) ELSE t.mask = {}
    /\ ~t.uncached

\* The default base_addr of implication_stream.
ImplicationBase == 4096

\* implication_stream
CanBeImplied(t) ==
    /\ t.addr - ImplicationBase \in 0 .. Sets * LineBytes - 1
    /\ LET offset == (t.addr - ImplicationBase) % LineBytes
       IN  \/ offset = 0 /\ t.size = 8
           \/ offset \in 1 .. LineBytes - t.size /\ t.size \in {1, 2, 4}
    /\ IF t.op = "write" THEN t.mask # {} /\ Cardinality(Full(t.size) \ t.mask) <= 1
       ELSE t.mask = {}
    /\ ~t.uncached
=============================================================================
