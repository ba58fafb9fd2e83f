------------------------------ MODULE Coverage ------------------------------
(***************************************************************************)
(* Coverage of cache_vip/coverage.py: the bins an access falls into.  A    *)
(* collector is a record of the bins hit so far (how often is not kept)    *)
(* and of the previous access, and a bin is the sequence of the parts of   *)
(* its name.  Only whether a latency is long (8 cycles or more) is kept    *)
(* of it.                                                                  *)
(***************************************************************************)
EXTENDS CacheAddress, FiniteSets

RequiredBins ==
    ({"op"} \X {"read", "write"}) \cup ({"size"} \X {1, 2, 4, 8})
    \cup ({"access"} \X {"read", "write"} \X {"hit", "miss"})
    \cup ({"replacement"} \X {"clean", "dirty"})
    \cup ({"mask"} \X {"full", "single", "sparse"})
    \cup ({"addr"} \X {"same_set", "line_boundary"})
    \cup ({"latency"} \X {"short", "long"})

ExtendedBins ==
    ({"cross"} \X {"size_mask"} \X {"size8_full", "size4_sparse", "size1_single"})
    \cup ({"cross"} \X {"replacement_type"} \X {"dirty_read_miss", "clean_write_miss"})
    \cup ({"cross"} \X {"access_latency"} \X {"read_miss_long", "write_hit_short"})
    \cup {<<"policy", "write_allocate", "write_miss_alloc">>}
    \cup ({"policy"} \X {"replacement"} \X {"lru_eviction", "fifo_eviction"})
    \cup ({"addr"} \X {"back_to_back_same_line", "stride_access_pattern"})

Nowhere == -1    \* None: nothing was sampled yet

NewCoverage == [bins |-> {}, last_line_base |-> Nowhere, last_addr |-> Nowhere]
-----------------------------------------------------------------------------
Where(table) == {row[1] : row \in {r \in table : r[2]}}

MaskType(t) ==
    CASE t.mask = 0 .. t.size - 1 -> "full"
      [] t.mask # 0 .. t.size - 1 /\ Cardinality(t.mask) = 1 -> "single"
      [] OTHER -> "sparse"

\* What every caller of sample_access passes for evicted_clean.
EvictedClean(r) == r.evicted /\ ~r.evicted_dirty

AccessBins(t, r, long, same_set) ==
    {<<"op", t.op>>, <<"size", t.size>>, <<"mask", MaskType(t)>>,
     <<"latency", IF long THEN "long" ELSE "short">>}
    \cup Where({
        <<<<"access", t.op, "hit">>, r.hit>>,
        <<<<"access", t.op, "miss">>, ~r.hit>>,
        <<<<"mask", "single">>, MaskType(t) = "full" /\ t.size = 1>>,
        <<<<"replacement", "dirty">>, r.evicted_dirty>>,
        <<<<"replacement", "clean">>, EvictedClean(r)>>,
        <<<<"addr", "same_set">>, same_set>>,
        <<<<"addr", "line_boundary">>, Offset(t.addr) >= LineBytes - 8>>})

Distance(a, b) == IF a < b THEN b - a ELSE a - b

CrossBins(cov, t, r, long, replacement, write_allocate) ==
    Where({
        <<<<"cross", "size_mask", "size8_full">>, t.size = 8 /\ MaskType(t) = "full">>,
        <<<<"cross", "size_mask", "size4_sparse">>, t.size = 4 /\ MaskType(t) = "sparse">>,
        <<<<"cross", "size_mask", "size1_single">>,
            t.size = 1 /\ MaskType(t) \in {"single", "full"}>>,
        <<<<"cross", "replacement_type", "dirty_read_miss">>,
            r.evicted_dirty /\ ~r.hit /\ t.op = "read">>,
        <<<<"cross", "replacement_type", "clean_write_miss">>,
            EvictedClean(r) /\ ~r.hit /\ t.op = "write">>,
        <<<<"cross", "access_latency", "read_miss_long">>,
            ~r.hit /\ t.op = "read" /\ long>>,
        <<<<"cross", "access_latency", "write_hit_short">>,
            r.hit /\ t.op = "write" /\ ~long>>,
        <<<<"policy", "write_allocate", "write_miss_alloc">>,
            write_allocate /\ ~r.hit /\ t.op = "write">>,
        <<<<"policy", "replacement", "lru_eviction">>,
            (r.evicted_dirty \/ EvictedClean(r)) /\ replacement = "lru">>,
        <<<<"policy", "replacement", "fifo_eviction">>,
            (r.evicted_dirty \/ EvictedClean(r)) /\ replacement = "fifo">>,
        <<<<"addr", "back_to_back_same_line">>, cov.last_line_base = LineBase(t.addr)>>,
        <<<<"addr", "stride_access_pattern">>,
            cov.last_addr # Nowhere /\ Distance(t.addr, cov.last_addr) = LineBytes>>})

\* Faulty variant: the previous access is never remembered.
SampleWithoutHistory(cov, t, r, long, same_set, replacement, write_allocate) ==
    [cov EXCEPT !.bins = @ \cup AccessBins(t, r, long, same_set)
                         \cup CrossBins(cov, t, r, long, replacement, write_allocate)]

SampleAccess(cov, t, r, long, same_set, replacement, write_allocate) ==
    [bins |-> cov.bins \cup AccessBins(t, r, long, same_set)
              \cup CrossBins(cov, t, r, long, replacement, write_allocate),
     last_line_base |-> LineBase(t.addr),
     last_addr |-> t.addr]
-----------------------------------------------------------------------------
Missing(cov) == RequiredBins \ cov.bins
ExtendedMissing(cov) == ExtendedBins \ cov.bins

\* percent() >= p and extended_percent() >= p
CoversPercent(cov, p) ==
    100 * Cardinality(RequiredBins \cap cov.bins) >= p * Cardinality(RequiredBins)
CoversExtendedPercent(cov, p) ==
    100 * Cardinality(ExtendedBins \cap cov.bins) >= p * Cardinality(ExtendedBins)
=============================================================================
