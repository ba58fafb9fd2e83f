---------------------------- MODULE CoverageHoles ----------------------------
(***************************************************************************)
(* CoverageHoleAnalyzer of cache_vip/coverage_analyzer.py: every bin a     *)
(* summary calls missing is put in a category, by the family its name      *)
(* starts with.  The advice that goes with a category is wording.          *)
(***************************************************************************)
EXTENDS Coverage

\* The names each family of bins is known by; op, size and access take any.
KnownNames ==
    [replacement |-> {"dirty", "clean"},
     mask |-> {"full", "single", "sparse"},
     addr |-> {"same_set", "line_boundary", "back_to_back_same_line",
               "stride_access_pattern"},
     latency |-> {"short", "long"},
     cross |-> {"size_mask", "replacement_type", "access_latency"},
     policy |-> {"write_allocate", "replacement"}]

IsKnown(bin) ==
    \/ bin[1] \in {"op", "size", "access"}
    \/ bin[1] \in DOMAIN KnownNames /\ bin[2] \in KnownNames[bin[1]]

IsConfigBlocked(bin) ==
    \/ bin \in {<<"access", "write", "miss">>, <<"latency", "long">>}
    \/ bin[1] = "policy" /\ IsKnown(bin)

\* No bin is ever put in the categories UNREACHABLE and BUG_BLOCKED.
HoleCategory(bin) ==
    IF IsConfigBlocked(bin) THEN "CONFIG_BLOCKED"
    ELSE IF IsKnown(bin) THEN "HARD_TO_REACH"
    ELSE "POTENTIALLY_REACHABLE"

\* analyze(): the bins of the summary, each with its category.
Attributions(cov) ==
    {[bin_name |-> bin, category |-> HoleCategory(bin)] :
        bin \in Missing(cov) \cup ExtendedMissing(cov)}
=============================================================================
