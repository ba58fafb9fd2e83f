--------------------------- MODULE FaultDetection ---------------------------
(***************************************************************************)
(* The fault-detection loop of regression.py and of                        *)
(* generate_dut_coverage_evidence.py: a second reference model stands for  *)
(* the device, a fault of faults.py is injected once between it and        *)
(* the scoreboard - into the transaction it is driven with, into its       *)
(* response, or by giving it another transaction's - and Scoreboard        *)
(* compares the response with the good model's.                            *)
(***************************************************************************)
EXTENDS ReferenceCacheProperties, FiniteSets

Check == INSTANCE ResponseCheck

VARIABLES
    f_lines, f_lru, f_fifo, f_memory, f_last_writeback, f_response, \* faulty_ref
    injected,     \* a fault was injected
    dropped,      \* the write that lost a bit of its mask, None if there is none
    detected      \* a comparison raised ScoreboardMismatch

faultyVars == <<f_lines, f_lru, f_fifo, f_memory, f_last_writeback, f_response>>
detectionVars == <<vars, faultyVars, injected, dropped, detected>>

Faulty == INSTANCE ReferenceCache
             WITH lines <- f_lines, lru <- f_lru, fifo <- f_fifo, memory <- f_memory,
                  last_writeback <- f_last_writeback, response <- f_response

ResponseFaults ==
    {"flip_read_bit", "corrupt_writeback_byte", "corrupt_writeback_addr", "flip_tag_match"}
Faults == ResponseFaults \cup {"drop_mask_bit", "swap_order"}
-----------------------------------------------------------------------------
(***************************************************************************)
(* FaultInjector.  What a bit flip makes of a response is a free choice; a  *)
(* fault that finds nothing to corrupt hands back what it was given.       *)
(***************************************************************************)
OneOff(data) ==
    UNION {{[data EXCEPT ![i] = b] : b \in Byte \ {data[i]}} : i \in DOMAIN data}

FlipReadBit(r) ==
    IF r.data = NoData THEN {r} ELSE {[r EXCEPT !.data = d] : d \in OneOff(r.data)}

CorruptWritebackByte(r) ==
    IF r.writeback_data = None THEN {r}
    ELSE {[r EXCEPT !.writeback_data = d] : d \in OneOff(r.writeback_data)}

CorruptWritebackAddr(r) ==
    IF r.writeback_addr = None THEN {r}
    ELSE {[r EXCEPT !.writeback_addr = a] : a \in Addrs \ {r.writeback_addr}}

\* Faulty variant: a comparator that was never wired up.
FlipNoTagMatch(r) == {r}

FlipTagMatch(r) == {[r EXCEPT !.hit = ~r.hit]}

\* An empty mask stays as it is, and so does one without that bit.
DropMaskBit(t, bit) == [t EXCEPT !.mask = @ \ {bit}]

Corruptions(kind, r) ==
    CASE kind = "flip_read_bit"          -> FlipReadBit(r)
      [] kind = "corrupt_writeback_byte" -> CorruptWritebackByte(r)
      [] kind = "corrupt_writeback_addr" -> CorruptWritebackAddr(r)
      [] kind = "flip_tag_match"         -> FlipTagMatch(r)
      [] OTHER                           -> {r}
-----------------------------------------------------------------------------
(***************************************************************************)
(* Scoreboard.compare_response: the ids first, then what ResponseCheck     *)
(* says.  Responses of the reference model leave nothing unobserved.       *)
(***************************************************************************)
AsResponse(r) ==
    [data |-> r.data, hit |-> r.hit, evicted_dirty |-> r.evicted_dirty,
     writeback_addr |-> r.writeback_addr, writeback_data |-> r.writeback_data,
     error |-> FALSE, observed_fields |-> None]

Mismatch(t, expected, actual, same_id) ==
    ~same_id \/ Check!Diverges(t.op, AsResponse(expected), AsResponse(actual))

\* Faulty variant: the response compared is the one before.
CompareStale(t, driven, kind) ==
    /\ Access(t)
    /\ Faulty!Access(driven)
    /\ \E actual \in Corruptions(kind, f_response) :
           detected' = (detected \/ Mismatch(t, response', actual, kind # "swap_order"))

\* Both models see the transaction, the scoreboard both responses.
Compare(t, driven, kind) ==
    /\ Access(t)
    /\ Faulty!Access(driven)
    /\ \E actual \in Corruptions(kind, f_response') :
           detected' = (detected \/ Mismatch(t, response', actual, kind # "swap_order"))

CompareFaithful(t) ==
    /\ Compare(t, t, "none")
    /\ UNCHANGED <<injected, dropped>>

Inject(t, kind, bit) ==
    /\ ~injected
    /\ Compare(t, IF kind = "drop_mask_bit" THEN DropMaskBit(t, bit) ELSE t, kind)
    /\ injected' = TRUE
    /\ dropped' = IF kind = "drop_mask_bit" THEN t ELSE None

\* A run is over when the fault is detected, if it stops at all.
DetectionInit ==
    /\ Init
    /\ Faulty!Init
    /\ injected = FALSE
    /\ dropped = None
    /\ detected = FALSE

DetectionNext ==
    /\ ~detected
    /\ \E t \in Txns :
          \/ CompareFaithful(t)
          \/ \E kind \in Faults, bit \in Bytes(t) : Inject(t, kind, bit)

DetectionSpec == DetectionInit /\ [][DetectionNext]_detectionVars
-----------------------------------------------------------------------------
(***************************************************************************)
(* Two copies of the model that see the same transactions answer alike, on *)
(* every field the scoreboard compares: without a fault nothing is blamed, *)
(* or a detection would prove nothing about the fault.                     *)
(***************************************************************************)
FaithfulNeverRefused == detected => injected

(***************************************************************************)
(* Until it is detected, a fault has changed nothing but the bytes of the  *)
(* write it was injected into: the two caches hold the same lines in the   *)
(* same ways, as recent and as dirty, and every other byte is equal in the *)
(* cache and in memory.  A dropped mask bit shows on a later read or       *)
(* writeback of those bytes or never - and it is not one byte when the     *)
(* mask becomes empty and the write goes around the cache.                 *)
(***************************************************************************)
MayDiffer == IF dropped = None THEN {} ELSE {dropped.addr + i : i \in Bytes(dropped)}

SameBookkeeping ==
    /\ \A s \in SetIds : \A w \in WayIds :
          /\ f_lines[s][w].valid = lines[s][w].valid
          /\ f_lines[s][w].dirty = lines[s][w].dirty
          /\ f_lines[s][w].tag = lines[s][w].tag
    /\ f_lru = lru
    /\ f_fifo = fifo

SameBytesBut(D) ==
    /\ \A a \in Addrs \ D : f_memory[a] = memory[a]
    /\ \A s \in SetIds : \A w \in WayIds : \A o \in Offsets :
          lines[s][w].valid /\ AddrFromTagSet(lines[s][w].tag, s) + o \notin D
          => f_lines[s][w].data[o] = lines[s][w].data[o]

FaultStaysInItsWrite == SameBookkeeping /\ SameBytesBut(MayDiffer)
=============================================================================
