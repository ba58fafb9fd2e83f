--------------------------- MODULE RegressionSuite ---------------------------
(***************************************************************************)
(* The programs that drive the reference model from start to verdict.      *)
(*                                                                         *)
(*   core         run_core_regression (regression.py): the smoke,          *)
(*                directed and random streams against the oracle, the      *)
(*                coverage closure, the six fault tests, one verdict       *)
(*   enhanced     run_enhanced_regression: random streams and fault tests  *)
(*   large_scale  a seed of run_large_scale_regression.py without a DUT    *)
(*   evidence     generate_dut_coverage_evidence.py: coverage collected    *)
(*                over directed, random, FIFO and clean-write-miss phases, *)
(*                then the fault scenarios                                 *)
(*                                                                         *)
(* A flow is a sequence of jobs; within a job, index counts transactions   *)
(* from 1.  A random job takes any transactions its generator can make, in *)
(* any number.  `ref` is the cache of ReferenceCache, and fifo_ref and the *)
(* faulty_ref of a fault test are the second cache of FaultDetection.  The *)
(* collector of a random stream is left out: the verdict does not read it. *)
(***************************************************************************)
EXTENDS CacheRegression, FaultDetection, TransactionGenerator, CoverageHoles

CONSTANTS
    Sample,           \* the transactions a random method is tried with
    EvidenceSample,   \* the same, in the evidence's random phase,
    EvidenceCount     \* and how many that phase takes (500)

ASSUME SuiteAssumption == EvidenceCount \in Nat

VARIABLES
    flow,             \* which program runs
    params,           \* its CacheParams, as far as they differ from the default
    todo,             \* the jobs left, the current one first
    index,            \* the transaction the current job is at
    cov,              \* the Coverage collector
    visited_sets,     \* the sets sampled so far
    results           \* <<job, passed>> of every finished job

suiteVars ==
    <<vars, faultyVars, injected, dropped, detected, oracle, status,
      flow, params, todo, index, cov, visited_sets, results>>

\* The models under the policies of a CacheParams, and those of a fault test that
\* makes them with CacheParams(sets=1, ways=1).
Under(policy) ==
    INSTANCE FaultDetection
       WITH Replacement <- policy.replacement, WriteAllocate <- policy.write_allocate
OneWay ==
    INSTANCE FaultDetection
       WITH Sets <- 1, Ways <- 1, Replacement <- "lru", WriteAllocate <- TRUE

Params == [replacement : {"lru", "fifo"}, write_allocate : BOOLEAN]
DefaultParams == [replacement |-> "lru", write_allocate |-> TRUE]

Job == todo[1]
-----------------------------------------------------------------------------
(***************************************************************************)
(* One access of ref, of fifo_ref, and of both in a fault test, under the  *)
(* policies in force.                                                      *)
(***************************************************************************)
AccessRef(t) == \E policy \in Params : policy = params /\ Under(policy)!Access(t)

AccessFifoRef(t) ==
    \E policy \in Params :
        policy = [params EXCEPT !.replacement = "fifo"] /\ Under(policy)!Faulty!Access(t)

OneWayFaults == {"corrupt_writeback_byte", "corrupt_writeback_addr"}

CompareBoth(kind, t, inject) ==
    \/ /\ kind \in OneWayFaults
       /\ IF inject THEN OneWay!Inject(t, kind, 0) ELSE OneWay!CompareFaithful(t)
    \/ /\ kind \notin OneWayFaults
       /\ \E policy \in Params :
             /\ policy = params
             /\ IF inject THEN Under(policy)!Inject(t, kind, 0)
                ELSE Under(policy)!CompareFaithful(t)
-----------------------------------------------------------------------------
(***************************************************************************)
(* Sampling.                                                               *)
(***************************************************************************)
IndexIsLong(i) == (i - 1) % 11 = 0

Sampled(t, r, long, same_set, replacement) ==
    SampleAccess(cov, t, r, long, same_set, replacement, params.write_allocate)

\* same_set is read off the visited sets, and the set joins them.
Visits(t) == visited_sets' = visited_sets \cup {SetIdx(t.addr)}
Revisits(t) == SetIdx(t.addr) \in visited_sets
-----------------------------------------------------------------------------
(***************************************************************************)
(* The jobs and their transactions.                                        *)
(***************************************************************************)
FaultTests ==
    <<"flip_read_bit", "drop_mask_bit", "corrupt_writeback_byte", "swap_order",
      "flip_tag_match", "corrupt_writeback_addr">>

FaultStream(kind) ==
    CASE kind = "flip_read_bit" -> <<WriteAt(256, 4, 1, Full(4)), ReadAt(256, 4)>>
      [] kind = "drop_mask_bit" ->
            <<WriteAt(384, 4, 1, Full(4)), WriteAt(384, 4, 2, {0, 2}), ReadAt(384, 4)>>
      [] kind = "swap_order" -> <<WriteAt(576, 4, 1, Full(4)), ReadAt(576, 4)>>
      [] kind = "flip_tag_match" -> <<WriteAt(768, 4, 1, Full(4)), ReadAt(768, 4)>>
      [] OTHER -> <<WriteAt(0, 8, 1, Full(8)), ReadAt(64, 8)>>

\* The same faults, on the transactions of generate_waveform_evidence.
EvidenceFaultStream(kind) ==
    CASE kind = "drop_mask_bit" ->
            <<WriteAt(512, 4, 1, Full(4)), WriteAt(512, 4, 2, {0, 2}), ReadAt(512, 4)>>
      [] kind = "swap_order" -> <<WriteAt(256, 4, 1, Full(4)), ReadAt(512, 4)>>
      [] kind = "flip_tag_match" -> <<WriteAt(0, 4, 1, Full(4)), ReadAt(0, 4)>>
      [] OTHER -> FaultStream(kind)

\* A swap shows on the first response, any other fault is injected at index 1.
InjectAt(kind) == IF kind = "swap_order" THEN 1 ELSE 2

IsFaultTest(job) == job \in Faults

CleanWriteMissStream ==
    [w \in 1 .. Ways |-> ReadAt(AddrOf(w - 1, 3), 4)] \o <<WriteAt(AddrOf(Ways, 3), 4, 6, Full(4))>>

Stream(job) ==
    CASE job = "smoke" -> SmokeStream
      [] job \in {"directed", "evidence_directed"} -> DirectedStream
      [] job = "closure" -> ClosureStream
      [] job = "fifo" -> ReplacementSequence(0, TRUE)
      [] job = "clean_write_miss" -> CleanWriteMissStream
      [] IsFaultTest(job) ->
            IF flow = "evidence" THEN EvidenceFaultStream(job) ELSE FaultStream(job)

Jobs(program) ==
    CASE program = "core" -> <<"smoke", "directed", "crv", "closure", "fifo">> \o FaultTests
      [] program = "enhanced" -> <<"crv">> \o FaultTests
      [] program = "large_scale" -> <<"crv">>
      [] program = "evidence" ->
            <<"evidence_directed", "evidence_crv", "fifo", "clean_write_miss">> \o FaultTests

\* _run_named_stream, on a stream that is fixed.
RunNamed ==
    /\ Job \in {"smoke", "directed"}
    /\ status = "RUNNING"
    /\ index <= Len(Stream(Job))
    /\ LET t == Stream(Job)[index]
       IN  /\ AccessRef(t)
           /\ IF response'.raised THEN AccessRaised ELSE CheckRead(t) \/ ApplyWrite(t)
           /\ IF status' = "FAIL" THEN UNCHANGED <<cov, visited_sets>>
              ELSE IF Job = "directed"
              THEN /\ cov' = Sampled(t, response', IndexIsLong(index), TRUE,
                                     params.replacement)
                   /\ UNCHANGED visited_sets
              ELSE /\ cov' = Sampled(t, response', IndexIsLong(index), Revisits(t),
                                     params.replacement)
                   /\ Visits(t)
    /\ index' = index + 1
    /\ UNCHANGED <<faultyVars, injected, dropped, detected, flow, params, todo, results>>

\* What the three random methods can return.
RandomTxns == {t \in Sample : CanBeRandom(t) \/ CanBeWeighted(t) \/ CanBeImplied(t)}

\* The next transaction of a random stream.
TakeRandom ==
    /\ Job = "crv"
    /\ \E t \in RandomTxns :
          /\ AccessRef(t)
          /\ IF response'.raised THEN AccessRaised ELSE CheckRead(t) \/ ApplyWrite(t)
    /\ UNCHANGED <<faultyVars, injected, dropped, detected,
                   flow, params, todo, index, cov, visited_sets, results>>

\* A seed of the core and enhanced regressions ends at its first failure,
RunSeed ==
    /\ flow # "large_scale"
    /\ status = "RUNNING"
    /\ TakeRandom

\* and the large-scale loop counts the failure and goes on.
RunLargeScale ==
    /\ flow = "large_scale"
    /\ TakeRandom

\* _run_coverage_closure on ref, with no oracle and no try.
RunClosure ==
    /\ Job = "closure"
    /\ index <= Len(ClosureStream)
    /\ LET t == ClosureStream[index]
       IN  /\ AccessRef(t)
           /\ status' = IF response'.raised THEN "FAIL" ELSE status
           /\ cov' = Sampled(t, response', (index - 1) % 3 = 0, Revisits(t),
                             params.replacement)
           /\ Visits(t)
    /\ index' = index + 1
    /\ UNCHANGED <<faultyVars, injected, dropped, detected, oracle,
                   flow, params, todo, results>>

\* Its second half, and phase 3 of the evidence: the same collector, fifo_ref.
RunFifo ==
    /\ Job = "fifo"
    /\ index <= Len(Stream(Job))
    /\ LET t == Stream(Job)[index]
       IN  /\ AccessFifoRef(t)
           /\ cov' = Sampled(t, f_response', FALSE, TRUE, "fifo")
    /\ index' = index + 1
    /\ UNCHANGED <<vars, injected, dropped, detected, oracle, status,
                   flow, params, todo, visited_sets, results>>
-----------------------------------------------------------------------------
(***************************************************************************)
(* The phases of run_dut_coverage_collection on ref, which is never        *)
(* renewed between them.                                                   *)
(***************************************************************************)
\* The txn_ids of DirectedStream: the generator's own numbers, but for the two
\* sequences and the tail that regression.py numbers itself.
DirectedIds ==
    LET first == 4 + 2 * (Ways + 2)
        n == Len(DirectedStream)
    IN  [i \in 1 .. n |->
            IF i > n - 3 THEN 10000 + i - (n - 3)
            ELSE IF i <= first THEN i
            ELSE IF i <= first + 6 THEN 20000 + i - first - 1
            ELSE IF i <= first + 10 THEN 30000 + i - first - 7
            ELSE i - 10]

CollectDirected ==
    /\ Job = "evidence_directed"
    /\ index <= Len(DirectedStream)
    /\ LET t == DirectedStream[index]
       IN  /\ AccessRef(t)
           /\ cov' = Sampled(t, response', DirectedIds[index] % 3 = 0, FALSE, "lru")
    /\ index' = index + 1
    /\ UNCHANGED <<faultyVars, injected, dropped, detected, oracle, status,
                   flow, params, todo, visited_sets, results>>

\* A transaction that raised is counted and not sampled.
CollectRandom ==
    /\ Job = "evidence_crv"
    /\ index <= EvidenceCount
    /\ \E t \in EvidenceSample :
          /\ CanBeRandom(t)
          /\ AccessRef(t)
          /\ cov' = IF response'.raised THEN cov
                    ELSE Sampled(t, response', ~response'.hit, FALSE, "lru")
    /\ index' = index + 1
    /\ UNCHANGED <<faultyVars, injected, dropped, detected, oracle, status,
                   flow, params, todo, visited_sets, results>>

CollectCleanWriteMiss ==
    /\ Job = "clean_write_miss"
    /\ index <= Len(CleanWriteMissStream)
    /\ LET t == CleanWriteMissStream[index]
       IN  /\ AccessRef(t)
           /\ cov' = Sampled(t, response', TRUE, TRUE, "lru")
    /\ index' = index + 1
    /\ UNCHANGED <<faultyVars, injected, dropped, detected, oracle, status,
                   flow, params, todo, visited_sets, results>>
-----------------------------------------------------------------------------
(***************************************************************************)
(* A fault test: the regressions return at the first mismatch, the         *)
(* evidence goes on to the end of the stream, but for the swap, of which   *)
(* it compares the first response only.                                    *)
(***************************************************************************)
StopsAtMismatch == flow # "evidence" \/ Job = "swap_order"

RunFaultTest ==
    /\ IsFaultTest(Job)
    /\ ~(detected /\ StopsAtMismatch)
    /\ index <= Len(Stream(Job))
    /\ CompareBoth(Job, Stream(Job)[index], index = InjectAt(Job))
    /\ index' = index + 1
    /\ UNCHANGED <<oracle, status, flow, params, todo, cov, visited_sets, results>>
-----------------------------------------------------------------------------
(***************************************************************************)
(* From job to job.  A job that starts makes new models, except that the   *)
(* evidence keeps its ref from phase to phase; only the collector of the   *)
(* closure, and of the evidence, outlives a job.                           *)
(***************************************************************************)
IsOver ==
    \/ Job \in {"smoke", "directed"} /\ (status = "FAIL" \/ index > Len(Stream(Job)))
    \/ Job = "crv"
    \/ Job = "evidence_crv"
    \/ /\ Job \in {"closure", "fifo", "evidence_directed", "clean_write_miss"}
       /\ index > Len(Stream(Job))
    \/ IsFaultTest(Job) /\ (index > Len(Stream(Job)) \/ (detected /\ StopsAtMismatch))

Passed == IF IsFaultTest(Job) THEN detected ELSE status = "RUNNING"

Emptied(sets, ways) ==
    [s \in 0 .. sets - 1 |-> [w \in 0 .. ways - 1 |->
        [valid |-> FALSE, dirty |-> FALSE, tag |-> 0, data |-> [o \in Offsets |-> 0]]]]
Ordered(sets, ways) == [s \in 0 .. sets - 1 |-> [i \in 1 .. ways |-> i - 1]]
Zeroed == [a \in Addrs |-> 0]

NewRef(sets, ways) ==
    /\ lines' = Emptied(sets, ways)
    /\ lru' = Ordered(sets, ways) /\ fifo' = Ordered(sets, ways)
    /\ memory' = Zeroed
    /\ last_writeback' = None
    /\ response' = Response(NoData, FALSE)

NewSecondRef(sets, ways) ==
    /\ f_lines' = Emptied(sets, ways)
    /\ f_lru' = Ordered(sets, ways) /\ f_fifo' = Ordered(sets, ways)
    /\ f_memory' = Zeroed
    /\ f_last_writeback' = None
    /\ f_response' = Response(NoData, FALSE)

KeepsRef(job) == flow = "evidence" /\ job \in {"evidence_crv", "fifo", "clean_write_miss"}
KeepsCoverage(job) == KeepsRef(job) \/ job = "fifo" \/ IsFaultTest(job)

NewModels(job) ==
    LET sets == IF job \in OneWayFaults THEN 1 ELSE Sets
        ways == IF job \in OneWayFaults THEN 1 ELSE Ways
    IN  /\ IF KeepsRef(job) THEN UNCHANGED vars ELSE NewRef(sets, ways)
        /\ NewSecondRef(sets, ways)

NextJob ==
    /\ IsOver
    /\ Len(todo) > 1
    /\ results' = results \cup {<<Job, Passed>>}
    /\ todo' = Tail(todo)
    /\ NewModels(todo[2])
    /\ cov' = IF KeepsCoverage(todo[2]) THEN cov ELSE NewCoverage
    /\ visited_sets' = {}
    /\ oracle' = Zeroed
    /\ status' = "RUNNING"
    /\ index' = 1
    /\ injected' = FALSE /\ dropped' = None /\ detected' = FALSE
    /\ UNCHANGED <<flow, params>>

AllPassed(done) == \A r \in done : r[2]

\* The verdicts.  The enhanced one does not look at the fault tests, and depends
\* on the bins its random streams happened to reach.
Verdicts(done) ==
    CASE flow = "core" -> {AllPassed(done) /\ CoversPercent(cov, 90)}
      [] flow = "enhanced" ->
            {covered /\ <<"crv", TRUE>> \in done : covered \in BOOLEAN}
      [] flow = "large_scale" -> {AllPassed(done)}
      [] flow = "evidence" -> {CoversPercent(cov, 100) /\ CoversExtendedPercent(cov, 100)}

Finish ==
    /\ IsOver
    /\ Len(todo) = 1
    /\ results' = results \cup {<<Job, Passed>>}
    /\ todo' = <<"done">>
    /\ \E passed \in Verdicts(results') : status' = IF passed THEN "PASS" ELSE "INCOMPLETE"
    /\ UNCHANGED <<vars, faultyVars, injected, dropped, detected, oracle,
                   flow, params, index, cov, visited_sets>>

SuiteInit ==
    /\ RegressionInit
    /\ Faulty!Init
    /\ injected = FALSE /\ dropped = None /\ detected = FALSE
    /\ flow \in {"core", "enhanced", "large_scale", "evidence"}
    /\ params \in IF flow = "core" THEN Params ELSE {DefaultParams}
    /\ todo = Jobs(flow)
    /\ index = 1
    /\ cov = NewCoverage
    /\ visited_sets = {}
    /\ results = {}

SuiteNext ==
    \/ RunNamed \/ RunSeed \/ RunLargeScale \/ RunClosure \/ RunFifo
    \/ CollectDirected \/ CollectRandom \/ CollectCleanWriteMiss
    \/ RunFaultTest
    \/ NextJob \/ Finish

SuiteSpec == SuiteInit /\ [][SuiteNext]_suiteVars
-----------------------------------------------------------------------------
(***************************************************************************)
(* OracleAgrees, while a stream runs against the oracle.                   *)
(***************************************************************************)
OracleJobs == {"smoke", "directed", "crv"}

StreamOracleAgrees == Job \in OracleJobs => OracleAgrees

(***************************************************************************)
(* What the comments in generator.py promise of a directed access ("should *)
(* be a miss", "should hit") comes true under the default parameters, at   *)
(* the place of the directed stream where it runs.  No check of the        *)
(* regression looks at it: the oracle compares data only.                  *)
(***************************************************************************)
DirectedPromisesKept ==
    Job = "directed" /\ params = DefaultParams /\ index > 1 =>
        LET t == DirectedStream[index - 1]
        IN  t.promise # None => response.hit = (t.promise = "hit")

(***************************************************************************)
(* With write-allocate, the closure leaves no bin open but one that the    *)
(* analyzer puts down to the configuration: the sequences of five methods, *)
(* and the policy of two caches, have to meet in one collector for that.   *)
(***************************************************************************)
ClosureLeavesConfiguredHoles ==
    flow = "core" /\ params.write_allocate /\ (IsFaultTest(Job) \/ Job = "done") =>
        \A hole \in Attributions(cov) : hole.category = "CONFIG_BLOCKED"

(***************************************************************************)
(* Whatever the random phase does to the cache that it leaves behind, the  *)
(* evidence covers every required bin and every extended one but the clean *)
(* write miss: its own phase for that bin finds the cache as it is.        *)
(***************************************************************************)
EvidenceLeavesOneBinToChance ==
    flow = "evidence" /\ (IsFaultTest(Job) \/ Job = "done") =>
        /\ Missing(cov) = {}
        /\ ExtendedMissing(cov) \subseteq {<<"cross", "replacement_type", "clean_write_miss">>}

(***************************************************************************)
(* A model without a fault passes the core regression under every policy,  *)
(* each of the six faults having been detected, and the large-scale loop;  *)
(* the enhanced regression and the evidence, too, detect all six.          *)
(***************************************************************************)
SuitePasses ==
    Job = "done" =>
        AllPassed(results) /\ (flow \in {"core", "large_scale"} => status = "PASS")
-----------------------------------------------------------------------------
(***************************************************************************)
(* What a cache has to be for its regression to mean anything: the fixed   *)
(* streams stay in its lines, and their uncached accesses off those that   *)
(* the cached ones bring in.  The streams are written for some geometries  *)
(* and not for others, and nothing in regression.py checks it.             *)
(***************************************************************************)
TxnsOf(stream) == {stream[i] : i \in 1 .. Len(stream)}

SoundTxns(S) ==
    /\ Unaliased(S)
    /\ \A t \in S : ~t.uncached => ~CrossLine(t) /\ (t.op = "write" => t.mask # {})

FixedStreamsAreSound ==
    \A stream \in {SmokeStream, DirectedStream, ClosureStream} :
        stream \in Seq(Txns) /\ SoundTxns(TxnsOf(stream))
=============================================================================
