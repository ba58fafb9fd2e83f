# Formal models of cache_vip

`cache_vip` is a verification platform for a NutShell-style data cache. A
generator makes a stream of CPU transactions; a reference cache predicts every
response; a scoreboard compares the predictions with what a device under test
answers; an independent byte oracle judges the reference cache itself; memory
agents and adapters connect the Python to the signals of the device. If the
golden model or a comparison is wrong, every result of the platform is: that is
why they are what these specifications are about.

## Inventory

| Component (source under `src/src/cache_vip` unless given) | State | Operations | Talks to |
| --- | --- | --- | --- |
| Reference cache (`reference_model.py`, `transactions.py`) | lines (valid, dirty, tag, data) per set and way, LRU and FIFO lists, byte memory, last writeback | `access` on its paths (uncached bypass, write around, hit, miss with eviction and fill, cross-line rejection), `reset` | called by both scoreboards' users and by every regression |
| Byte oracle (`oracle.py`) | bytes written so far | `check_and_apply` | judges the reference cache's responses |
| Core regression (`regression.py`) | job at hand, coverage collector, visited sets, verdicts | run named streams, the coverage closure and the six fault tests, to one verdict; the enhanced variant | generator, reference cache, oracle, coverage, faults, in-order scoreboard |
| In-order scoreboard (`scoreboard.py`) | queue of expected responses | `push_request`, `compare_response`, `observe_transaction` | owns a reference cache |
| DUT regression (`dut_regression.py`) | scoreboard, coverage, visited sets | `execute`: push, drive, sample, compare | adapter, scoreboard |
| Out-of-order scoreboard (`ooo_scoreboard.py`) | pending and expected writebacks by transaction id, counters, orphans, timeouts | `push_expected`, `compare_actual`, `compare_writeback`, `drain_pending` | fed by a test |
| Memory agents (`memory_agent.py`) | FIFO of responses with ready cycles, memory, cycle; writeback log | `accept`, `tick`, `run_until_idle`; `serve_one` and its parts | the device's memory side |
| Toffee adapter (`toffee_adapter.py`) | pending transactions | `reset`, `drive_cpu_request`, `sample_cpu_response` with timeout | the device's CPU side |
| Real DUT adapter (`real_dut_adapter.py`) | pending transactions, memory, queued bus responses, bus event log | the same, and a memory and an MMIO responder on every clock | the generated NutShell cache |
| RTL cache (`src/rtl/NutShellCache.v`) | tag, data, valid, dirty arrays, one victim pointer per set, request and memory-request registers | one clock edge: clear response, fill, accept, process | CPU and memory handshakes |
| Mock device (`src/tests/mock_dut.py`) | signals, cache dictionaries, memory | one tick | Toffee adapter |
| Cross validation (`cross_validation.py`) | two models | inject a fault into one, compare with the other | reference cache, scoreboard |
| Generator (`generator.py`) | random state | directed sequences; random methods | regressions |
| Faults (`faults.py`) | none | six ways to change a response or a request | fault tests, out-of-order tests |
| Coverage (`coverage.py`, `coverage_analyzer.py`) | bins, and address, line, set and operation of the access before | `sample_access`, `missing`, `percent`; `analyze` | regressions, evidence scripts |
| Evidence and large-scale scripts (`src/scripts/generate_dut_coverage_evidence.py`, `run_large_scale_regression.py`) | one reference cache and one collector through all phases | collect over four phases, run the faults; loop over a seed | all of the above |
| Reports and metrics, scripts, tools, generated bindings | none of the system's | formatting, text scanning, building | files |

The Python is sequential inside one `access`; what makes it hard is the length of
the histories that matter. A dirty byte is merged in one transaction, evicted
by another, refilled by a third and read by a fourth, across lists and tags
that every access edits; an access can fail halfway through; two paths (cached
and uncached) reach the same memory without seeing each other. In the device
half, signals, coroutines and timeouts interleave, and responses can be lost,
late or misattributed. `PROJECT.json` lists these hazards at their lines.

What makes each component correct:

* reference cache: it is a byte memory to its user, whatever is resident; a
  dirty line leaves only through a reported writeback; no line is cached twice;
  the replacement lists keep every way;
* oracle and regression: a fault-free model is never reported as failing, and
  the oracle agrees with the cache on every byte, read or not; the same model
  twice is never a detection, and every injected fault is one;
* generator and coverage: the sequences reach what their comments promise and
  every bin that the configuration allows;
* scoreboards: every expectation is matched, refused or reported missing exactly
  once, a faulty response is never accepted, a faithful one never refused;
* memory agents, adapters and RTL: one answer per request, to the right
  request, in the end; the cache and the memory together are the same byte store;
  what an access is reported to have done is what it did.

## Modules

| Module | Models |
| --- | --- |
| `CacheAddress` | the address split of `ReferenceCache._line_base`, `_set_idx`, `_tag`, `_addr_from_tag_set`, for any number of sets and line length |
| `ReferenceCache` | `ReferenceCache` and `ByteMemory`: one action per path through `access`, and `reset` |
| `WriteBackStore` | the abstract specification: every byte has a current and a durable value; no sets, ways, tags or policy |
| `ReferenceCacheProperties` | the invariants, the action property and the refinement mapping |
| `CacheRegression` | the loop of `_run_named_stream` (and `_run_enhanced_core_seed`, which is the same loop): reference cache and oracle together, stopping at the first mismatch or exception |
| `ResponseCheck` | what both scoreboards compare of two responses: the data of a read and the observed fields |
| `OooScoreboard` | the methods of `OooScoreboard`, one operation per exit |
| `OooScoreboardBench` | the scoreboard between a reference and a pipelined device with the faults of `FaultInjector`; answers and writeback events travel in bags |
| `DutRegression` | `DUTRegressionRunner.execute`, the in-order `Scoreboard` and `ToffeeCacheAdapter`, one action per wait, with a device as the environment |
| `NutShellCache` | `rtl/NutShellCache.v`: the always block, one clock edge per step, one action per branch |
| `MemoryPort` | the abstract specification of a cache with its memory, seen from its request port: no lines, ways, bursts or cycles |
| `CacheSystem` | that cache between `ToffeeCacheAdapter` and a loop over `ToffeeMemoryAgent.serve_one`, one clock cycle per step |
| `ScriptedMemoryAgent` | `ScriptedMemoryAgent` with a driver that offers, ticks and drains |
| `AlternativeModel` | "Model B" of `cross_validation.py`, tick-based, in step with `ReferenceCache` |
| `CrossValidation` | `CrossValidationScoreboard`: fresh models, one injection per test, the comparison |
| `FaultDetection` | two copies of `ReferenceCache`, the faults of `faults.py` injected into one, the in-order comparison |
| `TransactionGenerator` | `generator.py` and the fixed streams of `regression.py`: sequences as values, random methods as predicates |
| `Coverage`, `CoverageHoles` | the bins `sample_access` can hit, and how `coverage_analyzer.py` explains those left open |
| `RegressionSuite` | the programs: `run_core_regression`, `run_enhanced_regression`, a seed of the large-scale script, the evidence script |
| `SimpleBusDevice` | the environment of the next: a one-line write-back cache that keeps the SimpleBus protocol |
| `RealCacheAdapter` | `RealCacheAdapter`: CPU coroutine, memory and MMIO in one, one clock edge per step |
| `MCReferenceCache`, `MCCacheRegression`, `MCAlternativeModel`, `MCCrossValidation`, `MCFaultDetection`, `MCRegressionSuite`, `MCOooScoreboard`, `MCDutRegression`, `MCRealCacheAdapter`, `MCCacheSystem`, `MCScriptedMemoryAgent` | the small instances |
| `ReferenceCacheProofs`, `StoreRefinementProofs`, `LockstepProofs`, `OooScoreboardProofs`, `DutRegressionProofs`, `CacheSystemProofs`, `ScriptedMemoryAgentProofs`, `RealCacheAdapterProofs` | the theorems |

How the state corresponds: `lines`, `lru`, `fifo`, `memory` and `last_writeback`
are the attributes of the same names; `response` is what the last `access`
returned, or that it raised. A byte is a member of `Byte`, a line's data a
function from offset to byte, the data of a transaction a function from its
byte indices, and a mask the set of its set bits; so a shift and a mask in the
Python is an index and a membership test here. The memory covers the finite set
`Addrs`, where the Python's dictionary covers every address and reads 0 where
nothing was written. The random policy is a free choice of way. The operators
marked "Faulty variant" are plausible mistakes in the code they stand next to;
no action uses them, they exist so that each property can be seen to fail.

`access` is atomic, because nothing runs concurrently with it. Its paths:

| Action | Path through `access` |
| --- | --- |
| `UncachedAccess` | `_uncached_access`: memory, whatever the cache holds |
| `WriteAround` | write miss without write-allocate; an empty mask becomes the full one |
| `Hit` | `_find_way` found the line; read or merge, `_touch` |
| `Miss` | `_allocate_line` (first invalid way, else the policy's victim; dirty victim written back; line filled), then as a hit |
| `RejectHit`, `RejectMiss` | the access crosses its line: `ValueError`, on a miss only after the line was allocated |
| `Reset` | `reset`: everything invalid, dirty data dropped, memory kept |

The scoreboards. A dictionary by transaction id is a function to `None` outside
its keys, a list that is only measured is its length. `raised` counts the
`ScoreboardMismatch`es the caller saw, by method; no attribute of the code
does. `OooScoreboard` has an operation per exit of each method:

| Method | Operations |
| --- | --- |
| `push_expected` | `RejectPush` (id pending), `AcceptPush` (and the expected writeback of a dirty eviction) |
| `compare_actual` | `OrphanResponse`, `AnswerPending` (popped, then matched or refused) |
| `compare_writeback` | `OrphanWriteback`, `MatchWriteback` |
| `drain_pending` | `DrainPending` |

The bench is the test around it, and external: `Issue` pushes a request and
lets the device answer it with or without a fault, `Deliver` and `DeliverEvent`
hand the scoreboard anything in transit, `Lose` and `Duplicate` are the
channel, `GiveUp` drains.

In `DutRegression` the state between two actions is that of a coroutine at an
`await`. `PushRequest` and `ReferenceRaises` are `execute` up to the first
wait; `DriveCpuRequest` ends the wait for ready; `SampleCpuResponse` ends the
wait for valid, acknowledges, and runs `compare_response` with all its exits,
since no wait separates these; `ResponseTimeout` is the `TimeoutError`;
`AdapterReset` is `reset`. `expected` is the scoreboard's list and
`pending_txns` the keys of the adapter's dictionary, whose order is the order
of insertion. The caller counts an exception and goes on, as
`scripts/run_large_scale_regression.py` does at line 113. The device takes a request,
answers it or drops it, and holds an answer until it is taken.

The RTL. The variables of `NutShellCache` are its registers, the arrays per line
gathered in `lines` and the fields of a request in `req` and `mem_req`; an address is its
bit fields. Wires are operators. The ifs of the always block:

| Action | Branch of the always block |
| --- | --- |
| `ResetEdge` | `reset` is high |
| `FillLine` | a memory response while a memory request is out |
| `AcceptRequest` | valid and ready |
| `ReadHit`, `WriteHit` | a pending request hits |
| `RequestWriteback`, `RequestFill` | it misses, over a dirty victim or not |
| `Wait` | none of them |

Each includes the clearing of a response that was taken. The ifs could in
principle hold together; `MemRequestIsMiss` says they do not, and is proved for
free inputs, so that a step per branch loses nothing.

`CacheSystem` composes by conjunction: in a cycle both coroutines run up to their next
`wait_cycles`, on what the last edge left, and `ClockEdge` samples what they
drive. `cpu` and `agent` are the places where they wait. `Drive` is
`drive_cpu_request`, `AwaitResponse`, `TakeResponse` and `TimedOut` are
`sample_cpu_response` with its timeout, `StartReset` and `KeepResetting` are
`reset` with its two extra cycles; `TakeMemRequest` and `LeaveMemRequest` are
`monitor_memory_request`, `StartFill` and `HoldFill` `drive_memory_response`, and
`StoreTaken` is `handle_writeback`, which writes the whole line because the RTL's
mask is always full. Whoever calls `serve_one` may or may not wait a cycle
between two calls. `view` is history: the lines as the program wrote them.

In `ScriptedMemoryAgent` `accepted`, `delivered` and `lost` are history: requests taken, responses told, and
responses that a drain had collected when it raised. A write's bytes and a read's are those of one line;
`Accept` is an `accept` that returns True (one that returns False changes
nothing), `DrainTick` is one turn of `run_until_idle` and `DrainTimeout` its end.

`AlternativeModel` runs every access through both models until one that B was
not written for (uncached or cross-line) or a reset, which B lacks; a set's tick
is bounded by `MaxTicks`. `CrossValidation` is one campaign over the six kinds of
injection: `AccessBase`, `Renew`, `AccessInjected`, `CompareBoth` are the parts of
`_run_injection_test` between which fresh models are made.

In `FaultDetection` the second cache is an INSTANCE of `ReferenceCache` over
variables of its own (`f_lines`, ...). A fault on a response changes what the
scoreboard sees of it; `drop_mask_bit` changes the request, so the second cache
holds something else from then on. `swap_order` brings the response of another
id, which the order check refuses. A run stops at the first detection.

`RegressionSuite` is one machine for four programs (`flow`). A program is a sequence
of jobs in `todo`; each job is an action that takes the next transaction:

| Action | Code |
| --- | --- |
| `RunNamed` | `_run_named_stream` on the smoke and directed streams: access, oracle, sample |
| `RunSeed`, `RunLargeScale` | the random streams, which end at a failure and go on after one, respectively |
| `RunClosure`, `RunFifo` | `_run_coverage_closure` and its FIFO half |
| `CollectDirected`, `CollectRandom`, `CollectCleanWriteMiss` | the phases of the evidence script |
| `RunFaultTest` | the six `_detect_*` functions; the fault scenarios of the evidence script |
| `NextJob`, `Finish` | new models (or not: the evidence script keeps its cache), results, verdict |

The streams are the real ones, with their addresses, sizes and masks, on the default
line length and set count scaled down (see bounds); only data is abstracted, to a
number per write. A random method is the set of transactions it can make, and a
random job takes any of a sample of these in any order and number: the sample also
holds transactions that no method makes, so that a generator that did make them is noticed. An access runs the
actions of `ReferenceCache` in `Under(policy)`, an INSTANCE whose parameter is the job's
replacement and write policy. Coverage is the set of bins
hit, for percentages and verdicts ask no more. The large-scale script counts failures and prints a
pass rate; here its status is FAIL from the first one on, and PASS stands for a count of 0.

`RealCacheAdapter`. `pc` is where `execute` waits. `WaitCycle` is `wait_cycles(1)`: the
two buses are served from the signals of the last edge (`Service`), then the device
is clocked (`AfterEdge`). `StartRequest` is `drive_cpu_request` up to its loop,
`AwaitReady` a turn of it, `SendRequest` its end; `AwaitResponse` and `TakeResponse`
are `sample_cpu_response`; `Reset` is `reset` with and without `clear_memory`, both
of whose waits are inside the wrapper. Memory is by words, as the bus is, and a word
a function from byte lanes: accesses are aligned and of a whole word, for the adapter passes low
address bits, size, data and mask through as they are (`real_dut_adapter.py:257-271`). The device's source is not in the repository:
`SimpleBusDevice` is an assumption about it - one request at a time, bus requests of an access sent before its
answer, bursts of one line, delays of up to `MaxStall` cycles anywhere - and is
marked external in the map.

## What is checked

| Run | Instance | Shows |
| --- | --- | --- |
| `ref_lru` | 1 set, 2 ways, 3 lines, LRU, write-allocate; reads, full, partial and empty-mask writes, cross-line accesses, resets; the alternative model beside it | the two models agree on hits, evictions and recency; types, no line cached twice, clean lines equal memory, dirty evictions reported, no way leaves its list; refinement of the store |
| `ref_fifo` | two copies of a cache with 1 set, 2 ways, 3 lines of which one is written, an uncached line apart, FIFO, no write-allocate; one fault anywhere | no detection without a fault; until detected, a fault has changed only the bytes of its write; writes around the cache and uncached writes keep one view of memory, and no access that stays in its line is refused |
| `regression` | the four programs over the real streams; LRU or FIFO, with or without write-allocate, for the core regression | no false alarm, oracle and cache agree on every address, directed promises kept, the closure leaves only holes that the configuration explains, the evidence leaves one bin to chance, the suite passes and all six faults are detected |
| `regression_aliasing` | one line reached cached and uncached | a violation: see findings |
| `ooo_faulty` | two ids, three kinds of request, all four faults, two copies of anything | everything settled once, a pass means a faithful device, order is no fault |
| `dut_queue` | four transactions, a device that answers, drops or keeps a request for good | queues aligned, one expectation left per timeout, own answers until then, `execute` ends unless it waits for ready behind a request that timed out |
| `system_hits` | 2 sets, 2 ways, 3 tags of which one is written, latency 3, timeout 4, writes to resident lines | a memory port (`MemoryPort`); one answer per request, with the program's data; a tag in one way only; fills and writebacks go to their own line and set; an answer within the timeout unless a dirty victim is in the way |
| `system_latency` | 1 set, 2 ways, latency 4, reads only | a violation: see findings |
| `system_hang` | 1 set, 2 ways, latency 3, timeout 4, writes to resident lines | a violation: see findings |
| `agent_fifo` | 3 requests, latencies 0 to 2, a pattern of three cycles, drains of 1 and 3 cycles | responses once, in order and when due; reads see earlier writes; everything accepted is answered, but for what a drain had collected when it raised |
| `real_adapter` | 2 lines of 2 beats, one MMIO word, four transactions, stalls of up to 1 cycle anywhere, early answers, resets | every bus request noticed, hits and evictions credited to their access, a memory port that never gives up, reads see writes, every request answered |
| `cross_validation` | the campaign's own geometry with short lines | a violation: see findings |

The properties, in `ReferenceCacheProperties` and `CacheRegression`:
`NoDuplicateTag`, `ListsArePermutations` and `CleanMatchesMemory` are
invariants over the whole cache; `DirtyEvictionIsReported` is a property of
steps; `ImplementsStore` says that `ReferenceCache` implements `WriteBackStore`
under the mapping current = the cached byte where a line is resident, else the
memory's; durable = memory; answer = the data of the last read; failed = whether the last access raised.
The store lets an access put any line back at any time, so the refinement checks data and
durability and leaves the choice of victim free. It lets an access fail only if that touches
two lines, so a bound that rejects the widest access of a line is no step of the store. `NoFalseAlarm` and
`OracleAgrees` relate the oracle to the cache. Of the scoreboards:
`EachExpectationSettledOnce` and `EachWritebackSettledOnce` balance what was
pushed against every way to leave the tables, `PassMeansFaithful` relates the
checks a test makes at its end to all the scoreboard was shown, and
`OrderIsNoFault` is its converse. `QueuesAligned` says that the order check of
`compare_response` cannot fire behind this adapter, which labels an answer with
the oldest pending id whatever it answers; `LagIsTimeouts` and `OwnAnswer`
say when that label is right: until the first timeout, and then no more.
`EndsUnlessBehindTimeout` claims of `execute` what its code can keep: it bounds the wait for the response
and not the wait for ready, so it may hang, but only behind a request whose response
timed out. `EveryHandshakeEnds` is the same question put to the repository's own cache and agent, where
the answer is no (see findings).

`ModelsAgree` holds list against ticks: besides the verdicts, the tick order of
the valid ways is the list order. `FaultStaysInItsWrite` relates the whole of two
caches; `FaithfulNeverRefused` is what makes a detection evidence of a fault.
`ClosureLeavesConfiguredHoles` and `EvidenceLeavesOneBinToChance` are about the order in which
sequences, policies and caches meet in one collector, which keeps the last access.

Of the RTL: `TagInOneWay` and `MemRequestFitsVictim` relate the registers, whatever
the inputs (the theorems are about free inputs, the run about the system); `OneAnswerPerRequest`
relates the adapter's coroutine to the cache's request register, and
`NothingWrittenIsLost` the lines, the memory and all that the
program wrote. `TimeoutMeansWriteback` bounds the wait: at the latency of
three no response takes more than four waits unless a writeback is out.

`ImplementsPort`, in `CacheSystem` and in `RealCacheAdapter`, says that the whole below the
program is a `MemoryPort`: places with a current and a durable value, and one request at a
time, which counts from the edge that takes it. In between, lines are brought in, written back word by
word and dropped, and none of that may show: it must be a stutter, or make durable what was
current already. The answer to a read is current when it appears and stays
until it is taken; a reset falls back to what is durable. In `CacheSystem` current is the program's
view and a request may be given up (the timeout, or a reset while it waits, together with a writeback
that the agent has just read); the adapter is `Patient`. The mapping is at the end of each module.

Of the real adapter: `EveryRequestNoticed` compares what the adapter logged with what
the device sent (`fired` is history), because ready is held high while only answers are looked at;
`ReportedAsHappened` compares a response that is told from positions in the log
with what the device did; `ReadsSeeWrites` compares with the program's own view.

Bounds. Two ways and three lines that share a set are the least with which a
line is evicted, refilled and evicted again while the other way is hit between;
two sets tell `_set_idx` from `_tag`, which `regression` has four of, with the real
streams over them. In `ref_fifo` one line is written and one uncached, since a
second copy of everything squares the states; one fault per run is what the tests inject. The random policy is a free choice of
victim, which the theorems cover and no run takes. Lines of two bytes are the least
that tell a masked byte from an unmasked one and in which a two-byte access at offset
1 crosses the line. Two byte values tell every write from what was there.
Data independence does the rest: no code compares bytes. The runs are complete:
no state constraint cuts them. Nothing the models count grows without bound.
`MaxTicks` is four accesses of a set in step: two fills, a hit that reorders them, and
the eviction it decides.

`regression` has 4 sets of 2 ways and lines of 16 bytes instead of 64, 4 and 64:
the least in which every directed sequence still does what it is for (the base
addresses differ in set, an access of 8 bytes fits beside another in a line, a sequence of `Ways` + 2
tags overflows a set). The random streams are run with the uncached weight of 0 that
`run_large_scale_regression.py` sets, because the default of 5 aliases (see findings). `EvidenceCount` random accesses of the
evidence, over seven transactions aimed at the lines that its last phase takes for
clean, are 2 instead of 500: one makes a line dirty, the other can bring the next phase's hit about.


For the scoreboards two transactions are the least that can be confused, and
three requests (a read hit, an evicting read, an evicting write) reach every
exit of the comparison; data, addresses and bytes are one bit, because a
fault only makes a value differ. `MaxPushes` bounds the requests, `MaxCopies` the
copies of one message: two tell a duplicate from an answer. Each id is issued
once, as in every test of the repository; an id that is issued again, and then meets its
first answer, is covered by `ExpectationsSettledOnce` alone. `MaxTxns` is four in `dut_queue`: a timeout, a transaction that meets
the late answer, a reset and one more timeout fit in it. Ids are symmetric: nothing
orders them.

For the RTL two ways are the least with a choice of victim, and three tags over two
ways make every line a victim in turn; in `system_hits` two sets tell a line's tag from
its set. A write there goes to a resident line (`WritesHitOnly`), because a write that
misses is lost (see findings). Lines of three bytes
and words of two make the offset matter, a mask of one byte of the word the
mask. Latency 3 is the largest that is safe and 4 the first that is not, so these two
runs meet at the boundary; a reset of two cycles falls in every state of
the memory agent.

Deadlock is checked except where the loop or the test modelled ends: the
regressions, the benches of the scoreboards.

Fairness. Nothing in the reference cache, the oracle or the out-of-order
scoreboard waits, so nothing is assumed there and no liveness is stated: the
caller may stop after any call. `DutRegression` has two waits.
`RunnerFairness` says that the event loop resumes a coroutine whose condition
holds or whose time is up; it is all that the Python provides, and all that `LiveRunnerSpec` assumes: the device
owes nothing. It is ready when it has no request; apart from that it may stop for good. In `CacheSystem` the clock is the step, and the wait for a response is
bounded by an invariant, which needs no fairness; `TickingSpec` adds that the clock goes on, for `EveryHandshakeEnds`. In `RealCacheAdapter`
`WF_adapterVars(Clock)` says that the event loop goes on resuming the one coroutine
there is; the device's part is the bound `MaxStall` on its delays. In `ScriptedMemoryAgent` the
driver goes on ticking, draining or offering what it began to, and nothing more is
assumed.

## What is proved

The theorems about the reference cache hold for every number of sets and ways, every line length, every
policy, every finite or infinite set of addresses made of whole lines, and
every set of transactions a `CacheTxn` can be. Those are the named
assumptions of `CacheAddress` and `ReferenceCache`. The others say below for what they hold.

* `ReferenceCacheProofs`. Its lemmas are stated over `AnyAccess`, an access whose victim and whose
  order of recency are left open, and so serve every policy and every INSTANCE. An address splits exactly into tag, set and offset, and
  back; two lines never share an address (`AddressSplit`,
  `LineAddressSplit`). These need no powers of two.
  `CacheInvariant` proves `CacheInv`, the conjunction of
  `TypeOK`, `ResidentWasAccessed`, `NoDuplicateTag` and
  `ListsArePermutations`. The types alone are not inductive: that a writeback's
  address is an address of the stream needs that the victim was brought in by
  an access of the stream; that a way has a place in its list, hence that
  `MoveToFront` finds it, needs that the lists are complete. `TypeCorrect`,
  `LineIsCachedOnce` and `NoWayFallsOut` follow. `NoDirtyLineIsLost` is about steps: a path
  through `access` that makes a dirty line leave is one that allocates in its way
  (`LeavesByAllocation`), for a hit or a merge leaves every line of the set
  where it is; and the allocation stores and reports the bytes under the address
  that the tag and the set give back, which needs `CacheInv` and the address lemmas.
* `StoreRefinementProofs`: with `Coherent` (`CacheInv` and
  `CleanMatchesMemory`) as the invariant, `CleanLinesMatch`, and
  `CacheImplementsStore`: the initial states map to initial states of
  the store, and every step of every path to a step of the store or a stutter;
  a path that raises is one whose access touches two lines (`RejectedStraddles`).
  `CleanMatchesMemory` is needed because a clean victim is dropped: the view of
  its bytes moves from the line to the memory and must not change.
  `RegressionNeverFails`: from `RegressionInv`
  (coherence and that the oracle is the cache's view) the loop reports no FAIL.
  The same module carries that to the programs of `RegressionSuite`, where caches, policies and streams change
  from job to job: `SuiteNeverFails` states `NoFalseAlarm` and `StreamOracleAgrees` for all
  four policies, and `StreamsPass` that every job without a fault ends as passed and the
  large-scale regression with PASS. The invariant `SuiteInv` is `StreamInv` of the job at hand:
  coherence, the oracle being the cache's view, and `BroughtInBy`, that what is resident was
  brought in by this job's own transactions. The last is what lets each job be judged by its own
  stream: one of them may use a line cached and another uncached, since
  `NextJob` makes new models. `VerdictInv` adds the results so far. `RandomTxnsAreSound` shows that what
  `random_txn`, `weighted_stream` and `implication_stream` can return is fit to be judged. What they assume, `SuiteAssumptions`: the uncached weight is 0; a
  line holds the widest access (8 bytes) and divides the base address of `implication_stream`;
  `FixedStreamsAreSound`, that the smoke and directed streams keep cached and uncached lines apart
  and cross none. That is evaluated, not proved, as it is about literal
  addresses: TLC does so on `regression`, and it also holds of 64 sets, 4 ways and lines of 64 (the default), and of 4/2/64, 2/2/64, 3/2/16,
  8/2/32, 16/4/64, 128/4/64 and 1/1/64 among others. It does not of 42/3/64 or 127/1/64, where the uncached
  accesses at `0x2000` share a line with a directed sequence: there the programs would raise the false alarm of the findings.
* `LockstepProofs`, two models under one stream. For LRU and FIFO: `NoFaultNoDetection` and
  `FaultStaysLocal`. The first needs, beside `FaithfulNeverRefused`, that the two
  copies are equal in every variable until the injection (`TwinInv`), and that an
  access has one outcome: the way hit, the invalid way and the victim are unique, and
  only one path of `access()` is open. The second weakens equal to *agreeing but at
  the addresses `D`* (`CopiesAgree`), and shows each path of an access to keep that
  agreement when the device's copy gets other bytes at `D` only: a merge, a write
  around or past the cache, a writeback and a refill. The victim's address must be one
  of the memory's, so `CacheInv` is part of the invariant. It assumes that a transaction
  is a record of the fields of `CacheTxn` and not `None`. Under the random policy the
  two Python models draw alike because both seed their generator with 42; the model's
  draw is free, so the theorems leave that policy out.
  `TwoModelsAgree` is the same question of two different programs: the invariant
  `LockstepInv` adds to `ModelsAgree` what makes it inductive: a way is valid just if its tick is not 0, no tick
  is beyond its set's, and no list names a way twice. The two models choose a victim
  independently, the least tick and the last of the list (`SameVictim`), and a
  touch gives one way the greatest tick where it moves the way to the front.
* `OooScoreboardProofs`, for every finite set of ids and every set of requests
  and faults, the bounds included: `ExpectationsSettledOnce`,
  `WritebacksSettledOnce`, `PassIsFaithful` and its converse `OrderAloneIsNoFault`. The counts need only the types
  and the cardinality of the tables; that writebacks balance needs
  `TablesFollowIssued`, that the tables describe what was issued under the id.
  `PassIsFaithful` rests on `FaithfulSoFar`: while nothing was raised or
  drained, an id whose entry is pending was shown no answer, and one whose entry is gone
  was shown exactly one, the right one; and the same of events. A refusal is
  never forgotten (`CleanBefore`), so a clean end was clean all along. What is
  still in transit at the end does not matter. `OrderAloneIsNoFault` needs the other
  direction: while nothing seen was wrong, repeated or drained (`Disturbed` is never
  undone), an id whose entry is gone was shown its right answer, and one whose event is no longer
  expected its right event (`NothingRaised`). So what arrives, in any order, either finds its entry or is a
  second copy.
* `DutRegressionProofs`, for every stream, and every device that is one of
  `Device`: `DutInvariant`, and from it `QueuesStayAligned`,
  `OneLeftPerTimeout`, `AnswersAreOwn` and `DutTypesCorrect`. Alignment alone is
  inductive, but that an answer is its own needs two more parts: that the newest
  expectation is the current transaction's (`CurrentIsNewest`), and that until
  the first timeout the device has no other work (`InStep`).
* `CacheSystemProofs`. Of the RTL alone, for every geometry, every set of requests and any
  inputs at any edge: `RtlInvariant` and from it `TagsAreUnique`,
  `MemRequestsAreMisses`, `MemRequestsFit` and `RtlTypesCorrect`. The three
  are inductive only together: a fill keeps a tag in one way because its request still
  misses, which it does because a memory request holds off every other
  change of the lines and of the victim.
  Of the cache between its coroutines, one theorem on the next:
  `ControlIsInvariant` proves `ControlInv`: for each place where the two coroutines
  can wait, what the registers hold (`Phases`, `TakenIsOut`) and how long the CPU side
  has waited by then (`Punctual`). The counting is what makes it inductive: that no
  timeout comes while a fill is under way, so that the adapter never gives up
  a request the cache goes on to answer, is that a fill takes at most three cycles. Hence the
  assumption `ResponseTimeout > 3`. `AnswersAreOne`,
  `TimeoutsAreWritebacks` and `SystemKeepsCache` follow, whatever the latency.
  `ResponsesEndInTime` adds `HoldInv`, how many cycles the agent's response may still be held in
  each phase: none when a memory request is out. It assumes `Latency < 4`, and the run `system_latency` shows it
  false at four. From there a response is only ever taken by the request it answers,
  and `CleanLinesAreMemory` follows. `ViewIsInvariant` proves `ViewIsKept` and
  `ReadsReturnWrites` together: while a write is accepted and not done, the lines and the memory
  are the program's view but for that write, which hits; the assumption is
  `WritesHitOnly`. `ReadsAreWrites` and `WritesAreKept` follow.
  `SystemImplementsPort` is the refinement, under the same three assumptions. It rests on `PortInvariant`,
  which adds `TakenIsCurrent`: a writeback that the agent has read and not stored yet carries what
  the program would read there. Without it a reset in that cycle, after which the agent still
  stores the line, could leave memory with bytes nobody wrote.
* `ScriptedMemoryAgentProofs`, for every pattern, latency, mask and length of drain:
  `AgentInvariant` proves `AgentInv`. `IdsRunOn`: the ids of what left and of what is pending
  are the numbers of acceptance in a row, also while a drain has responses in hand.
  `OnTime`: every response left at the tick that is the latest of its own ready
  cycle and those before it, or waits and that tick is still to come.
  `DataAnswers`: what a pending response carries is what the requests accepted
  before it leave, byte by byte; memory itself is what all of them leave.
  `OrderOfAcceptance`, `NeitherEarlyNorLate` and `ReadsInOrderOfAcceptance` follow. A drain
  that runs out of cycles loses what it has in hand: `SettledInOrder` says that ids leave `pending` in the
  order of acceptance, told to the caller or lost with a drain, and `OrderOfAcceptance` therefore that what was
  told is, in order, everything settled but for what a raising drain took.
* `RealCacheAdapterProofs`, for every length of a burst, every stall and stream:
  `HandshakeInvariant` and `NoRequestPassesBy`. That every request is noticed is not
  inductive: it needs that the queues are empty whenever a request is on a port, which is
  that the beats the adapter still holds are just those that the device awaits, all on one
  bus, and that the device sends nothing while it awaits any (`DeviceInv`).
  `AdapterDataInvariant` proves `AdapterInv`, and `ReadsReturnWhatWasWritten` follows. Its centre is
  `Contents`: a word that the line holds is there as the program wrote it, or is about to
  have (`Want`), and in memory too if the line is clean or the word's beat of the burst has
  gone; all other words are right in memory. Around it stand `Asking` (the requests still to
  go are the last of the plan, each at its word of the line) and `Arriving` (the beats
  queued are the words of memory from `got` on, since nothing is stored while they come).
  One lemma for each thing the device can do keeps `DataInv`, whichever order an edge does
  them in. Hypothesis: no write of the stream has an empty mask (`WritesHaveMasks`), which
  `drive_cpu_request` would show as a full one; the generator makes none. The
  device is an assumption, and so these are theorems about the adapter with this device, of any
  `Beats` and `MaxStall`.
  `AdapterImplementsPort` is the refinement, from the same invariant: each beat that is stored makes one
  word durable, whatever else the edge does; a request that the device takes and answers at one edge is one step of the port.
  `AdapterLogInvariant` proves `ReportInv`, and `ResponsesTellTheirAccess` follows: a cached access is
  reported as what it was. Its centre is `Logged`: the requests logged since the access
  was driven and those the device has still to send are together those its kind of access makes
  (`Total`), of which all but the last are writes, the first at the victim's line. From the place
  that `execute` notes to the cycle that hands the request over nothing is logged (`WaitLogs`); while the
  request is out, a step either leaves the access as it is (`SameAccess`) or logs one of
  its requests (`FiredIsLogged`); and when the answer is taken nothing is left to
  send (`Asking`). So the beats of a line that still come after a read was answered cost the log nothing. Hypothesis:
  accesses to the MMIO range are marked uncached (`MmioIsUncached`); a plain write there would be
  told as a hit that wrote a line back.

`CacheImplementsStore` and `RegressionNeverFails` assume that the stream is sound (`StreamIsSound`, that is,
`NoAliasing` and `NoStrayWriteAround`), and the regression that it has no
cross-line access (`NoCrossLine`), since an exception ends it with FAIL. These
are assumptions on the stream, not on the code; the run `regression_aliasing` shows
what happens without the first. `Latency < 4` and `WritesHitOnly` are the conditions under which the
RTL and its agent work at all (see findings); `ResponseTimeout > 3` is far below the adapter's default. The named assumptions of the
modules (`RequestsAssumption`, `FaultsAssumption`, `DrainAssumption` and the others) say what kind of
values the constants are, `None` apart from them, and TLC evaluates them on every run.

`TypeCorrect`, `DutTypesCorrect`, `RtlTypesCorrect` and `MemRequestsAreMisses` are proved, and all but the
first left to the proof: no run repeats them.

Model-checked only: the rest of `RegressionSuite`. `DirectedPromisesKept`,
`ClosureLeavesConfiguredHoles`, `EvidenceLeavesOneBinToChance` and the part of `SuitePasses` about
covered bins and detected faults are about what given streams of literal addresses hit, and are
settled by running them. Further the liveness properties (`EndsUnlessBehindTimeout`, `AcceptedIsAnswered`,
`EveryRequestAnswered`), and the invariants on the instances that
leave the assumptions. TLAPS does not reach liveness, `ENABLED`, or
induction over data; no recursion is used in these modules.

## Findings

Four disagreements between the code and what the repository says of it, each shown
by a run that TLC ends with a counterexample:

* **The oracle's false alarm** (`regression_aliasing`). `ReferenceCache` keeps cached
  and uncached accesses apart, `CacheGenerator.random_txn` makes five in a hundred
  accesses uncached at the same addresses, and the oracle sees one memory. A
  cached write followed by an uncached read of the same bytes is then reported
  as a failure of a fault-free model: with the default parameters 11 of the
  first 40 seeds of 1000 transactions fail, seeds 1 and 4 among them.
  `run_large_scale_regression.py` sets the uncached weight to 0 and does not.
* **The response that stays** (`system_latency`). The memory agent's latency is how long
  its response is valid, not how long it takes to come (`memory_agent.py:162-175`).
  From a latency of four the next miss can meet it and take the wrong line.
* **The handshake that hangs** (`system_hang`). `response_timeout` bounds the wait for the
  response; `drive_cpu_request` waits for ready in a loop without a bound
  (`toffee_adapter.py:128`). A dirty miss keeps the cache's ready low as long as its writeback is
  unanswered, which is for good: `serve_one` stores a writeback and drives no response
  (`memory_agent.py:222`). The transaction times out and the next one hangs in the handshake.
  `.trae/skills/toffee-env-builder/SKILL.md:44` says of the timeout that it "guards hung handshakes".
* **Detections of nothing** (`cross_validation`). Each of the campaign's tests compares
  on a scoreboard nothing was pushed into, so `compare_response` raises at its first line
  (`cross_validation.py:221`, `scoreboard.py:47`), whatever the response is. All twelve tests are recorded as detected, also those
  whose injection changes nothing (`MASK_DROP`, `HIT_MISS_FLIP` and `DIRTY_EVICTION_FLIP`,
  for which `_inject_fault` hands the transaction back as it is); the report's proof says that a
  detection comes from different values.

Seen while modelling, and part of the models as the code has it, without a run of
their own:

* **Evictions nobody saw.** `sample_cpu_response` builds its response
  without `observed_fields` (`toffee_adapter.py:178`), which `observes` reads as "everything came from a
  signal", where `transactions.py:55` speaks of DUT-visible signals. Every transaction whose
  prediction evicts a dirty line is then refused by `compare_response`, whatever the device did.
* **The empty mask.** `txn.mask or full` on the write-around path stores every
  byte for a mask of 0; the hit path and the oracle store none. `NoStrayWriteAround`
  keeps it out of the streams the theorems are about. The real adapter's request port has the same
  expression (`real_dut_adapter.py:271`) for cached writes too; `WritesHaveMasks` is its counterpart.
* **A mask bit too many.** For the same reason `drop_mask_bit` on a write of one byte makes
  a write around the cache store all bytes of the access, not none; `FaultStaysInItsWrite` therefore
  speaks of the bytes of the write.
* **The write that missed.** A fill answers a write without merging its data
  (`NutShellCache.v:129`, BUG-012; `tests/test_real_dut_smoke.py:71` asks that a write miss preserve its data): the write is acknowledged and lost. With `WritesHitOnly` FALSE `NothingWrittenIsLost`
  fails for it, so `system_hits` writes resident lines only.
* **Requests into a full ear.** While the real adapter has answers queued it does not look at the request
  port, but leaves ready high (`real_dut_adapter.py:180`): a request sent then would be lost. `EveryRequestNoticed`
  holds because the device modelled sends no bus request while it owes beats; nothing
  in the adapter checks that the real one does not.
* **An MMIO write counts as an eviction.** Every write in the bus log is taken for a writeback
  (`real_dut_adapter.py:303`), that of an uncached access too: it is reported with
  `evicted_dirty`, and `ReportedAsHappened` is about cached accesses.
* **Coverage that says less than it seems.** Uncached accesses are counted as cached
  misses, and an uncached write samples `policy.write_allocate.write_miss_alloc`; a contiguous
  partial mask, an empty one and the mask 0 of random reads all sample `mask.sparse`
  (`coverage.py:86-97`); `same_set` is passed as True for every directed access, where
  `.trae/skills/coverage-analysis/SKILL.md:84` asks for a real revisit. `coverage_analyzer.py` never uses its
  categories UNREACHABLE and BUG_BLOCKED.
* **Phase 4 is left to chance.** The evidence script fills a set with reads for its
  clean write miss, in the cache that 500 random accesses left behind: the bin is hit or not.
* **The enhanced regression drives no device.** Its "DUT" seeds run `_run_enhanced_core_seed` again
  (`regression.py:126-128`), and its verdict does not look at the fault tests, as
  `Verdicts` has it.
* **Mismatches nobody counts.** `OooScoreboard.compare_actual` counts orphans as
  mismatched but not divergences, which raise past the counter
  (`ooo_scoreboard.py:92`); `summary()` then accounts for fewer responses than
  were pushed. `compare_writeback` does count them.
* **The writeback without an answer.** `serve_one` drives no response to a writeback
  and the RTL waits for one, so a dirty victim stops the cache until a reset:
  `TimeoutMeansWriteback` says that nothing else does. If an answer did come, the RTL
  would install it as the new line.
* **A victim that was just filled.** The RTL's victim pointer moves on hits only
  (`NutShellCache.v:170`), so a line that was filled and not hit since is replaced
  by the next miss, where least recently used would replace another (BUG-010).

## Not modelled, and the plan

Left out of parts that are modelled: the coverage sampling of `DUTRegressionRunner` (where
`hit` is None); the coverage totals the enhanced verdict adds up; the collectors of
random streams, which no verdict reads; counts in the coverage bins; random
replacement in `RegressionSuite`; `mixed_corner_stream` and `iter_seeded_streams`,
which only combine the methods modelled.

What a next step would add: that the six fault tests detect their fault for every geometry the
fixed streams fit, for which each stream would have to be followed access by access; and the ids
that `OooScoreboard` is given again while a writeback is expected under them.

Left out for good:

* `prompt_bug_matrix.py`, `semantic_tracker.py`, `ai_contribution_analyzer.py`,
  `fallacy_detector.py` score the project's own logs, and `regression_analysis.py`,
  `rtl_trajectory.py` and the chart and summary scripts format finished results: each is one
  pass over text, with no state that a step could leave wrong for a later one;
* `tests/mock_dut.py`, a test double that the unit tests step by hand;
* build wrappers, the fixed stimulus of `sim_main.cpp`, generated bindings, and the
  generated RealNutShellCache, whose source is not in the repository.
