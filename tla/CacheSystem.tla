---------------------------- MODULE CacheSystem ----------------------------
(***************************************************************************)
(* The cache of rtl/NutShellCache.v between the two coroutines that drive  *)
(* it: ToffeeCacheAdapter (toffee_adapter.py) on the CPU side, one         *)
(* transaction at a time, and a loop over ToffeeMemoryAgent.serve_one      *)
(* (memory_agent.py) on the memory side.                                   *)
(*                                                                         *)
(* A step is one clock cycle: each coroutine runs from one wait_cycles to  *)
(* the next, on the outputs the last edge left, and then the edge samples  *)
(* what they drive.  The outputs are functions of registers, so the order  *)
(* of the coroutines within a cycle does not matter.  cpu and agent say in *)
(* which wait each of them is.                                             *)
(***************************************************************************)
EXTENDS NutShellCache

CONSTANTS
    Latency,           \* ScriptedMemoryAgent.default_latency
    ResponseTimeout,   \* ToffeeCacheAdapter._response_timeout
    ResetCycles,       \* the argument of ToffeeCacheAdapter.reset
    WritesHitOnly,     \* the stream writes resident lines only
    Memories           \* what the agent's memory may hold at first

LineAddresses == Tags \X SetIds

ASSUME SystemConstantsAssumption ==
    /\ Latency \in Nat /\ ResponseTimeout \in Nat
    /\ ResetCycles \in Nat \ {0}
    /\ WritesHitOnly \in BOOLEAN
    /\ Memories \subseteq [LineAddresses -> LineData]

VARIABLES
    cpu,         \* "idle", "driving", "sampling" or "resetting"
    cpu_req,     \* the request being driven, or None
    waited,      \* sampling: wait_cycles; resetting: the edges still to come
    agent,       \* "monitoring", "taken" or "driving"
    taken,       \* the MemoryRequest that serve_one works on, or None
    hold,        \* the edges for which the response stays valid
    rdata,       \* io_mem_resp_bits_data
    memory,      \* the agent's ByteMemory, a line at a time
    view         \* history: what the program reads, from what it wrote

cpuVars == <<cpu, cpu_req, waited>>
agentVars == <<agent, taken, hold, rdata, memory>>
systemVars == <<rtlVars, cpuVars, agentVars, view>>
-----------------------------------------------------------------------------
(***************************************************************************)
(* The memory side.                                                        *)
(***************************************************************************)

\* The response is driven valid for the coming edge.
Serving ==
    \/ agent = "taken" /\ ~taken.write
    \/ agent = "driving" /\ hold > 0

\* What the coming edge samples.
MemRespData == IF agent = "taken" THEN memory[taken.addr] ELSE rdata

\* handle_writeback: the mask of the request is full, and no response follows.
StoreTaken ==
    memory' = IF agent = "taken" /\ taken.write
              THEN [memory EXCEPT ![taken.addr] = taken.wdata]
              ELSE memory

\* monitor_memory_request reads valid and the request, then waits for an edge.
TakeMemRequest ==
    /\ ~Serving
    /\ mem_req_pending
    /\ agent' = "taken" /\ taken' = mem_req
    /\ StoreTaken
    /\ UNCHANGED <<hold, rdata>>

\* Faulty variant: a request may be overlooked.
OverlookMemRequest ==
    /\ ~Serving
    /\ agent' = "monitoring" /\ taken' = None
    /\ StoreTaken
    /\ UNCHANGED <<hold, rdata>>

\* It found no request, or the loop waits a cycle before it calls serve_one again.
LeaveMemRequest ==
    /\ ~Serving
    /\ mem_req_pending => agent # "monitoring"
    /\ agent' = "monitoring" /\ taken' = None
    /\ StoreTaken
    /\ UNCHANGED <<hold, rdata>>

\* handle_fill: the line is read and driven at once, for latency edges and one.
StartFill ==
    /\ agent = "taken" /\ ~taken.write
    /\ agent' = "driving"
    /\ rdata' = memory[taken.addr]
    /\ hold' = Latency
    /\ UNCHANGED <<taken, memory>>

HoldFill ==
    /\ agent = "driving" /\ hold > 0
    /\ hold' = hold - 1
    /\ UNCHANGED <<agent, taken, rdata, memory>>

AgentCycle == TakeMemRequest \/ LeaveMemRequest \/ StartFill \/ HoldFill

\* A cycle that ends with an edge outside reset.
Cycle(req_valid, r, resp_ready) ==
    /\ AgentCycle
    /\ ClockEdge(req_valid, r, resp_ready, Serving, MemRespData)
-----------------------------------------------------------------------------
(***************************************************************************)
(* The CPU side.                                                           *)
(***************************************************************************)
TimedOut == cpu = "sampling" /\ ~resp_valid_r /\ waited = ResponseTimeout

\* The caller may go on: the last transaction ended, or just raised TimeoutError.
CpuFree == cpu = "idle" \/ TimedOut

\* The program's view after r.
Merged(r) ==
    [view EXCEPT ![<<r.tag, r.index>>] =
        [b \in DOMAIN @ |-> IF b - r.offset \in r.wmask THEN r.wdata[b - r.offset] ELSE @[b]]]

\* drive_cpu_request: valid stays high until the edge after ready was seen.
Drive(r) ==
    /\ cpu' = IF Ready THEN "sampling" ELSE "driving"
    /\ cpu_req' = IF Ready THEN None ELSE r
    /\ waited' = 0
    /\ view' = IF Ready /\ r.write THEN Merged(r) ELSE view
    /\ Cycle(TRUE, r, FALSE)

StartRequest(r) ==
    /\ CpuFree
    /\ WritesHitOnly /\ r.write => Matches(r.index, r.tag) # {}
    /\ Drive(r)

KeepDriving == cpu = "driving" /\ Drive(cpu_req)

\* sample_cpu_response, before the response and with it.
AwaitResponse ==
    /\ cpu = "sampling" /\ ~resp_valid_r
    /\ waited < ResponseTimeout
    /\ waited' = waited + 1
    /\ Cycle(FALSE, None, FALSE)
    /\ UNCHANGED <<cpu, cpu_req, view>>

TakeResponse ==
    /\ cpu = "sampling" /\ resp_valid_r
    /\ cpu' = "idle" /\ waited' = 0
    /\ Cycle(FALSE, None, TRUE)
    /\ UNCHANGED <<cpu_req, view>>

StayIdle ==
    /\ CpuFree
    /\ cpu' = "idle" /\ waited' = 0
    /\ Cycle(FALSE, None, FALSE)
    /\ UNCHANGED <<cpu_req, view>>

\* ToffeeCacheAdapter.reset: the reset edges and two more.  What was dirty is
\* lost: the program finds memory as the writebacks left it.
StartReset ==
    /\ CpuFree
    /\ cpu' = "resetting" /\ waited' = ResetCycles + 1
    /\ AgentCycle /\ ResetEdge
    /\ UNCHANGED <<cpu_req, view>>

KeepResetting ==
    /\ cpu = "resetting"
    /\ waited' = waited - 1
    /\ IF waited > 2 THEN AgentCycle /\ ResetEdge ELSE Cycle(FALSE, None, FALSE)
    /\ cpu' = IF waited = 1 THEN "idle" ELSE cpu
    /\ view' = IF waited = 1 THEN memory' ELSE view
    /\ UNCHANGED cpu_req

\* The cache is out of reset.
SystemInit ==
    /\ RtlInit
    /\ cpu = "idle" /\ cpu_req = None /\ waited = 0
    /\ agent = "monitoring" /\ taken = None /\ hold = 0 /\ rdata = None
    /\ memory \in Memories
    /\ view = memory

SystemNext ==
    \/ \E r \in CpuRequests : StartRequest(r)
    \/ KeepDriving \/ AwaitResponse \/ TakeResponse \/ StayIdle
    \/ StartReset \/ KeepResetting

SystemSpec == SystemInit /\ [][SystemNext]_systemVars

\* The clock goes on, and with it the coroutines.
TickingSpec == SystemSpec /\ WF_systemVars(SystemNext)
-----------------------------------------------------------------------------
(***************************************************************************)
(* While the CPU side waits for a response there is either the request or  *)
(* its response in the cache, never both and never none; and at any other  *)
(* time neither, but for a request whose writeback is out.                 *)
(***************************************************************************)
OneAnswerPerRequest ==
    /\ cpu = "sampling" => (req_pending <=> ~resp_valid_r)
    /\ cpu \in {"idle", "driving"} =>
          ~resp_valid_r /\ (req_pending => mem_req_pending /\ mem_req.write)

(***************************************************************************)
(* A line that is not dirty holds what memory holds: fills install the     *)
(* line asked for, and every later write to it sets its dirty bit.         *)
(***************************************************************************)
CleanLineIsMemory ==
    \A s \in SetIds, w \in WayIds :
        lines[s][w].valid /\ ~lines[s][w].dirty
            => lines[s][w].data = memory[<<lines[s][w].tag, s>>]

(***************************************************************************)
(* A read returns what the program last wrote there, or what memory held,  *)
(* through hits, fills, evictions of clean lines and resets.               *)
(***************************************************************************)
ReadsReturnWrites ==
    cpu = "sampling" /\ resp_valid_r /\ ~req.write
        => resp_data = WordOf(view[<<req.tag, req.index>>], req.offset)

(***************************************************************************)
(* What the program wrote is in the cache or in memory: a resident line,   *)
(* dirty or not, and otherwise memory, hold the program's view, after a    *)
(* dirty line was written back too.  A write that was accepted and not     *)
(* answered yet, and a reset, are on the way there.                        *)
(***************************************************************************)
CurrentLine(l) ==
    LET ways == Matches(l[2], l[1])
    IN  IF ways = {} THEN memory[l] ELSE lines[l[2]][CHOOSE w \in ways : TRUE].data

NothingWrittenIsLost ==
    cpu = "resetting" \/ (req_pending /\ req.write)
        \/ \A l \in LineAddresses : CurrentLine(l) = view[l]

(***************************************************************************)
(* A response times out only behind the writeback of a dirty victim.       *)
(***************************************************************************)
TimeoutMeansWriteback == TimedOut => mem_req_pending /\ mem_req.write

(***************************************************************************)
(* A handshake that drive_cpu_request begins ends, with the request taken  *)
(* or given up: that no handshake hangs is what response_timeout is said   *)
(* to be for.  The wait for ready does not count its cycles, and after a   *)
(* timeout the cache may never be ready again.                             *)
(***************************************************************************)
EveryHandshakeEnds == cpu = "driving" ~> cpu # "driving"
-----------------------------------------------------------------------------
(***************************************************************************)
(* The refinement mapping to MemoryPort: the program's view is current,    *)
(* the agent's memory durable, and the port busy from the edge that takes  *)
(* a request until sample_cpu_response returns or raises TimeoutError.     *)
(***************************************************************************)
AfterRequest(places, r) ==
    IF r.write
    THEN [places EXCEPT ![<<r.tag, r.index>>] =
             [b \in DOMAIN @ |-> IF b - r.offset \in r.wmask THEN r.wdata[b - r.offset] ELSE @[b]]]
    ELSE places

ReplyTo(places, r) ==
    IF r.write THEN None ELSE WordOf(places[<<r.tag, r.index>>], r.offset)

PortState ==
    IF cpu # "sampling" THEN [phase |-> "free"]
    ELSE IF ~resp_valid_r THEN [phase |-> "asked", request |-> req]
    ELSE [phase |-> "answered", request |-> req,
          value |-> IF req.write THEN None ELSE resp_data]

Port == INSTANCE MemoryPort
           WITH Places <- LineAddresses, Requests <- CpuRequests,
                Initial <- Memories, Blank <- {}, Patient <- FALSE,
                After <- AfterRequest, Reply <- ReplyTo,
                current <- view, durable <- memory, port <- PortState

(***************************************************************************)
(* The cache between its coroutines is a memory port: between the edge     *)
(* that takes a request and its answer nothing but writebacks happens,     *)
(* each leaves the agent's memory with bytes the program would read there, *)
(* and a reset brings back what was written back and nothing else.         *)
(***************************************************************************)
ImplementsPort == Port!PortSpec
=============================================================================
