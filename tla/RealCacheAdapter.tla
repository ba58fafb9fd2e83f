-------------------------- MODULE RealCacheAdapter --------------------------
(***************************************************************************)
(* RealCacheAdapter of cache_vip/real_dut_adapter.py: the coroutine that   *)
(* drives a CPU request and samples its answer is also the device's        *)
(* memory.  wait_cycles serves both buses from the signals the last edge   *)
(* left, then clocks the device once; what an access did is told afterwards*)
(* from the bus requests logged since it was driven.                       *)
(*                                                                         *)
(* A command is named for what the code tests of it: whether it writes,    *)
(* bursts, or ends a burst.                                                *)
(*                                                                         *)
(* Accesses are of whole words at their addresses.  The code passes the    *)
(* low bits of an address, the size, the data, the mask and the read data  *)
(* through as they are, so what a sub-word access means is the device's.   *)
(***************************************************************************)
EXTENDS SimpleBusDevice

CONSTANTS
    Lanes,           \* the bytes of a word, numbered from 0
    Byte,            \* the byte values, 0 among them
    Txns,            \* the transactions of the stream
    MaxTxns          \* transactions executed, at most

Word == [Lanes -> Byte]
Addresses == Words \cup MmioWords

Transactions ==
    [op : {"read", "write"}, addr : Addresses, data : Word, mask : SUBSET Lanes,
     uncached : BOOLEAN]

ASSUME TxnsAssumption == 0 \in Byte /\ Txns \subseteq Transactions
ASSUME MaxTxnsAssumption == MaxTxns \in Nat
ASSUME NoneAssumption == None \notin Nat \cup Transactions \cup BusRequests(Addresses, Word, Lanes)

VARIABLES
    memory,          \* _memory, by words
    responses,       \* _mem_response and _mmio_response: beats to deliver
    bus_events,      \* _bus_events
    pending_txns,    \* _pending_txns, ids in order of insertion
    event_start,     \* _txn_event_start
    pc,              \* where execute stands: "IDLE", "DRIVE" or "SAMPLE"
    txn,             \* the transaction being executed
    executed,        \* transactions begun so far; the id of the last one
    reported,        \* the last CacheResponse
    dev,             \* the device behind the pins
    fired,           \* history: the bus requests the device sent
    program          \* history: the words as the program wrote them

bench == <<pending_txns, event_start, pc, txn, executed, reported, program>>
adapterVars == <<memory, responses, bus_events, dev, fired, bench>>

Buses == {"mem", "mmio"}
ZeroWord == [l \in Lanes |-> 0]
-----------------------------------------------------------------------------
(***************************************************************************)
(* _service_external_bus: the beat at the head of a queue is driven until  *)
(* the device is ready; only an empty queue looks at the request port.     *)
(***************************************************************************)
IsWrite(req) == req.cmd \in {"WRITE", "WRITE_BURST", "WRITE_LAST"}

\* Faulty variant: every write beat is answered, those inside a burst too.
RepliesToEachWrite(req) ==
    IF IsWrite(req) THEN <<ZeroWord>>
    ELSE [i \in 1 .. AnswerBeats(req) |-> memory[req.addr + i - 1]]

\* Faulty variant: of writes, only a lone one is answered.
RepliesToLoneWrite(req) ==
    IF req.cmd = "WRITE" THEN <<ZeroWord>>
    ELSE IF IsWrite(req) THEN <<>>
    ELSE [i \in 1 .. AnswerBeats(req) |-> memory[req.addr + i - 1]]

\* The beats that answer a request; a write inside a burst has none.
Replies(req) ==
    IF req.cmd \in {"WRITE", "WRITE_LAST"} THEN <<ZeroWord>>
    ELSE IF IsWrite(req) THEN <<>>
    ELSE [i \in 1 .. AnswerBeats(req) |-> memory[req.addr + i - 1]]

\* Faulty variant: a word is stored without its mask.
StoredWhole(req) ==
    IF IsWrite(req) THEN [memory EXCEPT ![req.addr] = req.data] ELSE memory

Stored(req) ==
    IF IsWrite(req) THEN [memory EXCEPT ![req.addr] = Merge(@, req.data, req.mask)]
    ELSE memory

Noticed == dev.out # None /\ responses[dev.out.bus] = <<>>

Service ==
    /\ bus_events' = IF Noticed THEN Append(bus_events, dev.out) ELSE bus_events
    /\ memory' = IF Noticed THEN Stored(dev.out) ELSE memory
    /\ responses' =
          [b \in Buses |->
              IF responses[b] # <<>>
              THEN IF BusReady(dev) THEN Tail(responses[b]) ELSE responses[b]
              ELSE IF Noticed /\ dev.out.bus = b THEN Replies(dev.out) ELSE <<>>]

\* What the buses deliver at the coming edge: a sequence of one beat, or of none.
Beat ==
    IF BusReady(dev) /\ \E b \in Buses : responses[b] # <<>>
    THEN <<Head(responses[CHOOSE b \in Buses : responses[b] # <<>>])>>
    ELSE <<>>

\* wait_cycles(1), the CPU port showing request t and ready to take an answer or not.
WaitCycle(t, taken) ==
    /\ Service
    /\ dev' \in AfterEdge(dev, t, Beat, taken)
    /\ fired' = IF dev.out # None THEN Append(fired, dev.out) ELSE fired
-----------------------------------------------------------------------------
(***************************************************************************)
(* drive_cpu_request and sample_cpu_response, as execute calls them.       *)
(***************************************************************************)
\* `txn.mask or full`, as the request port shows it.
Shown == [txn EXCEPT !.mask = IF txn.mask = {} THEN Lanes ELSE txn.mask]

StartRequest(t) ==
    /\ pc = "IDLE"
    /\ executed < MaxTxns
    /\ pc' = "DRIVE"
    /\ txn' = t
    /\ executed' = executed + 1
    /\ event_start' = [event_start EXCEPT ![executed + 1] = Len(bus_events)]
    /\ UNCHANGED <<memory, responses, bus_events, pending_txns, reported, dev, fired, program>>

AwaitReady ==
    /\ pc = "DRIVE"
    /\ ~CpuReady(dev)
    /\ WaitCycle(Shown, FALSE)
    /\ UNCHANGED bench

SendRequest ==
    /\ pc = "DRIVE"
    /\ CpuReady(dev)
    /\ WaitCycle(Shown, FALSE)
    /\ pc' = "SAMPLE"
    /\ pending_txns' = Append(pending_txns, [id |-> executed, uncached |-> txn.uncached])
    /\ UNCHANGED <<event_start, txn, executed, reported, program>>

AwaitResponse ==
    /\ pc = "SAMPLE"
    /\ dev.answer # "shown"
    /\ WaitCycle(None, FALSE)
    /\ UNCHANGED bench

\* Faulty variant: everything since the last reset is this transaction's.
EventsSinceReset(id) == bus_events'

EventsOf(id) == SubSeq(bus_events', event_start[id] + 1, Len(bus_events'))

\* What a transaction did, told from the bus requests since it was driven.
Told(oldest, events) ==
    LET writes == {i \in DOMAIN events : IsWrite(events[i])}
        first == CHOOSE i \in writes : \A j \in writes : i <= j
    IN  [txn_id |-> oldest.id,
         data |-> dev.value,
         hit |-> IF oldest.uncached THEN None ELSE writes = DOMAIN events,
         evicted_dirty |-> writes # {},
         writeback_addr |-> IF writes = {} THEN None ELSE events[first].addr]

\* The events are read after the cycle that hands the answer over.
TakeResponse ==
    /\ pc = "SAMPLE"
    /\ dev.answer = "shown"
    /\ WaitCycle(None, TRUE)
    /\ LET oldest == Head(pending_txns)
       IN  /\ reported' = Told(oldest, EventsOf(oldest.id))
           /\ event_start' = [event_start EXCEPT ![oldest.id] = None]
    /\ pending_txns' = Tail(pending_txns)
    /\ pc' = "IDLE"
    /\ program' = IF txn.op = "write"
                  THEN [program EXCEPT ![txn.addr] = Merge(@, txn.data, txn.mask)]
                  ELSE program
    /\ UNCHANGED <<txn, executed>>

\* reset(): the buses are not served while the device is held in it.
Reset(clear_memory) ==
    /\ pc = "IDLE"
    /\ memory' = IF clear_memory THEN [a \in DOMAIN memory |-> ZeroWord] ELSE memory
    /\ responses' = [b \in Buses |-> <<>>]
    /\ bus_events' = <<>>
    /\ fired' = <<>>
    /\ pending_txns' = <<>>
    /\ event_start' = [id \in 1 .. MaxTxns |-> None]
    /\ dev' = ResetDevice
    /\ reported' = None
    /\ program' = memory'
    /\ UNCHANGED <<pc, txn, executed>>

Clock == AwaitReady \/ SendRequest \/ AwaitResponse \/ TakeResponse

AdapterInit ==
    /\ memory = [a \in Addresses |-> ZeroWord]
    /\ responses = [b \in Buses |-> <<>>]
    /\ bus_events = <<>>
    /\ fired = <<>>
    /\ pending_txns = <<>>
    /\ event_start = [id \in 1 .. MaxTxns |-> None]
    /\ pc = "IDLE"
    /\ txn = None
    /\ executed = 0
    /\ reported = None
    /\ dev = ResetDevice
    /\ program = memory

AdapterNext ==
    \/ \E t \in Txns : StartRequest(t)
    \/ Clock
    \/ \E clear \in BOOLEAN : Reset(clear)

\* The event loop runs the coroutine; the device's delays are bounded by MaxStall.
AdapterSpec == AdapterInit /\ [][AdapterNext]_adapterVars /\ WF_adapterVars(Clock)
-----------------------------------------------------------------------------
(***************************************************************************)
(* Every request the device puts on a bus is seen, in order and once: the  *)
(* adapter holds ready high even while it looks only at its answers, and a *)
(* request that goes then is neither logged, stored nor answered.          *)
(***************************************************************************)
EveryRequestNoticed == bus_events = fired

(***************************************************************************)
(* The response of a cached access tells what the device did for that very *)
(* access - hit or miss, and the line it wrote back - although it is told  *)
(* from positions in one log that beats of the access before may overlap.  *)
(***************************************************************************)
ReportedAsHappened ==
    pc = "IDLE" /\ reported # None =>
        /\ reported.txn_id = executed
        /\ ~txn.uncached =>
              /\ reported.hit = dev.hit
              /\ reported.evicted_dirty = (dev.victim # None)
              /\ reported.writeback_addr = dev.victim

(***************************************************************************)
(* A read returns what the program wrote last, through the line, a burst   *)
(* that stored it word by word and a burst that fetched it again, and      *)
(* after a reset what had been written back.                               *)
(***************************************************************************)
ReadsSeeWrites ==
    pc = "IDLE" /\ reported # None /\ txn.op = "read" => reported.data = program[txn.addr]

(***************************************************************************)
(* Neither wait of the adapter has a limit: every transaction it drives is *)
(* answered, because every request the device waits on is.                 *)
(***************************************************************************)
EveryRequestAnswered == pc # "IDLE" ~> pc = "IDLE"
-----------------------------------------------------------------------------
(***************************************************************************)
(* The refinement mapping to MemoryPort: the port is busy from the edge    *)
(* that sends the request until its answer is taken, and the write of a    *)
(* transaction counts from that edge.                                      *)
(***************************************************************************)
AfterTxn(places, t) ==
    IF t.op = "write"
    THEN [places EXCEPT ![t.addr] = Merge(@, t.data, t.mask)] ELSE places

ReplyTo(places, t) == IF t.op = "write" THEN None ELSE places[t.addr]

CurrentWords == IF pc = "SAMPLE" THEN AfterTxn(program, txn) ELSE program

PortState ==
    IF pc # "SAMPLE" THEN [phase |-> "free"]
    ELSE IF dev.answer # "shown" THEN [phase |-> "asked", request |-> txn]
    ELSE [phase |-> "answered", request |-> txn,
          value |-> IF txn.op = "write" THEN None ELSE dev.value]

Port == INSTANCE MemoryPort
           WITH Places <- Addresses, Requests <- Txns,
                Initial <- {[a \in Addresses |-> ZeroWord]},
                Blank <- {[a \in Addresses |-> ZeroWord]}, Patient <- TRUE,
                After <- AfterTxn, Reply <- ReplyTo,
                current <- CurrentWords, durable <- memory, port <- PortState

(***************************************************************************)
(* The adapter and its device are a memory port that never gives up: while *)
(* a burst is stored word by word each word already is what the program    *)
(* would read, a fetched line brings back the same, and the answer of a    *)
(* read, given before its line is whole or not, is current.                *)
(***************************************************************************)
ImplementsPort == Port!PortSpec
=============================================================================
