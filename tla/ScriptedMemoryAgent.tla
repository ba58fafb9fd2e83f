------------------------ MODULE ScriptedMemoryAgent ------------------------
(***************************************************************************)
(* ScriptedMemoryAgent (memory_agent.py:26-86): a memory that may refuse a *)
(* request, by a pattern over its cycles, and answers after a latency, in  *)
(* the order of acceptance.  Its driver offers a request in every cycle    *)
(* until it is accepted, ticks once a cycle, and may drain the agent with  *)
(* run_until_idle.                                                         *)
(*                                                                         *)
(* A request covers the bytes of one line; a write's response has data 0.  *)
(***************************************************************************)
EXTENDS Naturals, Sequences, FiniteSets

CONSTANTS
    Lines, Size, Byte,       \* the addresses, the bytes of each, their values
    Requests,                \* [write, addr, data, mask, latency]
    BackpressurePattern,     \* a sequence of BOOLEAN
    DrainCycles,             \* values of max_cycles
    MaxRequests,             \* bound on the requests offered
    LastCycle,               \* bound: afterwards the driver only ends what it began
    None

Data == [0 .. Size - 1 -> Byte]

ASSUME AgentRequestsAssumption ==
    \A r \in Requests : /\ r.write \in BOOLEAN /\ r.addr \in Lines /\ r.data \in Data
                        /\ r.mask \subseteq 0 .. Size - 1 /\ r.latency \in Nat

\* __init__ refuses any other pattern.
ASSUME PatternAssumption ==
    \E i \in DOMAIN BackpressurePattern : BackpressurePattern[i]

ASSUME DrainAssumption == DrainCycles \subseteq Nat /\ None \notin Nat

VARIABLES
    cycle, pending, memory,
    offer,        \* the request the driver offers, or None
    drain,        \* the cycles run_until_idle has left, or None
    collected,    \* its responses
    accepted,     \* history: the requests accepted, with their ready_cycle
    delivered,    \* history: the responses returned, with the cycle of their tick
    lost          \* history: the responses that went with a drain's TimeoutError

agentVars == <<cycle, pending, memory, offer, drain, collected, accepted, delivered, lost>>

Ready == BackpressurePattern[(cycle % Len(BackpressurePattern)) + 1]

\* mask or full: the empty mask is falsy.
EffectiveMask(r) == IF r.mask = {} THEN 0 .. Size - 1 ELSE r.mask

\* Faulty variant: every byte is written.
StoredWhole(r) == r.data

Stored(r) ==
    [b \in 0 .. Size - 1 |-> IF b \in EffectiveMask(r) THEN r.data[b] ELSE memory[r.addr][b]]

Zero == [b \in 0 .. Size - 1 |-> 0]

\* accept, when it does not return False: the write or the read happens now.
Accept ==
    /\ drain = None /\ offer # None
    /\ Ready
    /\ memory' = IF offer.write THEN [memory EXCEPT ![offer.addr] = Stored(offer)] ELSE memory
    /\ pending' = Append(pending,
          [txn_id |-> Len(accepted) + 1,
           data |-> IF offer.write THEN Zero ELSE memory[offer.addr],
           ready_cycle |-> cycle + offer.latency])
    /\ accepted' = Append(accepted, [request |-> offer, ready_cycle |-> cycle + offer.latency])
    /\ offer' = None
    /\ UNCHANGED <<cycle, drain, collected, delivered, lost>>

\* Faulty variant: a response waits until its cycle has passed.
OverdueCount ==
    Cardinality({i \in DOMAIN pending :
        \A j \in 1 .. i : pending[j].ready_cycle < cycle})

\* tick pops while the head is due: how many.
DueCount ==
    Cardinality({i \in DOMAIN pending :
        \A j \in 1 .. i : pending[j].ready_cycle <= cycle})

Popped ==
    [i \in 1 .. DueCount |->
        [txn_id |-> pending[i].txn_id, data |-> pending[i].data, cycle |-> cycle]]

\* Faulty variant: the first response that is not due is popped with the others.
LeftButOne == SubSeq(pending, DueCount + 2, Len(pending))

Left == SubSeq(pending, DueCount + 1, Len(pending))

\* The driver ticks on while something is offered or pending.
MayTick ==
    /\ drain = None
    /\ offer = None \/ ~Ready
    /\ cycle < LastCycle \/ offer # None \/ pending # <<>>

Tick ==
    /\ MayTick
    /\ cycle' = cycle + 1
    /\ pending' = Left
    /\ delivered' = delivered \o Popped
    /\ UNCHANGED <<memory, offer, drain, collected, accepted, lost>>

Offer(r) ==
    /\ drain = None /\ offer = None
    /\ Len(accepted) < MaxRequests /\ cycle < LastCycle
    /\ offer' = r
    /\ UNCHANGED <<cycle, pending, memory, drain, collected, accepted, delivered, lost>>

\* run_until_idle is called.
Drain(max_cycles) ==
    /\ drain = None /\ offer = None
    /\ pending # <<>>
    /\ drain' = max_cycles
    /\ UNCHANGED <<cycle, pending, memory, offer, collected, accepted, delivered, lost>>

\* One turn of its loop: it returns all it collected once nothing is pending.
DrainTick ==
    /\ drain \in Nat \ {0}
    /\ cycle' = cycle + 1
    /\ pending' = Left
    /\ IF Left = <<>>
       THEN /\ delivered' = delivered \o collected \o Popped
            /\ collected' = <<>> /\ drain' = None
       ELSE /\ collected' = collected \o Popped /\ drain' = drain - 1
            /\ UNCHANGED delivered
    /\ UNCHANGED <<memory, offer, accepted, lost>>

\* The loop is over: what it collected goes with the exception.
DrainTimeout ==
    /\ drain = 0
    /\ lost' = lost \cup {collected[i].txn_id : i \in DOMAIN collected}
    /\ collected' = <<>> /\ drain' = None
    /\ UNCHANGED <<cycle, pending, memory, offer, accepted, delivered>>

AgentInit ==
    /\ cycle = 0 /\ pending = <<>>
    /\ memory = [l \in Lines |-> Zero]
    /\ offer = None /\ drain = None /\ collected = <<>>
    /\ accepted = <<>> /\ delivered = <<>> /\ lost = {}

AgentNext ==
    \/ \E r \in Requests : Offer(r)
    \/ \E max_cycles \in DrainCycles : Drain(max_cycles)
    \/ Accept \/ Tick \/ DrainTick \/ DrainTimeout

\* The driver goes on with what it has begun; it need not offer or drain.
AgentSpec ==
    AgentInit /\ [][AgentNext]_agentVars
        /\ WF_agentVars(Accept \/ Tick \/ DrainTick \/ DrainTimeout)
-----------------------------------------------------------------------------
(***************************************************************************)
(* What was accepted is delivered or still to come, each once and in the   *)
(* order of acceptance, however the latencies compare; what is missing is  *)
(* what run_until_idle had collected when it raised, and nothing else.     *)
(***************************************************************************)
Ids(responses) == [i \in DOMAIN responses |-> responses[i].txn_id]

Told == Ids(delivered \o collected) \o Ids(pending)

DeliveredInOrder ==
    /\ \A i, j \in DOMAIN Told : i < j => Told[i] < Told[j]
    /\ {Told[i] : i \in DOMAIN Told} = DOMAIN accepted \ lost

(***************************************************************************)
(* A response comes in the very cycle in which it and all accepted before  *)
(* it are due: not one earlier, and never later, also when a drain raised. *)
(***************************************************************************)
DeliveredWhenDue ==
    \A i \in DOMAIN delivered :
        LET due == {accepted[j].ready_cycle : j \in 1 .. delivered[i].txn_id}
        IN  delivered[i].cycle \in due /\ \A d \in due : d <= delivered[i].cycle

(***************************************************************************)
(* A read returns the bytes as the writes accepted before it left them,    *)
(* also when writes accepted later were answered with it.                  *)
(***************************************************************************)
LastWrite(n, l, b) ==
    {i \in 1 .. n - 1 : /\ accepted[i].request.write /\ accepted[i].request.addr = l
                        /\ b \in EffectiveMask(accepted[i].request)
                        /\ \A j \in i + 1 .. n - 1 :
                              ~(/\ accepted[j].request.write /\ accepted[j].request.addr = l
                                /\ b \in EffectiveMask(accepted[j].request))}

ReadsSeeEarlierWrites ==
    \A i \in DOMAIN delivered :
        LET n == delivered[i].txn_id
            r == accepted[n].request
        IN  ~r.write => \A b \in 0 .. Size - 1 :
                IF LastWrite(n, r.addr, b) = {} THEN delivered[i].data[b] = 0
                ELSE \A w \in LastWrite(n, r.addr, b) :
                        delivered[i].data[b] = accepted[w].request.data[b]

(***************************************************************************)
(* What was accepted is answered in the end, also after a drain that timed *)
(* out, unless that drain had collected the response before it raised.     *)
(***************************************************************************)
AcceptedIsAnswered ==
    \A n \in 1 .. MaxRequests :
        Len(accepted) >= n ~> \/ n \in lost
                              \/ \E i \in DOMAIN delivered : delivered[i].txn_id = n
=============================================================================
