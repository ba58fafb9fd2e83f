--------------------------- MODULE SimpleBusDevice ---------------------------
(***************************************************************************)
(* The device that RealCacheAdapter (real_dut_adapter.py) drives.  Its     *)
(* source is not in the repository: this is the least cache that uses the  *)
(* SimpleBus the way the adapter serves it - one line, write back, write   *)
(* allocate, one CPU request at a time, every bus request of an access     *)
(* sent before its answer.  It may answer a read as soon as the word asked *)
(* for has arrived, and may dawdle for up to MaxStall cycles anywhere.     *)
(*                                                                         *)
(* Memory is a function from word addresses to words, a word a function    *)
(* from byte lanes to bytes.  The device is a record, its clock edge the   *)
(* set of records it may be next.                                          *)
(***************************************************************************)
EXTENDS Integers, Sequences

CONSTANTS
    Beats,           \* words of a line, beats of a burst (8 in the adapter)
    Words,           \* the word addresses of cached accesses, whole lines
    MmioWords,       \* the word addresses the device takes to the MMIO bus
    MaxStall,        \* cycles the device may sit still, at most
    None

ASSUME BeatsAssumption == Beats \in Nat \ {0}
ASSUME StallAssumption == MaxStall \in Nat

LineOf(a) == (a \div Beats) * Beats

ASSUME WordsAssumption ==
    /\ Words \cup MmioWords \subseteq Nat
    /\ Words \cap MmioWords = {}
    /\ \A a \in Words : LineOf(a) .. LineOf(a) + Beats - 1 \subseteq Words

IsMmio(t) == t.addr \in MmioWords

Merge(word, data, mask) == [l \in DOMAIN word |-> IF l \in mask THEN data[l] ELSE word[l]]
-----------------------------------------------------------------------------
Request(bus, cmd, addr, data, mask) ==
    [bus |-> bus, cmd |-> cmd, addr |-> addr, data |-> data, mask |-> mask]

BusRequests(addrs, data, lanes) ==
    [bus : {"mem", "mmio"},
     cmd : {"READ", "WRITE", "READ_BURST", "WRITE_BURST", "WRITE_LAST"},
     addr : addrs, data : data, mask : SUBSET lanes]

WriteBack(line, lanes) ==
    [i \in 1 .. Beats |->
        Request("mem", IF i = Beats THEN "WRITE_LAST" ELSE "WRITE_BURST",
                line.base + i - 1, line.words[i - 1], lanes)]

Holds(line, t) == line.base = LineOf(t.addr)

\* What an access asks of the buses, in order.
Plan(line, t) ==
    IF IsMmio(t)
    THEN <<Request("mmio", IF t.op = "write" THEN "WRITE" ELSE "READ",
                   t.addr, t.data, t.mask)>>
    ELSE IF Holds(line, t) THEN <<>>
    ELSE (IF line.dirty THEN WriteBack(line, DOMAIN t.data) ELSE <<>>)
         \o <<Request("mem", "READ_BURST", LineOf(t.addr), t.data, {})>>

\* Beats that answer a request: a write inside a burst has none.
AnswerBeats(req) ==
    CASE req.cmd = "READ_BURST"  -> Beats
      [] req.cmd = "WRITE_BURST" -> 0
      [] OTHER                   -> 1
-----------------------------------------------------------------------------
ResetDevice ==
    [line |-> [base |-> None, dirty |-> FALSE, words |-> <<>>],
     txn |-> None, todo |-> <<>>, out |-> None,   \* the access, its bus requests
     awaited |-> 0, got |-> 0, bus_ready |-> TRUE, \* the beats of the last of them
     answer |-> "taken", value |-> None,           \* "owed", "shown" or "taken"
     hit |-> FALSE, victim |-> None, stall |-> 0]

BusReady(d) == d.bus_ready /\ d.awaited > 0
CpuReady(d) == d.answer = "taken" /\ d.awaited = 0

Accepted(d, t) ==
    [d EXCEPT !.txn = t, !.todo = Plan(d.line, t), !.answer = "owed",
              !.hit = ~IsMmio(t) /\ Holds(d.line, t),
              !.victim = IF ~IsMmio(t) /\ ~Holds(d.line, t) /\ d.line.dirty
                         THEN d.line.base ELSE None]

HandedOver(d) == [d EXCEPT !.answer = "taken"]

\* A beat of a fill goes into the line.
BeatTaken(d, beat) ==
    [d EXCEPT
        !.awaited = @ - 1, !.got = @ + 1,
        !.value = IF IsMmio(d.txn) THEN beat ELSE @,
        !.line = IF IsMmio(d.txn) \/ d.todo # <<>> THEN @
                 ELSE [base |-> LineOf(d.txn.addr), dirty |-> FALSE,
                       words |-> [b \in 0 .. Beats - 1 |->
                                    IF b >= d.got THEN beat ELSE d.line.words[b]]]]

Send(d) == [d EXCEPT !.out = Head(d.todo), !.todo = Tail(d.todo), !.got = 0]

\* A request on a port goes at the edge, for the adapter holds ready high; the
\* next beat of a write burst may follow at once.
Fired(d) ==
    LET gone == [d EXCEPT !.out = None, !.awaited = AnswerBeats(d.out)]
    IN  {gone} \cup (IF gone.awaited = 0 THEN {Send(gone)} ELSE {})

\* The word asked for is there: a read need not wait for the rest of its line.
MayAnswer(d) ==
    /\ d.answer = "owed" /\ d.out = None /\ d.todo = <<>>
    /\ \/ d.awaited = 0
       \/ d.txn.op = "read" /\ ~IsMmio(d.txn) /\ d.got > d.txn.addr % Beats

Written(line, t) ==
    [line EXCEPT !.dirty = TRUE, !.words[t.addr % Beats] = Merge(@, t.data, t.mask)]

Answered(d) ==
    IF IsMmio(d.txn) THEN [d EXCEPT !.answer = "shown"]
    ELSE [d EXCEPT !.answer = "shown", !.value = d.line.words[d.txn.addr % Beats],
                   !.line = IF d.txn.op = "read" THEN @ ELSE Written(@, d.txn)]

\* What the device does of its own accord at an edge.
Moves(d) ==
    IF d.out # None THEN Fired(d)
    ELSE IF d.todo # <<>> /\ d.awaited = 0 THEN {Send(d)}
    ELSE IF MayAnswer(d) THEN {Answered(d)}
    ELSE {d}

Unstalled(d) == [d EXCEPT !.stall = 0, !.bus_ready = TRUE]

Stalled(d) ==
    IF d.stall < MaxStall /\ d.out = None
    THEN {[d EXCEPT !.stall = @ + 1, !.bus_ready = FALSE]} ELSE {}

\* The edge: t is the request the CPU port shows, beat the beat that a bus
\* delivers, as a sequence, taken whether the CPU takes the answer shown.
AfterEdge(d, t, beat, taken) ==
    LET fed == IF beat = <<>> THEN d ELSE BeatTaken(d, Head(beat))
        freed == IF taken THEN HandedOver(fed) ELSE fed
        given == IF t # None /\ CpuReady(d) THEN Accepted(freed, t) ELSE freed
        moved == IF given = d THEN Moves(d)
                 ELSE {given} \cup {Answered(g) : g \in {g \in {given} : MayAnswer(g)}}
    IN  {Unstalled(m) : m \in moved} \cup UNION {Stalled(m) : m \in moved \cup {given}}
=============================================================================
