----------------------------- MODULE MemoryPort -----------------------------
(***************************************************************************)
(* What a cache with a memory behind it promises whoever drives its        *)
(* request port, without lines, ways, buses, bursts or cycles: a current   *)
(* value and a durable value of every place, and one request at a time.    *)
(* A request counts from the moment the port takes it; the answer to a     *)
(* read is current when it appears and stays until it is taken.  At any    *)
(* time, asked or not, places may be made durable as they currently are.   *)
(* A reset falls back to what is durable, or to a blank memory.  A port    *)
(* that is not patient may leave a request without an answer.              *)
(***************************************************************************)
CONSTANTS
    Places,
    Requests,
    Initial,         \* what the places may hold at first
    Blank,           \* what a reset may leave when it clears them
    After(_, _),     \* what the places hold after a request, a read too
    Reply(_, _),     \* what a request is answered from what they hold
    Patient          \* every request is waited for until it is answered

VARIABLES current, durable, port

portVars == <<current, durable, port>>

Free == [phase |-> "free"]
Asked(r) == [phase |-> "asked", request |-> r]
Answered(r, value) == [phase |-> "answered", request |-> r, value |-> value]

MayPutBack ==
    \E S \in SUBSET Places :
        durable' = [p \in Places |-> IF p \in S THEN current[p] ELSE durable[p]]

\* The answer may be there with the edge that takes the request.
Ask(r) ==
    /\ port = Free
    /\ current' = After(current, r)
    /\ port' \in {Asked(r), Answered(r, Reply(current', r))}
    /\ UNCHANGED durable

Serve(r) ==
    /\ port = Asked(r)
    /\ port' = Answered(r, Reply(current, r))
    /\ UNCHANGED <<current, durable>>

Take ==
    /\ port.phase = "answered"
    /\ port' = Free
    /\ UNCHANGED <<current, durable>>

PutBack == MayPutBack /\ UNCHANGED <<current, port>>

GiveUp ==
    /\ ~Patient
    /\ port.phase = "asked"
    /\ port' = Free
    /\ MayPutBack
    /\ UNCHANGED current

FallBack ==
    /\ port = Free
    /\ durable' \in {durable} \cup Blank
    /\ current' = durable'
    /\ UNCHANGED port

PortInit ==
    /\ durable \in Initial
    /\ current = durable
    /\ port = Free

PortNext ==
    \/ \E r \in Requests : Ask(r) \/ Serve(r)
    \/ Take \/ PutBack \/ GiveUp \/ FallBack

PortSpec == PortInit /\ [][PortNext]_portVars
=============================================================================
