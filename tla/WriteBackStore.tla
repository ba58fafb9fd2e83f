--------------------------- MODULE WriteBackStore ---------------------------
(***************************************************************************)
(* What a write-back cache promises the program above it, without sets,    *)
(* ways, tags or a replacement policy: a byte store with a current value   *)
(* and a durable value of every byte.  Loads return current bytes, stores  *)
(* change current bytes, and any access may make the current value of one  *)
(* line durable on the way.  A store may also go through to the durable    *)
(* value, and uncached accesses always do.  Only an access that touches    *)
(* more than one line may fail, and it then changes no current byte.  A    *)
(* reset falls back to the durable bytes.                                  *)
(***************************************************************************)
EXTENDS CacheAddress

CONSTANTS Addrs, Txns, None

VARIABLES
    current,   \* the value a load must return, per address
    durable,   \* the value that survives a reset, per address
    answer,    \* data of the last load, None after anything else
    failed     \* whether the last access failed

storeVars == <<current, durable, answer, failed>>

LoadBytes(t) == [i \in 0 .. t.size - 1 |-> current[t.addr + i]]

Merge(bytes, t) ==
    [a \in Addrs |-> IF a - t.addr \in t.mask THEN t.data[a - t.addr] ELSE bytes[a]]

\* The whole line at base becomes durable.
PutBack(base) ==
    [a \in Addrs |-> IF LineBase(a) = base THEN current[a] ELSE durable[a]]

MayPutBack ==
    \/ UNCHANGED durable
    \/ \E base \in Addrs : durable' = PutBack(base)

Load(t) ==
    /\ t.op = "read"
    /\ answer' = LoadBytes(t)
    /\ MayPutBack
    /\ failed' = FALSE
    /\ UNCHANGED current

StoreBack(t) ==
    /\ t.op = "write"
    /\ ~t.uncached
    /\ current' = Merge(current, t)
    /\ MayPutBack
    /\ answer' = None
    /\ failed' = FALSE

StoreThrough(t) ==
    /\ t.op = "write"
    /\ current' = Merge(current, t)
    /\ durable' = Merge(durable, t)
    /\ answer' = None
    /\ failed' = FALSE

Straddles(t) == \E i \in 0 .. t.size - 1 : LineBase(t.addr + i) # LineBase(t.addr)

Fail(t) ==
    /\ ~t.uncached
    /\ Straddles(t)
    /\ MayPutBack
    /\ answer' = None
    /\ failed' = TRUE
    /\ UNCHANGED current

FallBack ==
    /\ current' = durable
    /\ answer' = None
    /\ failed' = FALSE
    /\ UNCHANGED durable

StoreInit ==
    /\ current = [a \in Addrs |-> 0]
    /\ durable = current
    /\ answer = None
    /\ failed = FALSE

StoreNext ==
    \/ \E t \in Txns : Load(t) \/ StoreBack(t) \/ StoreThrough(t) \/ Fail(t)
    \/ FallBack

StoreSpec == StoreInit /\ [][StoreNext]_storeVars
=============================================================================
