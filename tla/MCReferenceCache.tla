-------------------------- MODULE MCReferenceCache --------------------------
(***************************************************************************)
(* Small instances of ReferenceCache for TLC.                              *)
(***************************************************************************)
EXTENDS ReferenceCacheProperties

CONSTANTS
    Lines,           \* lines that cached accesses reach, numbered from 0
    WrittenLines,    \* how many of them are written, too
    UncachedLines    \* lines after those, reached only by uncached accesses

MCAddrs == 0 .. (Lines + UncachedLines) * LineBytes - 1
MCByte == {0, 1}

Txn(op, addr, size, data, mask, uncached) ==
    [op |-> op, addr |-> addr, size |-> size,
     data |-> [i \in 0 .. size - 1 |-> data[i + 1]], mask |-> mask,
     uncached |-> uncached]

Read(base, uncached) == Txn("read", base, 2, <<0, 0>>, {0, 1}, uncached)

\* A full and a partial write, which differ in the byte they share.
FullWrite(base, uncached) == Txn("write", base, 2, <<1, 0>>, {0, 1}, uncached)
PartialWrite(base, uncached) == Txn("write", base, 2, <<0, 1>>, {1}, uncached)

Cached == {n * LineBytes : n \in 0 .. Lines - 1}
Written == {n * LineBytes : n \in 0 .. WrittenLines - 1}
Uncached == {n * LineBytes : n \in Lines .. Lines + UncachedLines - 1}

PlainTxns ==
    {Read(b, FALSE) : b \in Cached}
    \cup {FullWrite(b, FALSE) : b \in Written} \cup {PartialWrite(b, FALSE) : b \in Written}
    \cup {Read(b, TRUE) : b \in Uncached} \cup {PartialWrite(b, TRUE) : b \in Uncached}

\* An access that starts on the last byte of one line and ends in the next.
CrossLineTxns ==
    {Txn("read", LineBytes - 1, 2, <<0, 0>>, {0, 1}, FALSE),
     Txn("write", LineBytes - 1, 2, <<1, 1>>, {0, 1}, FALSE)}

EmptyMaskWrite == Txn("write", 0, 2, <<1, 1>>, {}, FALSE)

MCTxns == PlainTxns \cup CrossLineTxns \cup {EmptyMaskWrite}
=============================================================================
