---------------------------- MODULE CacheAddress ----------------------------
(***************************************************************************)
(* The address arithmetic of ReferenceCache (reference_model.py): a byte   *)
(* address is split into a line base and an offset, and the line number    *)
(* into a set index and a tag.                                             *)
(***************************************************************************)
EXTENDS Integers

CONSTANTS
    Sets,        \* CacheParams.sets: number of cache sets
    LineBytes    \* CacheParams.line_bytes: bytes per cache line

\* CacheParams.__post_init__ rejects parameters that are not positive.
ASSUME SetsAssumption == Sets \in Nat \ {0}
ASSUME LineBytesAssumption == LineBytes \in Nat \ {0}

SetIds == 0 .. Sets - 1
Offsets == 0 .. LineBytes - 1

LineBase(a) == a - (a % LineBytes)
Offset(a) == a - LineBase(a)
SetIdx(a) == (a \div LineBytes) % Sets
Tag(a) == (a \div LineBytes) \div Sets
AddrFromTagSet(tag, s) == (tag * Sets + s) * LineBytes
=============================================================================
