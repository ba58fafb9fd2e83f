------------------------- MODULE MCRealCacheAdapter -------------------------
(***************************************************************************)
(* A small instance of RealCacheAdapter for TLC: two lines that compete    *)
(* for the device's one, and one word behind the MMIO bus.                 *)
(***************************************************************************)
EXTENDS RealCacheAdapter

MCWords == 0 .. 2 * Beats - 1
MCMmioWords == {2 * Beats}

Access(op, addr, data, mask) ==
    [op |-> op, addr |-> addr, data |-> [l \in Lanes |-> data], mask |-> mask,
     uncached |-> addr \in MCMmioWords]

\* A read and a partial write of the last word of a line, and a read of its first.
MCTxns ==
    {Access("read", a, 0, Lanes) : a \in {0, Beats - 1, 2 * Beats - 1, 2 * Beats}}
    \cup {Access("write", a, 1, {0}) : a \in {Beats - 1, 2 * Beats - 1, 2 * Beats}}
=============================================================================
