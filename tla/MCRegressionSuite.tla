------------------------- MODULE MCRegressionSuite -------------------------
(***************************************************************************)
(* A small instance of RegressionSuite for TLC.                            *)
(***************************************************************************)
EXTENDS RegressionSuite

\* Three lines of set 0, in reach of random_txn, the first two of
\* weighted_stream and the last of implication_stream; then transactions no
\* method makes: one that crosses a line, one with an empty mask, an uncached one.
MCSample ==
    {ReadAt(0, 8), ReadAt(64, 8), ReadAt(4096, 8),
     WriteAt(14, 2, 1, Full(2)), WriteAt(4, 4, 2, {1}), WriteAt(64, 2, 1, {0}),
     [ReadAt(0, 4) EXCEPT !.mask = {}], [ReadAt(4096, 8) EXCEPT !.mask = {}],
     ReadAt(12, 8), WriteAt(12, 8, 1, Full(8)),
     WriteAt(0, 4, 3, {}), AsUncached(WriteAt(0, 4, 3, Full(4)))}

\* Reads and writes of the two lines that the clean write miss fills set 3 with.
MCEvidenceSample ==
    {ReadAt(48, 8), ReadAt(112, 8), WriteAt(48, 4, 1, {0, 2}), WriteAt(112, 8, 1, Full(8)),
     ReadAt(0, 1), AsUncached(ReadAt(0, 1)), ReadAt(60, 8)}

MCTxns ==
    MCSample \cup MCEvidenceSample \cup TxnsOf(SmokeStream) \cup TxnsOf(DirectedStream)
    \cup TxnsOf(ClosureStream) \cup TxnsOf(ReplacementSequence(0, TRUE))
    \cup UNION {TxnsOf(FaultStream(kind)) \cup TxnsOf(EvidenceFaultStream(kind)) :
                kind \in Faults}

\* The lines those touch.
MCLines ==
    {16 * n : n \in 0 .. 11} \cup {256, 384, 512, 576, 768, 4096, 8192, 12288, 20480, 20496,
                                   23552, 24576, 28672, 32768, 33024}
MCAddrs == UNION {base .. base + LineBytes - 1 : base \in MCLines}
MCByte == 0 .. 56

\* SuiteNeverFails assumes it, and here it holds.
ASSUME FixedStreamsAreSound
=============================================================================
