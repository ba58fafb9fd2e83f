-------------------------- MODULE MCCacheRegression --------------------------
(***************************************************************************)
(* Small instances of CacheRegression for TLC.                             *)
(***************************************************************************)
EXTENDS CacheRegression, MCReferenceCache

\* CacheGenerator.random_txn makes any address uncached now and then, those of
\* cached accesses too.
AliasingTxns ==
    UNION {{FullWrite(b, FALSE), PartialWrite(b, FALSE), Read(b, FALSE), Read(b, TRUE)} :
           b \in Cached}
=============================================================================
