------------------------- MODULE MCAlternativeModel -------------------------
\* The instances of MCReferenceCache, with the alternative model in step.
EXTENDS AlternativeModel, MCReferenceCache
=============================================================================
