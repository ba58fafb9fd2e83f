-------------------------- MODULE MCFaultDetection --------------------------
(***************************************************************************)
(* Small instances of FaultDetection for TLC.                              *)
(***************************************************************************)
EXTENDS FaultDetection, MCReferenceCache
=============================================================================
