----------------------------- MODULE MCUncleManager -----------------------------
(***************************************************************************)
(* The universe of MCConsensus for the store and its uncle candidates.     *)
(***************************************************************************)
EXTENDS MCConsensus, UncleManager
=============================================================================
