---------------------------- MODULE MCHardDelete ----------------------------
(***************************************************************************)
(* The worlds of MCConsolidation for deletions and snapshots.              *)
(***************************************************************************)
EXTENDS HardDelete, MCConsolidation

FactsOrChat == {"berlin", "moved", "chat"}
=============================================================================
