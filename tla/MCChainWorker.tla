---------------------------- MODULE MCChainWorker ----------------------------
(***************************************************************************)
(* Small instances of ChainWorker for TLC.                                  *)
(***************************************************************************)
EXTENDS ChainWorker

\* The validator misses, is jailed and comes back.
Downtime == {"signed", "missed", "jailed"}

\* It is jailed, tombstoned or both in turn.
Tombstoning == {"signed", "missed", "jailed", "tombstoned"}
=============================================================================
