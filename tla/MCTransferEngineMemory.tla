------------------------ MODULE MCTransferEngineMemory ------------------------
(***************************************************************************)
(* The instances of MCTransferEngine with the history of what tier 1 has   *)
(* forgotten.  In the settlement instance r1 and r2 are the same command   *)
(* under the same key, so they may be exchanged.                           *)
(***************************************************************************)
EXTENDS MCTransferEngine, TransferEngineMemory, TLC

SameCommand == Permutations({r1, r2})
=============================================================================
