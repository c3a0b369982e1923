------------------------------ MODULE MCIpcLib ------------------------------
(***************************************************************************)
(* An instance of IpcLib for TLC.  Threads and queues are interchangeable. *)
(***************************************************************************)
EXTENDS IpcLib, TLC

LibSymmetry == Permutations(Threads) \cup Permutations(Ids)
=============================================================================
