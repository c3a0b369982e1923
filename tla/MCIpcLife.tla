----------------------------- MODULE MCIpcLife -----------------------------
(***************************************************************************)
(* Instance of IpcLife for TLC: core 1 waits for acknowledgements, the DSP *)
(* does not.                                                               *)
(***************************************************************************)
EXTENDS IpcLife

MCPolite == {"cpu1"}
=============================================================================
