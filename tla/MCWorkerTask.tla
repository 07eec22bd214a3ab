---------------------------- MODULE MCWorkerTask ----------------------------
(***************************************************************************)
(* The tasks of MCTaskLeases at one end, the attempts of one machine at    *)
(* the other.                                                              *)
(***************************************************************************)
EXTENDS WorkerTask, MCTaskLeases
=============================================================================
