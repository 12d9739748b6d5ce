-------------------------- MODULE MCSnapshotWorker --------------------------
(***************************************************************************)
(* Small instances of SnapshotWorker.                                      *)
(***************************************************************************)
EXTENDS SnapshotWorker
=============================================================================
