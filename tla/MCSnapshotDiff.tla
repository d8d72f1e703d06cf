---------------------------- MODULE MCSnapshotDiff ----------------------------
(* Instances of SnapshotDiff for TLC.                                          *)
EXTENDS SnapshotDiff
=============================================================================
