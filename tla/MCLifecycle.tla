---------------------------- MODULE MCLifecycle ----------------------------
(* Small instances of Lifecycle: two retention classes, one artifact that is *)
(* a directory.                                                              *)
EXTENDS Lifecycle

CONSTANTS Batch, Snapshot, Backup

ClassLifetime == [k \in Kinds |-> IF k = "raw" THEN 1 ELSE 2]
=============================================================================
