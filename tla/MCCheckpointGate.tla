-------------------------- MODULE MCCheckpointGate --------------------------
(* CheckpointGate with three threads and a log that is full at one record. *)
EXTENDS CheckpointGate

CONSTANTS t1, t2, t3

=============================================================================
