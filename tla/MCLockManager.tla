--------------------------- MODULE MCLockManager ---------------------------
(* Small instances of LockManager: keys are interchangeable model values. *)
EXTENDS LockManager, TLC

KeySymmetry == Permutations(Key)

=============================================================================
