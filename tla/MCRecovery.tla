----------------------------- MODULE MCRecovery -----------------------------
(* Recovery, for model checking. *)
EXTENDS Recovery

MCKey == 1..4
\* In the full left leaf: an update to a smaller value, and an insert that
\* splits it or just fits; in the other leaf, a deletion.
MCWrites == {<<2, 1>>, <<3, 1>>, <<4, Absent>>}
MCFewerWrites == {<<2, 1>>, <<3, 1>>}
MCOtherWrites == {<<3, 1>>, <<4, Absent>>}

\* After the last crash, what is on disk makes no difference.
MCView ==
    <<phase, mem, IF budget.crashes > 0 THEN <<disk, stolen, flushed>> ELSE <<>>, meta, dmeta,
      log, base, imaged, tx, next_, ckpt, nrec, junk, pos, commits, acked, budget>>

=============================================================================
