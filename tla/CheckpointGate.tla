--------------------------- MODULE CheckpointGate ---------------------------
(***************************************************************************)
(* How writers and checkpoints share a database handle (db.cc): the        *)
(* reader/writer latch checkpoint_mu_, the gate in front of it             *)
(* (pending_ckpts_, gate_mu_, gate_cv_), the count of begun transactions   *)
(* that stops a checkpoint from truncating the log, and the automatic      *)
(* checkpoint that a full log triggers.                                    *)
(*                                                                         *)
(* Every thread runs the public calls one after the other, for ever:       *)
(* autocommit writes, the Put, Commit and Abort of an explicit transaction *)
(* of its own, and Checkpoint.  Each atomic access, lock operation or wait *)
(* that another thread can observe is a step.  Key locks are left out: a   *)
(* transaction waits for them before it comes to the latch, holding none   *)
(* (LockManager).  The log is its length, in records, and the transactions *)
(* whose kBegin it still holds.  I/O does not fail here.                   *)
(***************************************************************************)
EXTENDS Naturals, FiniteSets

CONSTANTS
    Thread,       \* the threads that share the DB handle
    None,         \* "no thread": the owner of a free mutex
    max_wal_bytes \* Options::max_wal_bytes, counted in records

ASSUME ThreadAssumption == None \notin Thread /\ IsFiniteSet(Thread)
ASSUME WalAssumption == max_wal_bytes \in Nat \ {0}

VARIABLES
    pc,                 \* where each thread is
    op,                 \* the call each thread is executing
    pending_ckpts_,     \* checkpoints that have raised the gate
    gate_mu_,           \* owner of the mutex of the gate
    shared_,            \* shared holders of checkpoint_mu_
    excl_,              \* exclusive holder of checkpoint_mu_
    active_begun_txns_, \* the counter the checkpoint looks at
    begun_,             \* the threads whose transaction has logged kBegin
    inlog,              \* the transactions whose kBegin is in the log
    walsize             \* records in the log

latches == <<pending_ckpts_, gate_mu_, shared_, excl_>>
store == <<active_begun_txns_, begun_, inlog, walsize>>
vars == <<pc, op, latches, store>>

Op == {"none", "put", "txnput", "commit", "abort", "checkpoint", "auto"}

\* Where the call to AcquireWriterLatch can be.
AtGate == {"gate", "pred", "presleep", "parked"}
\* Where a thread has raised pending_ckpts_ and not lowered it yet.
Raised == {"xlock", "lower"}
PC == {"idle", "slock", "write", "size", "active", "raise",
       "notify", "decide", "truncate"} \cup AtGate \cup Raised

\* Bound: the length of the log saturates here, just above what WalStaysBounded
\* allows.
WalCap == max_wal_bytes + Cardinality(Thread)
Longer(n) == IF walsize + n > WalCap THEN WalCap ELSE walsize + n

Init ==
    /\ pc = [t \in Thread |-> "idle"]
    /\ op = [t \in Thread |-> "none"]
    /\ pending_ckpts_ = 0
    /\ gate_mu_ = None
    /\ shared_ = {}
    /\ excl_ = None
    /\ active_begun_txns_ = 0
    /\ begun_ = {}
    /\ inlog = {}
    /\ walsize = 0

Goto(t, at) == pc' = [pc EXCEPT ![t] = at]
Return(t) ==
    /\ pc' = [pc EXCEPT ![t] = "idle"]
    /\ op' = [op EXCEPT ![t] = "none"]

-----------------------------------------------------------------------------
(***************************************************************************)
(* A thread enters a public call, up to its first shared access: the load  *)
(* of pending_ckpts_ by AcquireWriterLatch, or the increment of            *)
(* AcquireCheckpointLatch.                                                 *)
(***************************************************************************)
Enter(t, o, at) ==
    /\ pc[t] = "idle"
    /\ op' = [op EXCEPT ![t] = o]
    /\ Goto(t, at)

\* Faulty variant: no gate; a writer goes straight for the latch.
NoGate == "slock"

PastPending == IF pending_ckpts_ # 0 THEN "gate" ELSE "slock"

\* A thread with an open transaction leaves autocommit writes to the others.
CallPut(t) ==
    /\ t \notin begun_
    /\ Enter(t, "put", PastPending)
    /\ UNCHANGED <<latches, store>>

CallTxnPut(t) ==
    /\ Enter(t, "txnput", PastPending)
    /\ UNCHANGED <<latches, store>>

\* The Commit of a transaction that wrote nothing logs nothing, but it too ends
\* with the automatic checkpoint.
CallCommit(t) ==
    /\ Enter(t, "commit", IF t \in begun_ THEN PastPending ELSE "size")
    /\ UNCHANGED <<latches, store>>

\* (The Abort of such a transaction touches nothing modelled here.)
CallAbort(t) ==
    /\ t \in begun_
    /\ Enter(t, "abort", PastPending)
    /\ UNCHANGED <<latches, store>>

CallCheckpoint(t) ==
    /\ Enter(t, "checkpoint", "xlock")
    /\ pending_ckpts_' = pending_ckpts_ + 1
    /\ UNCHANGED <<gate_mu_, shared_, excl_, store>>

-----------------------------------------------------------------------------
(* AcquireWriterLatch. *)

LockGate(t) ==
    /\ pc[t] = "gate"
    /\ gate_mu_ = None
    /\ gate_mu_' = t
    /\ Goto(t, "pred")
    /\ UNCHANGED <<op, pending_ckpts_, shared_, excl_, store>>

\* The predicate of the wait, evaluated with gate_mu_ held.
GatePredicate(t) ==
    /\ pc[t] = "pred"
    /\ IF pending_ckpts_ = 0
       THEN gate_mu_' = None /\ Goto(t, "slock")
       ELSE UNCHANGED gate_mu_ /\ Goto(t, "presleep")
    /\ UNCHANGED <<op, pending_ckpts_, shared_, excl_, store>>

\* The wait itself gives gate_mu_ up and sleeps in one step.  (A spurious wakeup
\* would only evaluate the predicate again; it is left out.)
Park(t) ==
    /\ pc[t] = "presleep"
    /\ gate_mu_' = None
    /\ Goto(t, "parked")
    /\ UNCHANGED <<op, pending_ckpts_, shared_, excl_, store>>

LockShared(t) ==
    /\ pc[t] = "slock"
    /\ excl_ = None
    /\ shared_' = shared_ \cup {t}
    /\ Goto(t, "write")
    /\ UNCHANGED <<op, pending_ckpts_, gate_mu_, excl_, store>>

-----------------------------------------------------------------------------
(* What the calls do with the latch held shared, up to its release. *)

Put(t) ==
    /\ op[t] = "put"
    /\ walsize' = Longer(1)
    /\ Goto(t, "size")
    /\ UNCHANGED <<op, active_begun_txns_, begun_, inlog>>

\* Faulty variant: the transaction is not counted.
TxnPutUncounted(t) ==
    /\ op[t] = "txnput"
    /\ begun_' = begun_ \cup {t}
    /\ inlog' = IF t \in begun_ THEN inlog ELSE inlog \cup {t}
    /\ walsize' = Longer(IF t \in begun_ THEN 1 ELSE 2)
    /\ Return(t)
    /\ UNCHANGED active_begun_txns_

\* EnsureBegun and the write share one hold.
TxnPut(t) ==
    /\ op[t] = "txnput"
    /\ begun_' = begun_ \cup {t}
    /\ inlog' = IF t \in begun_ THEN inlog ELSE inlog \cup {t}
    /\ active_begun_txns_' = active_begun_txns_ + (IF t \in begun_ THEN 0 ELSE 1)
    /\ walsize' = Longer(IF t \in begun_ THEN 1 ELSE 2)
    /\ Return(t)

Commit(t) ==
    /\ op[t] = "commit"
    /\ walsize' = Longer(1)
    /\ active_begun_txns_' = active_begun_txns_ - 1
    /\ begun_' = begun_ \ {t}
    /\ Goto(t, "size")
    /\ UNCHANGED <<op, inlog>>

\* Faulty variant: an aborted transaction stays in the count.
AbortKeepsCount(t) ==
    /\ op[t] = "abort"
    /\ walsize' = Longer(2)
    /\ begun_' = begun_ \ {t}
    /\ Return(t)
    /\ UNCHANGED <<active_begun_txns_, inlog>>

\* The inverse write and kAbort; no automatic checkpoint follows.
Abort(t) ==
    /\ op[t] = "abort"
    /\ walsize' = Longer(2)
    /\ active_begun_txns_' = active_begun_txns_ - 1
    /\ begun_' = begun_ \ {t}
    /\ Return(t)
    /\ UNCHANGED inlog

Write(t) ==
    /\ pc[t] = "write"
    /\ shared_' = shared_ \ {t}
    /\ Put(t) \/ TxnPut(t) \/ Commit(t) \/ Abort(t)
    /\ UNCHANGED <<pending_ckpts_, gate_mu_, excl_>>

-----------------------------------------------------------------------------
(* MaybeAutoCheckpoint, up to the latch. *)

\* Faulty variant: the threshold itself does not count as full.
AutoSizeOffByOne(t) ==
    /\ pc[t] = "size"
    /\ IF walsize <= max_wal_bytes
       THEN Return(t)
       ELSE Goto(t, "active") /\ UNCHANGED op
    /\ UNCHANGED <<latches, store>>

AutoSize(t) ==
    /\ pc[t] = "size"
    /\ IF walsize < max_wal_bytes
       THEN Return(t)
       ELSE Goto(t, "active") /\ UNCHANGED op
    /\ UNCHANGED <<latches, store>>

AutoActive(t) ==
    /\ pc[t] = "active"
    /\ IF active_begun_txns_ > 0
       THEN Return(t)
       ELSE Goto(t, "raise") /\ op' = [op EXCEPT ![t] = "auto"]
    /\ UNCHANGED <<latches, store>>

-----------------------------------------------------------------------------
(* AcquireCheckpointLatch and CheckpointLocked. *)

RaiseGate(t) ==
    /\ pc[t] = "raise"
    /\ pending_ckpts_' = pending_ckpts_ + 1
    /\ Goto(t, "xlock")
    /\ UNCHANGED <<op, gate_mu_, shared_, excl_, store>>

\* Faulty variant: the exclusive side does not wait for the shared holders.
LockExclusiveEarly(t) ==
    /\ pc[t] = "xlock"
    /\ excl_ = None
    /\ excl_' = t
    /\ Goto(t, "lower")
    /\ UNCHANGED <<op, pending_ckpts_, gate_mu_, shared_, store>>

LockExclusive(t) ==
    /\ pc[t] = "xlock"
    /\ shared_ = {} /\ excl_ = None
    /\ excl_' = t
    /\ Goto(t, "lower")
    /\ UNCHANGED <<op, pending_ckpts_, gate_mu_, shared_, store>>

\* Faulty variant: pending_ckpts_ is lowered without gate_mu_.
LowerGateUnlocked(t) ==
    /\ pc[t] = "lower"
    /\ pending_ckpts_' = pending_ckpts_ - 1
    /\ Goto(t, "notify")
    /\ UNCHANGED <<op, gate_mu_, shared_, excl_, store>>

\* Faulty variant: the gate is never lowered again.
LowerGateNever(t) ==
    /\ pc[t] = "lower"
    /\ gate_mu_ = None
    /\ Goto(t, "notify")
    /\ UNCHANGED <<op, latches, store>>

LowerGate(t) ==
    /\ pc[t] = "lower"
    /\ gate_mu_ = None
    /\ pending_ckpts_' = pending_ckpts_ - 1
    /\ Goto(t, "notify")
    /\ UNCHANGED <<op, gate_mu_, shared_, excl_, store>>

\* notify_all; an automatic checkpoint then looks at the log again, and
\* returns if another thread has truncated it in the meantime.
NotifyGate(t) ==
    /\ pc[t] = "notify"
    /\ LET done == op[t] = "auto" /\ walsize < max_wal_bytes
       IN  /\ pc' = [u \in Thread |->
                        IF u = t THEN IF done THEN "idle" ELSE "decide"
                        ELSE IF pc[u] = "parked" THEN "gate" ELSE pc[u]]
           /\ op' = [op EXCEPT ![t] = IF done THEN "none" ELSE @]
           /\ excl_' = IF done THEN None ELSE excl_
    /\ UNCHANGED <<pending_ckpts_, gate_mu_, shared_, store>>

\* Log and pages are flushed whatever happens; the log is kept while a begun
\* transaction has not ended.
Decide(t) ==
    /\ pc[t] = "decide"
    /\ IF active_begun_txns_ > 0
       THEN excl_' = None /\ Return(t)
       ELSE Goto(t, "truncate") /\ UNCHANGED <<op, excl_>>
    /\ UNCHANGED <<pending_ckpts_, gate_mu_, shared_, store>>

Truncate(t) ==
    /\ pc[t] = "truncate"
    /\ walsize' = 0
    /\ inlog' = {}
    /\ excl_' = None
    /\ Return(t)
    /\ UNCHANGED <<pending_ckpts_, gate_mu_, shared_,
                   active_begun_txns_, begun_>>

-----------------------------------------------------------------------------
Start(t) ==
    CallPut(t) \/ CallTxnPut(t) \/ CallCommit(t) \/ CallAbort(t) \/ CallCheckpoint(t)

\* The steps of a call that has been entered.
Continue(t) ==
    \/ LockGate(t) \/ GatePredicate(t) \/ Park(t)
    \/ LockShared(t) \/ Write(t)
    \/ AutoSize(t) \/ AutoActive(t)
    \/ RaiseGate(t) \/ LockExclusive(t) \/ LowerGate(t) \/ NotifyGate(t)
    \/ Decide(t) \/ Truncate(t)

Next == \E t \in Thread : Start(t) \/ Continue(t)

Spec == Init /\ [][Next]_vars

(***************************************************************************)
(* A thread that can run does run, and a lock that stays free is taken;    *)
(* std::shared_mutex and std::mutex promise no more than that.  Nobody is  *)
(* obliged to make a call, so an open transaction may stay open for ever.  *)
(***************************************************************************)
FairSpec == Spec /\ \A t \in Thread : WF_vars(Continue(t))

-----------------------------------------------------------------------------
(* Properties. *)

\* Every variable has its type.
TypeOK ==
    /\ pc \in [Thread -> PC]
    /\ op \in [Thread -> Op]
    /\ pending_ckpts_ \in Nat
    /\ gate_mu_ \in Thread \cup {None}
    /\ shared_ \subseteq Thread
    /\ excl_ \in Thread \cup {None}
    /\ active_begun_txns_ \in Nat
    /\ begun_ \subseteq Thread
    /\ inlog \subseteq Thread
    /\ walsize \in 0..WalCap

\* A checkpoint never runs while a write is mid-flight (db.cc:107-109): while
\* a thread is between the acquisition and the release of the exclusive side,
\* no other thread is inside a write or a checkpoint.
CheckpointRunsAlone ==
    \A t, u \in Thread :
        /\ t # u
        /\ pc[t] \in {"lower", "notify", "decide", "truncate"}
        => pc[u] \notin {"write", "lower", "notify", "decide", "truncate"}

\* pending_ckpts_ is nonzero only while a thread that raised it is still
\* waiting for the latch or has just got it: the gate always reopens.
GateIsHeldUpBySomeone ==
    pending_ckpts_ > 0 => \E t \in Thread : pc[t] \in Raised

\* No lost wakeup: while a writer sleeps at the gate, some checkpoint has yet
\* to call notify_all.
ParkedWriterWillBeNotified ==
    (\E t \in Thread : pc[t] = "parked") =>
        \E u \in Thread : pc[u] \in Raised \cup {"notify"}

\* The log holds the kBegin of every transaction that has begun and not ended,
\* so a crash can still roll it back (db.cc:280-289): the counter a checkpoint
\* reads is never zero when it must not be.
LogKeepsBegunTransactions == begun_ \subseteq inlog

\* When no transaction is open, the counter is back at zero: the next
\* checkpoint truncates the log.
IdleHandleCanTruncate == begun_ = {} => active_begun_txns_ = 0

\* Autocommit writers cannot outrun the automatic checkpoint: the log passes
\* the threshold by at most one record per thread.
WalStaysBounded ==
    inlog = {} => walsize < max_wal_bytes + Cardinality(Thread)

\* db.cc:279-281 on a checkpoint that could not truncate: "the transaction's own
\* Commit/Abort re-triggers the auto-checkpoint and truncates then".  When all
\* calls have returned and no transaction is open, the log is short again.
QuietLogIsShort ==
    (\A t \in Thread : pc[t] = "idle") /\ begun_ = {} => walsize < max_wal_bytes

\* However the writers keep coming, a waiting checkpoint ends with a
\* checkpoint that holds the latch (db.cc:206-213).
WritersCannotStarveCheckpoints ==
    (\E t \in Thread : pc[t] = "xlock") ~> excl_ # None

\* A writer parked at the gate does not sleep for ever.
ParkedWriterWakes ==
    \A t \in Thread : pc[t] = "parked" ~> pc[t] # "parked"

=============================================================================
