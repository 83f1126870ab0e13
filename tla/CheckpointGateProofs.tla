------------------------ MODULE CheckpointGateProofs ------------------------
(***************************************************************************)
(* Proofs about CheckpointGate for any finite set of threads and any size  *)
(* of the log.  The inductive invariant ties the two counters to the sets  *)
(* they count, the latches to the places where a thread holds them, and    *)
(* says that the gate cannot be lowered between the evaluation of the wait *)
(* predicate and the sleep.                                                *)
(***************************************************************************)
EXTENDS CheckpointGate, FiniteSetTheorems, TLAPS

RaisedSet == {t \in Thread : pc[t] \in Raised}

\* Where a thread holds checkpoint_mu_ exclusively.
Exclusive == {"lower", "notify", "decide", "truncate"}

\* The counters count.
CountersExact ==
    /\ pending_ckpts_ = Cardinality(RaisedSet)
    /\ active_begun_txns_ = Cardinality(begun_)

\* The latches are held where the code says they are.
LatchesHeld ==
    /\ \A t \in Thread : pc[t] \in {"pred", "presleep"} => gate_mu_ = t
    /\ \A t \in Thread : pc[t] = "write" <=> t \in shared_
    /\ \A t \in Thread : pc[t] \in Exclusive <=> excl_ = t
    /\ excl_ # None => shared_ = {}

\* A writer that has found the gate up and not yet gone to sleep still finds it
\* up: it holds gate_mu_.
GateUpBeforeSleep ==
    (\E t \in Thread : pc[t] = "presleep") => RaisedSet # {}

\* Commit and Abort are only on their way for a transaction that has begun.
EndsBegun ==
    \A t \in Thread :
        pc[t] \in AtGate \cup {"slock", "write"} /\ op[t] \in {"commit", "abort"} => t \in begun_

\* A checkpoint that has decided to truncate still sees no begun transaction.
TruncatesIdle ==
    \A t \in Thread : pc[t] = "truncate" => begun_ = {}

IInv ==
    /\ TypeOK
    /\ CountersExact
    /\ LatchesHeld
    /\ GateUpBeforeSleep
    /\ ParkedWriterWillBeNotified
    /\ EndsBegun
    /\ TruncatesIdle
    /\ LogKeepsBegunTransactions

-----------------------------------------------------------------------------
(* Lemmas about the counters and the length of the log. *)

\* The bound on the log is a number.
LEMMA WalCapType == WalCap \in Nat
  BY ThreadAssumption, WalAssumption, FS_CardinalityType DEF WalCap

\* An append keeps the length of the log within its bound.
LEMMA LongerType ==
    ASSUME TypeOK, NEW n \in Nat
    PROVE  Longer(n) \in 0..WalCap
  BY WalCapType DEF TypeOK, Longer

\* What the counters count is finite.
LEMMA CountedFinite ==
    ASSUME TypeOK
    PROVE  IsFiniteSet(RaisedSet) /\ IsFiniteSet(begun_)
  <1>1. RaisedSet \subseteq Thread /\ begun_ \subseteq Thread
    BY DEF RaisedSet, TypeOK
  <1>2. QED
    BY <1>1, ThreadAssumption, FS_Subset

\* A step that moves no thread into or out of Raised keeps the set.
LEMMA SameRaised ==
    ASSUME \A u \in Thread : pc'[u] \in Raised <=> pc[u] \in Raised
    PROVE  RaisedSet' = RaisedSet
  BY DEF RaisedSet

\* The initial state satisfies the inductive invariant.
LEMMA InitIInv == Init => IInv
  <1> SUFFICES ASSUME Init PROVE IInv
    OBVIOUS
  <1>1. TypeOK
    BY WalCapType DEF Init, TypeOK, PC, Op, AtGate, Raised
  <1>2. RaisedSet = {}
    BY DEF Init, RaisedSet, Raised
  <1>3. CountersExact
    BY <1>2, FS_EmptySet DEF Init, CountersExact
  <1>4. LatchesHeld
    BY ThreadAssumption DEF Init, LatchesHeld, Exclusive
  <1>5. /\ GateUpBeforeSleep /\ ParkedWriterWillBeNotified
        /\ EndsBegun /\ TruncatesIdle /\ LogKeepsBegunTransactions
    BY DEF Init, GateUpBeforeSleep, ParkedWriterWillBeNotified, EndsBegun,
           TruncatesIdle, LogKeepsBegunTransactions, AtGate
  <1>6. QED
    BY <1>1, <1>3, <1>4, <1>5 DEF IInv

-----------------------------------------------------------------------------
(* One lemma per action. *)

\* A call that goes for the writer latch (the gate, if it is up, or the latch),
\* or the commit of a transaction that wrote nothing.
LEMMA WriterCallIInv ==
    ASSUME IInv, NEW t \in Thread,
           CallPut(t) \/ CallTxnPut(t) \/ CallCommit(t) \/ CallAbort(t)
    PROVE  IInv'
  <1>1. PICK o \in Op \ {"none"}, at \in {"gate", "slock", "size"} :
            /\ o \in {"commit", "abort"} => t \in begun_ \/ at = "size"
            /\ Enter(t, o, at)
            /\ UNCHANGED <<latches, store>>
    <2>1. PastPending \in {"gate", "slock"}
      BY DEF PastPending
    <2>2. QED
      BY <2>1 DEF CallPut, CallTxnPut, CallCommit, CallAbort, Op
  <1>2. /\ pc[t] = "idle"
        /\ pc' = [pc EXCEPT ![t] = at] /\ op' = [op EXCEPT ![t] = o]
        /\ UNCHANGED <<pending_ckpts_, gate_mu_, shared_, excl_>>
        /\ UNCHANGED <<active_begun_txns_, begun_, inlog, walsize>>
    BY <1>1 DEF Enter, Goto, latches, store
  <1>3. TypeOK'
    BY <1>2 DEF IInv, TypeOK, PC, AtGate
  <1>4. RaisedSet' = RaisedSet
    BY <1>2, SameRaised DEF IInv, TypeOK, Raised
  <1>5. CountersExact'
    BY <1>2, <1>4 DEF IInv, CountersExact
  <1>6. LatchesHeld'
    BY <1>2 DEF IInv, TypeOK, LatchesHeld, Exclusive
  <1>7. GateUpBeforeSleep'
    BY <1>2, <1>4 DEF IInv, TypeOK, GateUpBeforeSleep
  <1>8. ParkedWriterWillBeNotified'
    BY <1>2 DEF IInv, TypeOK, ParkedWriterWillBeNotified, Raised
  <1>9. EndsBegun'
    BY <1>1, <1>2 DEF IInv, TypeOK, EndsBegun, AtGate
  <1>10. TruncatesIdle' /\ LogKeepsBegunTransactions'
    BY <1>2 DEF IInv, TypeOK, TruncatesIdle, LogKeepsBegunTransactions
  <1>11. QED
    BY <1>3, <1>5, <1>6, <1>7, <1>8, <1>9, <1>10 DEF IInv

\* A checkpoint, called or automatic, raises the gate.
LEMMA RaiseIInv ==
    ASSUME IInv, NEW t \in Thread, CallCheckpoint(t) \/ RaiseGate(t)
    PROVE  IInv'
  <1>1. /\ pc[t] \in {"idle", "raise"} /\ pc' = [pc EXCEPT ![t] = "xlock"]
        /\ op' \in {op, [op EXCEPT ![t] = "checkpoint"]}
        /\ pending_ckpts_' = pending_ckpts_ + 1
        /\ UNCHANGED <<gate_mu_, shared_, excl_>>
        /\ UNCHANGED <<active_begun_txns_, begun_, inlog, walsize>>
    BY DEF CallCheckpoint, RaiseGate, Enter, Goto, store
  <1>2. TypeOK'
    BY <1>1 DEF IInv, TypeOK, PC, Op, Raised
  <1>3. RaisedSet' = RaisedSet \cup {t} /\ t \notin RaisedSet
    BY <1>1 DEF IInv, TypeOK, RaisedSet, Raised
  <1>4. CountersExact'
    BY <1>1, <1>3, CountedFinite, FS_AddElement DEF IInv, CountersExact
  <1>5. LatchesHeld'
    BY <1>1 DEF IInv, TypeOK, LatchesHeld, Exclusive
  <1>6. GateUpBeforeSleep'
    BY <1>3 DEF GateUpBeforeSleep
  <1>7. ParkedWriterWillBeNotified'
    BY <1>1 DEF IInv, TypeOK, ParkedWriterWillBeNotified, Raised
  <1>8. EndsBegun'
    BY <1>1 DEF IInv, TypeOK, EndsBegun, AtGate
  <1>9. TruncatesIdle' /\ LogKeepsBegunTransactions'
    BY <1>1 DEF IInv, TypeOK, TruncatesIdle, LogKeepsBegunTransactions
  <1>10. QED
    BY <1>2, <1>4, <1>5, <1>6, <1>7, <1>8, <1>9 DEF IInv

\* The writer's way through the gate.  A writer goes on to sleep only if the
\* counter is not zero, so that some thread is in Raised.
LEMMA GateIInv ==
    ASSUME IInv, NEW t \in Thread, LockGate(t) \/ GatePredicate(t) \/ Park(t)
    PROVE  IInv'
  <1>1. PICK at \in {"pred", "slock", "presleep", "parked"} :
            /\ pc[t] \in {"gate", "pred", "presleep"}
            /\ pc' = [pc EXCEPT ![t] = at]
            /\ UNCHANGED <<op, pending_ckpts_, shared_, excl_>>
            /\ UNCHANGED <<active_begun_txns_, begun_, inlog, walsize>>
    BY DEF LockGate, GatePredicate, Park, Goto, store
  <1>2. gate_mu_' \in {gate_mu_, t, None}
    BY DEF LockGate, GatePredicate, Park
  <1>3. TypeOK'
    BY <1>1, <1>2 DEF IInv, TypeOK, PC, AtGate
  <1>4. RaisedSet' = RaisedSet
    BY <1>1, SameRaised DEF IInv, TypeOK, Raised
  <1>5. CountersExact'
    BY <1>1, <1>4 DEF IInv, CountersExact
  <1>6. LatchesHeld'
    <2>1. \A u \in Thread : pc'[u] \in {"pred", "presleep"} => gate_mu_' = u
      <3>1. CASE LockGate(t)
        BY <3>1, ThreadAssumption DEF IInv, TypeOK, LatchesHeld, LockGate, Goto
      <3>2. CASE GatePredicate(t)
        BY <3>2 DEF IInv, TypeOK, LatchesHeld, GatePredicate, Goto
      <3>3. CASE Park(t)
        BY <3>3 DEF IInv, TypeOK, LatchesHeld, Park, Goto
      <3>4. QED
        BY <3>1, <3>2, <3>3
    <2>2. QED
      BY <1>1, <2>1 DEF IInv, TypeOK, LatchesHeld, Exclusive
  <1>7. GateUpBeforeSleep'
    <2>1. CASE GatePredicate(t) /\ pending_ckpts_ # 0
      BY <1>4, <2>1, FS_EmptySet DEF IInv, CountersExact, GateUpBeforeSleep
    <2>2. CASE ~(GatePredicate(t) /\ pending_ckpts_ # 0)
      BY <1>4, <2>2 DEF IInv, TypeOK, GateUpBeforeSleep, LockGate, GatePredicate, Park, Goto
    <2>3. QED
      BY <2>1, <2>2
  <1>8. ParkedWriterWillBeNotified'
    <2>1. CASE Park(t)
      <3>1. PICK u \in Thread : pc[u] \in Raised
        BY <2>1 DEF IInv, GateUpBeforeSleep, Park, RaisedSet
      <3>2. pc'[u] \in Raised
        BY <2>1, <3>1 DEF IInv, TypeOK, Park, Goto, Raised
      <3>3. QED
        BY <3>2 DEF ParkedWriterWillBeNotified
    <2>2. CASE LockGate(t) \/ GatePredicate(t)
      BY <2>2 DEF IInv, TypeOK, ParkedWriterWillBeNotified, LockGate, GatePredicate, Goto, Raised
    <2>3. QED
      BY <2>1, <2>2
  <1>9. EndsBegun'
    BY <1>1 DEF IInv, TypeOK, EndsBegun, AtGate
  <1>10. TruncatesIdle' /\ LogKeepsBegunTransactions'
    BY <1>1 DEF IInv, TypeOK, TruncatesIdle, LogKeepsBegunTransactions
  <1>11. QED
    BY <1>3, <1>5, <1>6, <1>7, <1>8, <1>9, <1>10 DEF IInv

\* A writer takes the shared side of the latch.
LEMMA LockSharedIInv ==
    ASSUME IInv, NEW t \in Thread, LockShared(t)
    PROVE  IInv'
  <1>1. /\ pc[t] = "slock" /\ excl_ = None /\ shared_' = shared_ \cup {t}
        /\ pc' = [pc EXCEPT ![t] = "write"]
        /\ UNCHANGED <<op, pending_ckpts_, gate_mu_, excl_>>
        /\ UNCHANGED <<active_begun_txns_, begun_, inlog, walsize>>
    BY DEF LockShared, Goto, store
  <1>2. TypeOK'
    BY <1>1 DEF IInv, TypeOK, PC
  <1>3. RaisedSet' = RaisedSet
    BY <1>1, SameRaised DEF IInv, TypeOK, Raised
  <1>4. CountersExact' /\ GateUpBeforeSleep'
    BY <1>1, <1>3 DEF IInv, TypeOK, CountersExact, GateUpBeforeSleep
  <1>5. LatchesHeld'
    BY <1>1 DEF IInv, TypeOK, LatchesHeld, Exclusive
  <1>6. ParkedWriterWillBeNotified'
    BY <1>1 DEF IInv, TypeOK, ParkedWriterWillBeNotified, Raised
  <1>7. EndsBegun' /\ TruncatesIdle' /\ LogKeepsBegunTransactions'
    BY <1>1 DEF IInv, TypeOK, EndsBegun, AtGate, TruncatesIdle, LogKeepsBegunTransactions
  <1>8. QED
    BY <1>2, <1>4, <1>5, <1>6, <1>7 DEF IInv

\* What a writer does with the latch held shared.  Nobody is at "truncate"
\* meanwhile: the exclusive side is free.
LEMMA WriteIInv ==
    ASSUME IInv, NEW t \in Thread, Write(t)
    PROVE  IInv'
  <1>1. PICK at \in {"size", "idle"}, o \in {op[t], "none"} :
            /\ pc' = [pc EXCEPT ![t] = at]
            /\ op' = [op EXCEPT ![t] = o]
    BY DEF Write, Put, TxnPut, Commit, Abort, Goto, Return, IInv, TypeOK
  <1>2. /\ pc[t] = "write" /\ shared_' = shared_ \ {t}
        /\ UNCHANGED <<pending_ckpts_, gate_mu_, excl_>>
    BY DEF Write
  <1>3. /\ begun_' \in {begun_, begun_ \cup {t}, begun_ \ {t}}
        /\ inlog' \in {inlog, inlog \cup {t}}
        /\ begun_' \subseteq inlog'
    BY DEF Write, Put, TxnPut, Commit, Abort, IInv, LogKeepsBegunTransactions
  <1>4. walsize' \in 0..WalCap
    <2>1. \E n \in Nat : walsize' = Longer(n)
      BY DEF Write, Put, TxnPut, Commit, Abort
    <2>2. QED
      BY <2>1, LongerType DEF IInv
  <1>5. active_begun_txns_' = Cardinality(begun_') /\ active_begun_txns_' \in Nat
    <2>1. /\ IsFiniteSet(begun_) /\ active_begun_txns_ = Cardinality(begun_)
          /\ active_begun_txns_ \in Nat
      BY CountedFinite DEF IInv, TypeOK, CountersExact
    <2>2. CASE Put(t)
      BY <2>1, <2>2 DEF Put
    <2>3. CASE TxnPut(t)
      BY <2>1, <2>3, FS_AddElement DEF TxnPut
    <2>4. CASE Commit(t) \/ Abort(t)
      <3>1. t \in begun_
        BY <1>2, <2>4 DEF Commit, Abort, IInv, EndsBegun
      <3>2. /\ begun_' = begun_ \ {t} /\ active_begun_txns_' = active_begun_txns_ - 1
        BY <2>4 DEF Commit, Abort
      <3>3. /\ IsFiniteSet(begun_') /\ Cardinality(begun_') = Cardinality(begun_) - 1
        BY <2>1, <3>1, <3>2, FS_RemoveElement
      <3>4. QED
        BY <2>1, <3>2, <3>3, FS_CardinalityType
    <2>5. QED
      BY <2>2, <2>3, <2>4 DEF Write
  <1>6. TypeOK'
    BY <1>1, <1>2, <1>3, <1>4, <1>5 DEF IInv, TypeOK, PC, Op
  <1>7. RaisedSet' = RaisedSet
    BY <1>1, <1>2, SameRaised DEF IInv, TypeOK, Raised
  <1>8. CountersExact' /\ GateUpBeforeSleep'
    BY <1>1, <1>2, <1>5, <1>7 DEF IInv, TypeOK, CountersExact, GateUpBeforeSleep
  <1>9. LatchesHeld'
    BY <1>1, <1>2 DEF IInv, TypeOK, LatchesHeld, Exclusive
  <1>10. ParkedWriterWillBeNotified'
    BY <1>1, <1>2 DEF IInv, TypeOK, ParkedWriterWillBeNotified, Raised
  <1>11. EndsBegun'
    BY <1>1, <1>2, <1>3 DEF IInv, TypeOK, EndsBegun, AtGate
  <1>12. TruncatesIdle'
    <2>1. \A u \in Thread : pc[u] # "truncate"
      BY <1>2, ThreadAssumption DEF IInv, TypeOK, LatchesHeld, Exclusive
    <2>2. QED
      BY <1>1, <2>1 DEF IInv, TypeOK, TruncatesIdle
  <1>13. QED
    BY <1>3, <1>6, <1>8, <1>9, <1>10, <1>11, <1>12 DEF IInv, LogKeepsBegunTransactions

\* The two looks of MaybeAutoCheckpoint, with no latch held.
LEMMA AutoIInv ==
    ASSUME IInv, NEW t \in Thread, AutoSize(t) \/ AutoActive(t)
    PROVE  IInv'
  <1>1. PICK at \in {"idle", "active", "raise"}, o \in {op[t], "none", "auto"} :
            /\ pc' = [pc EXCEPT ![t] = at]
            /\ op' = [op EXCEPT ![t] = o]
    BY DEF AutoSize, AutoActive, Goto, Return, IInv, TypeOK
  <1>2. /\ pc[t] \in {"size", "active"}
        /\ UNCHANGED <<pending_ckpts_, gate_mu_, shared_, excl_>>
        /\ UNCHANGED <<active_begun_txns_, begun_, inlog, walsize>>
    BY DEF AutoSize, AutoActive, latches, store
  <1>3. TypeOK'
    BY <1>1, <1>2 DEF IInv, TypeOK, PC, Op
  <1>4. RaisedSet' = RaisedSet
    BY <1>1, <1>2, SameRaised DEF IInv, TypeOK, Raised
  <1>5. CountersExact' /\ GateUpBeforeSleep'
    BY <1>1, <1>2, <1>4 DEF IInv, TypeOK, CountersExact, GateUpBeforeSleep
  <1>6. LatchesHeld'
    BY <1>1, <1>2 DEF IInv, TypeOK, LatchesHeld, Exclusive
  <1>7. ParkedWriterWillBeNotified'
    BY <1>1, <1>2 DEF IInv, TypeOK, ParkedWriterWillBeNotified, Raised
  <1>8. EndsBegun' /\ TruncatesIdle' /\ LogKeepsBegunTransactions'
    BY <1>1, <1>2 DEF IInv, TypeOK, EndsBegun, AtGate, TruncatesIdle, LogKeepsBegunTransactions
  <1>9. QED
    BY <1>3, <1>5, <1>6, <1>7, <1>8 DEF IInv

\* The checkpoint takes the exclusive side.
LEMMA LockExclusiveIInv ==
    ASSUME IInv, NEW t \in Thread, LockExclusive(t)
    PROVE  IInv'
  <1>1. /\ pc[t] = "xlock" /\ shared_ = {} /\ excl_ = None /\ excl_' = t
        /\ pc' = [pc EXCEPT ![t] = "lower"]
        /\ UNCHANGED <<op, pending_ckpts_, gate_mu_, shared_>>
        /\ UNCHANGED <<active_begun_txns_, begun_, inlog, walsize>>
    BY DEF LockExclusive, Goto, store
  <1>2. TypeOK'
    BY <1>1 DEF IInv, TypeOK, PC, Raised
  <1>3. RaisedSet' = RaisedSet
    BY <1>1, SameRaised DEF IInv, TypeOK, Raised
  <1>4. CountersExact' /\ GateUpBeforeSleep'
    BY <1>1, <1>3 DEF IInv, TypeOK, CountersExact, GateUpBeforeSleep
  <1>5. LatchesHeld'
    BY <1>1, ThreadAssumption DEF IInv, TypeOK, LatchesHeld, Exclusive
  <1>6. ParkedWriterWillBeNotified'
    BY <1>1 DEF IInv, TypeOK, ParkedWriterWillBeNotified, Raised
  <1>7. EndsBegun' /\ TruncatesIdle' /\ LogKeepsBegunTransactions'
    BY <1>1 DEF IInv, TypeOK, EndsBegun, AtGate, TruncatesIdle, LogKeepsBegunTransactions
  <1>8. QED
    BY <1>2, <1>4, <1>5, <1>6, <1>7 DEF IInv

\* The gate comes down with gate_mu_ free, so no writer is between its look at
\* the counter and its sleep; the thread that lowers it has yet to notify.
LEMMA LowerGateIInv ==
    ASSUME IInv, NEW t \in Thread, LowerGate(t)
    PROVE  IInv'
  <1>1. /\ pc[t] = "lower" /\ gate_mu_ = None
        /\ pending_ckpts_' = pending_ckpts_ - 1
        /\ pc' = [pc EXCEPT ![t] = "notify"]
        /\ UNCHANGED <<op, gate_mu_, shared_, excl_>>
        /\ UNCHANGED <<active_begun_txns_, begun_, inlog, walsize>>
    BY DEF LowerGate, Goto, store
  <1>2. RaisedSet' = RaisedSet \ {t} /\ t \in RaisedSet
    BY <1>1 DEF IInv, TypeOK, RaisedSet, Raised
  <1>3. pending_ckpts_' = Cardinality(RaisedSet') /\ pending_ckpts_' \in Nat
    <2>1. /\ IsFiniteSet(RaisedSet') /\ Cardinality(RaisedSet') = Cardinality(RaisedSet) - 1
      BY <1>2, CountedFinite, FS_RemoveElement DEF IInv
    <2>2. QED
      BY <1>1, <2>1, FS_CardinalityType DEF IInv, CountersExact
  <1>4. TypeOK'
    BY <1>1, <1>3 DEF IInv, TypeOK, PC
  <1>5. CountersExact'
    BY <1>1, <1>3 DEF IInv, CountersExact
  <1>6. LatchesHeld'
    BY <1>1 DEF IInv, TypeOK, LatchesHeld, Exclusive
  <1>7. GateUpBeforeSleep'
    BY <1>1, ThreadAssumption DEF IInv, TypeOK, LatchesHeld, GateUpBeforeSleep
  <1>8. ParkedWriterWillBeNotified'
    BY <1>1 DEF IInv, TypeOK, ParkedWriterWillBeNotified
  <1>9. EndsBegun' /\ TruncatesIdle' /\ LogKeepsBegunTransactions'
    BY <1>1 DEF IInv, TypeOK, EndsBegun, AtGate, TruncatesIdle, LogKeepsBegunTransactions
  <1>10. QED
    BY <1>4, <1>5, <1>6, <1>7, <1>8, <1>9 DEF IInv

\* notify_all leaves nobody parked.
LEMMA NotifyGateIInv ==
    ASSUME IInv, NEW t \in Thread, NotifyGate(t)
    PROVE  IInv'
  <1>1. PICK at \in {"idle", "decide"}, o \in {op[t], "none"} :
            /\ pc' = [u \in Thread |-> IF u = t THEN at
                                       ELSE IF pc[u] = "parked" THEN "gate" ELSE pc[u]]
            /\ op' = [op EXCEPT ![t] = o]
            /\ excl_' = IF at = "idle" THEN None ELSE excl_
    BY DEF NotifyGate
  <1>2. /\ pc[t] = "notify"
        /\ UNCHANGED <<pending_ckpts_, gate_mu_, shared_>>
        /\ UNCHANGED <<active_begun_txns_, begun_, inlog, walsize>>
    BY DEF NotifyGate, store
  <1>3. TypeOK'
    BY <1>1, <1>2 DEF IInv, TypeOK, PC, Op, AtGate
  <1>4. RaisedSet' = RaisedSet
    BY <1>1, <1>2, SameRaised DEF IInv, TypeOK, Raised
  <1>5. CountersExact' /\ GateUpBeforeSleep'
    BY <1>1, <1>2, <1>4 DEF IInv, TypeOK, CountersExact, GateUpBeforeSleep
  <1>6. LatchesHeld'
    BY <1>1, <1>2, ThreadAssumption DEF IInv, TypeOK, LatchesHeld, Exclusive
  <1>7. ParkedWriterWillBeNotified'
    BY <1>1 DEF ParkedWriterWillBeNotified
  <1>8. EndsBegun' /\ TruncatesIdle' /\ LogKeepsBegunTransactions'
    BY <1>1, <1>2 DEF IInv, TypeOK, EndsBegun, AtGate, TruncatesIdle, LogKeepsBegunTransactions
  <1>9. QED
    BY <1>3, <1>5, <1>6, <1>7, <1>8 DEF IInv

\* The decision to truncate is taken on a counter that is exact, and the
\* truncation follows under the same hold of the latch.
LEMMA CheckpointLockedIInv ==
    ASSUME IInv, NEW t \in Thread, Decide(t) \/ Truncate(t)
    PROVE  IInv'
  <1>1. PICK at \in {"idle", "truncate"}, o \in {op[t], "none"} :
            /\ pc' = [pc EXCEPT ![t] = at]
            /\ op' = [op EXCEPT ![t] = o]
            /\ excl_' = IF at = "idle" THEN None ELSE excl_
            /\ at = "truncate" => Decide(t) /\ ~(active_begun_txns_ > 0)
    BY DEF Decide, Truncate, Goto, Return, IInv, TypeOK
  <1>2. /\ pc[t] \in {"decide", "truncate"}
        /\ UNCHANGED <<pending_ckpts_, gate_mu_, shared_, active_begun_txns_, begun_>>
    BY DEF Decide, Truncate, store
  <1>3. walsize' \in {walsize, 0} /\ inlog' \in {inlog, {}}
    BY DEF Decide, Truncate, store
  <1>4. TypeOK'
    BY <1>1, <1>2, <1>3, WalCapType DEF IInv, TypeOK, PC, Op
  <1>5. RaisedSet' = RaisedSet
    BY <1>1, <1>2, SameRaised DEF IInv, TypeOK, Raised
  <1>6. CountersExact' /\ GateUpBeforeSleep'
    BY <1>1, <1>2, <1>5 DEF IInv, TypeOK, CountersExact, GateUpBeforeSleep
  <1>7. LatchesHeld'
    BY <1>1, <1>2, ThreadAssumption DEF IInv, TypeOK, LatchesHeld, Exclusive
  <1>8. ParkedWriterWillBeNotified'
    BY <1>1, <1>2 DEF IInv, TypeOK, ParkedWriterWillBeNotified, Raised
  <1>9. EndsBegun'
    BY <1>1, <1>2 DEF IInv, TypeOK, EndsBegun, AtGate
  <1>10. TruncatesIdle'
    <2>1. at = "truncate" => begun_ = {}
      <3>1. at = "truncate" => Cardinality(begun_) = 0
        BY <1>1 DEF IInv, TypeOK, CountersExact
      <3>2. QED
        BY <3>1, CountedFinite, FS_EmptySet DEF IInv
    <2>2. QED
      BY <1>1, <1>2, <2>1 DEF IInv, TypeOK, TruncatesIdle
  <1>11. LogKeepsBegunTransactions'
    BY <1>2 DEF Decide, Truncate, store, IInv, TruncatesIdle, LogKeepsBegunTransactions
  <1>12. QED
    BY <1>4, <1>6, <1>7, <1>8, <1>9, <1>10, <1>11 DEF IInv

\* Nothing changes in a stuttering step.
LEMMA StutterIInv == IInv /\ UNCHANGED vars => IInv'
  BY DEF vars, latches, store, IInv, TypeOK, CountersExact, RaisedSet, LatchesHeld,
         GateUpBeforeSleep, ParkedWriterWillBeNotified, EndsBegun, TruncatesIdle,
         LogKeepsBegunTransactions

-----------------------------------------------------------------------------
\* Every reachable state of the handle satisfies the inductive invariant.
THEOREM InductiveInvariant == Spec => []IInv
  <1>1. IInv /\ [Next]_vars => IInv'
    <2> SUFFICES ASSUME IInv, Next PROVE IInv'
      BY StutterIInv
    <2>1. PICK t \in Thread : Start(t) \/ Continue(t)
      BY DEF Next
    <2>2. CASE Start(t)
      BY <2>2, WriterCallIInv, RaiseIInv DEF Start
    <2>3. CASE Continue(t)
      BY <2>3, GateIInv, LockSharedIInv, WriteIInv, AutoIInv, RaiseIInv, LockExclusiveIInv,
         LowerGateIInv, NotifyGateIInv, CheckpointLockedIInv DEF Continue
    <2>4. QED
      BY <2>1, <2>2, <2>3
  <1>2. QED
    BY InitIInv, <1>1, PTL DEF Spec

\* A checkpoint never runs while a write, or another checkpoint, is mid-flight.
THEOREM CheckpointAlone == Spec => []CheckpointRunsAlone
  <1>1. IInv => CheckpointRunsAlone
    BY ThreadAssumption DEF IInv, TypeOK, LatchesHeld, Exclusive, CheckpointRunsAlone
  <1>2. QED
    BY InductiveInvariant, <1>1, PTL

\* The gate is up only while a checkpoint that raised it holds it up.
THEOREM GateReopens == Spec => []GateIsHeldUpBySomeone
  <1>1. IInv => GateIsHeldUpBySomeone
    BY FS_EmptySet DEF IInv, CountersExact, RaisedSet, GateIsHeldUpBySomeone
  <1>2. QED
    BY InductiveInvariant, <1>1, PTL

\* No wakeup of a writer parked at the gate is lost.
THEOREM NoLostWakeup == Spec => []ParkedWriterWillBeNotified
  BY InductiveInvariant, PTL DEF IInv

\* A checkpoint never truncates the kBegin of a transaction still open.
THEOREM LogKeepsBegun == Spec => []LogKeepsBegunTransactions
  BY InductiveInvariant, PTL DEF IInv

\* With no transaction open the counter is zero, so a checkpoint can truncate.
THEOREM IdleTruncates == Spec => []IdleHandleCanTruncate
  <1>1. IInv => IdleHandleCanTruncate
    BY FS_EmptySet DEF IInv, CountersExact, IdleHandleCanTruncate
  <1>2. QED
    BY InductiveInvariant, <1>1, PTL

=============================================================================
