------------------------- MODULE LockManagerProofs -------------------------
(***************************************************************************)
(* Proofs about LockManager for every set of keys and every bound on the   *)
(* transaction ids.  IInv is inductive; NeverAllAsleep follows from it by  *)
(* looking at the youngest sleeper, OnlyEldersRefuse from AgeIsFirst.      *)
(***************************************************************************)
EXTENDS LockManager, WellFoundedInduction, TLAPS

\* The ids in use are those below next_, and so are the ages.
IdsBelowNext ==
    \A t \in TxId :
        /\ pc[t] = "unborn" <=> t >= next_
        /\ pc[t] # "unborn" => priority_[t] < next_

\* Through any number of retries the age stays the id of the first attempt.
AgeIsFirst ==
    \A t \in TxId :
        pc[t] # "unborn" => priority_[t] = first[t] /\ priority_[t] # kInvalidTxId

IInv ==
    /\ TypeOK
    /\ IdsBelowNext
    /\ HeldMatchesTable
    /\ ExclusiveHolderIsAlone
    /\ AgeIsFirst
    /\ SleeperHasBlocker

\* The fields of a recorded request.
LEMMA RequestFields ==
    ASSUME NEW r \in Request
    PROVE  r.key \in Key /\ r.mode \in LockMode
  BY DEF Request

\* The initial state satisfies the inductive invariant.
LEMMA InitIInv == Init => IInv
  <1> SUFFICES ASSUME Init PROVE IInv
    OBVIOUS
  <1> USE MaxTxIdAssumption DEF Init
  <1>1. TypeOK
    BY DEF TypeOK, TxId, PC, LockMode, NotHeld, Request, NoRequest
  <1>2. IdsBelowNext
    BY DEF IdsBelowNext, TxId
  <1>3. HeldMatchesTable /\ ExclusiveHolderIsAlone
    BY DEF HeldMatchesTable, ExclusiveHolderIsAlone, Holders, Live
  <1>4. AgeIsFirst /\ SleeperHasBlocker
    BY DEF AgeIsFirst, SleeperHasBlocker
  <1>5. QED
    BY <1>1, <1>2, <1>3, <1>4 DEF IInv

\* Begin hands out a fresh id, with its own age or that of a begun attempt.
LEMMA BeginIInv ==
    ASSUME IInv, NEW prev \in Retriable \cup {kInvalidTxId}, Begin(prev)
    PROVE  IInv'
  <1> DEFINE age == IF RetryOf(prev) = kInvalidTxId THEN next_ ELSE RetryOf(prev)
             origin == IF prev = kInvalidTxId THEN next_ ELSE first[prev]
  <1> USE MaxTxIdAssumption
  <1>1. next_ \in TxId /\ next_ \in Nat /\ next_' = next_ + 1 /\ next_ # kInvalidTxId
    BY DEF IInv, Begin, TypeOK, TxId, kInvalidTxId
  <1>2. age \in 0..MaxTxId /\ age < next_ + 1 /\ age = origin /\ age # kInvalidTxId
    <2>1. CASE prev = kInvalidTxId
      BY <1>1, <2>1 DEF RetryOf, TxId
    <2>2. CASE prev # kInvalidTxId
      <3>1. prev \in TxId /\ pc[prev] # "unborn"
        BY <2>2 DEF Retriable, Begun
      <3>2. /\ priority_[prev] \in 0..MaxTxId /\ priority_[prev] < next_
            /\ priority_[prev] = first[prev] /\ priority_[prev] # kInvalidTxId
        BY <3>1 DEF IInv, TypeOK, IdsBelowNext, AgeIsFirst
      <3>3. age = priority_[prev] /\ origin = first[prev]
        BY <2>2, <3>2 DEF RetryOf, Id
      <3>4. QED
        BY <1>1, <3>2, <3>3
    <2>3. QED
      BY <2>1, <2>2
  <1>3. /\ pc' = [pc EXCEPT ![next_] = "idle"]
        /\ priority_' = [priority_ EXCEPT ![next_] = age]
        /\ first' = [first EXCEPT ![next_] = age]
        /\ UNCHANGED <<table_, held_, want>>
    BY <1>2 DEF Begin
  <1> HIDE DEF age, origin
  <1>4. TypeOK'
    BY <1>1, <1>2, <1>3 DEF IInv, TypeOK, PC, TxId
  <1>5. /\ pc[next_] = "unborn" /\ held_[next_] = {}
        /\ pc'[next_] = "idle" /\ priority_'[next_] = age /\ first'[next_] = age
        /\ \A t \in TxId : t # next_ =>
               pc'[t] = pc[t] /\ priority_'[t] = priority_[t] /\ first'[t] = first[t]
    BY <1>1, <1>3 DEF IInv, TypeOK, IdsBelowNext, HeldMatchesTable, Live
  <1>6. IdsBelowNext'
    <2> SUFFICES ASSUME NEW t \in TxId
                 PROVE  /\ pc'[t] = "unborn" <=> t >= next_'
                        /\ pc'[t] # "unborn" => priority_'[t] < next_'
      BY DEF IdsBelowNext
    <2>1. CASE t = next_
      BY <1>1, <1>2, <1>5, <2>1
    <2>2. CASE t # next_
      <3>1. t \in Nat /\ priority_[t] \in Nat
        BY DEF IInv, TypeOK, TxId
      <3>2. /\ pc[t] = "unborn" <=> t >= next_
            /\ pc[t] # "unborn" => priority_[t] < next_
        BY DEF IInv, IdsBelowNext
      <3>3. QED
        BY <1>1, <1>5, <2>2, <3>1, <3>2
    <2>3. QED
      BY <2>1, <2>2
  <1>7. HeldMatchesTable' /\ ExclusiveHolderIsAlone'
    BY <1>3, <1>5 DEF IInv, HeldMatchesTable, ExclusiveHolderIsAlone, Holders, Live
  <1>8. AgeIsFirst'
    BY <1>2, <1>5 DEF IInv, AgeIsFirst
  <1>9. SleeperHasBlocker'
    <2> SUFFICES ASSUME NEW t \in TxId, pc'[t] = "waiting"
                 PROVE  \E h \in ConflictingHolders(t, want[t].key, want[t].mode)' :
                            priority_'[t] <= priority_'[h]
      BY DEF SleeperHasBlocker
    <2>1. t # next_ /\ pc[t] = "waiting"
      BY <1>5
    <2>2. want[t].key \in Key /\ want[t].mode \in LockMode
      BY <2>1, RequestFields DEF IInv, TypeOK
    <2>3. PICK h \in ConflictingHolders(t, want[t].key, want[t].mode) :
                 priority_[t] <= priority_[h]
      BY <2>1 DEF IInv, SleeperHasBlocker
    <2>4. h \in TxId /\ h # next_
      BY <1>5, <2>2, <2>3 DEF IInv, ConflictingHolders, Holders, HeldMatchesTable
    <2>5. QED
      BY <1>3, <1>5, <2>1, <2>3, <2>4 DEF ConflictingHolders, Holders
  <1>10. QED
    BY <1>4, <1>6, <1>7, <1>8, <1>9 DEF IInv

\* Granting a lock keeps every sleeper's blocker: its mode can only grow.
LEMMA GrantIInv ==
    ASSUME IInv, NEW t \in TxId, Live(t), NEW k \in Key, NEW mode \in LockMode,
           Grant(t, k, mode)
    PROVE  IInv'
  <1> DEFINE new == IF table_[k][t] = NotHeld \/ mode = "kExclusive"
                    THEN mode ELSE table_[k][t]
  <1>1. /\ new \in LockMode
        /\ new # NotHeld
        /\ table_[k][t] = "kExclusive" => new = "kExclusive"
    BY DEF IInv, TypeOK, LockMode, NotHeld
  <1>2. /\ table_' = [table_ EXCEPT ![k][t] = new]
        /\ held_' = [held_ EXCEPT ![t] = held_[t] \cup {k}]
        /\ pc' = [pc EXCEPT ![t] = "idle"]
        /\ want' = [want EXCEPT ![t] = NoRequest]
        /\ UNCHANGED <<next_, priority_, first>>
    <2>1. table_' = [table_ EXCEPT ![k][t] = new]
      BY DEF Grant
    <2>2. held_' = [held_ EXCEPT ![t] = held_[t] \cup {k}]
      <3>1. table_[k][t] # NotHeld => held_[t] = held_[t] \cup {k}
        BY DEF IInv, HeldMatchesTable
      <3>2. held_' = [held_ EXCEPT ![t] =
                         IF table_[k][t] = NotHeld THEN held_[t] \cup {k} ELSE held_[t]]
        BY DEF Grant
      <3>3. QED
        BY <3>1, <3>2
    <2>3. QED
      BY <2>1, <2>2 DEF Grant
  <1>3. \A h \in Holders(k) : h # t => mode = "kShared" /\ table_[k][h] = "kShared"
    BY DEF Grant, ConflictingHolders, Conflicts, Holders, IInv, TypeOK, LockMode, NotHeld
  <1>4. new = "kExclusive" => \A h \in TxId : h # t => table_[k][h] = NotHeld
    BY <1>3 DEF IInv, ExclusiveHolderIsAlone, Holders, NotHeld
  <1> HIDE DEF new
  <1>5. TypeOK'
    BY <1>1, <1>2 DEF IInv, TypeOK, PC
  <1>6. /\ table_'[k][t] = new
        /\ \A l \in Key, u \in TxId : l # k \/ u # t => table_'[l][u] = table_[l][u]
        /\ pc'[t] = "idle"
        /\ \A u \in TxId : u # t => pc'[u] = pc[u] /\ want'[u] = want[u]
        /\ \A u \in TxId : Live(u)' <=> Live(u)
    BY <1>2 DEF IInv, TypeOK, Live
  <1>7. IdsBelowNext' /\ AgeIsFirst'
    BY <1>2, <1>6 DEF IInv, TypeOK, IdsBelowNext, AgeIsFirst, Live
  <1>8. HeldMatchesTable'
    BY <1>1, <1>2, <1>6 DEF IInv, TypeOK, HeldMatchesTable
  <1>9. ExclusiveHolderIsAlone'
    <2> SUFFICES ASSUME NEW l \in Key, NEW u \in TxId, NEW v \in TxId, u # v,
                        table_'[l][u] # NotHeld, table_'[l][v] # NotHeld
                 PROVE  table_'[l][u] = "kShared"
      BY DEF ExclusiveHolderIsAlone, Holders
    <2>1. CASE l # k \/ (u # t /\ v # t)
      BY <1>6, <2>1 DEF IInv, ExclusiveHolderIsAlone, Holders
    <2>2. CASE l = k /\ u = t
      BY <1>1, <1>4, <1>6, <2>2 DEF LockMode
    <2>3. CASE l = k /\ v = t
      BY <1>3, <1>6, <2>3 DEF Holders
    <2>4. QED
      BY <2>1, <2>2, <2>3
  <1>10. SleeperHasBlocker'
    <2> SUFFICES ASSUME NEW u \in TxId, pc'[u] = "waiting"
                 PROVE  \E h \in ConflictingHolders(u, want[u].key, want[u].mode)' :
                            priority_[u] <= priority_[h]
      BY <1>2 DEF SleeperHasBlocker
    <2>1. u # t /\ pc[u] = "waiting" /\ want'[u] = want[u]
      BY <1>6
    <2>2. want[u].key \in Key
      BY <2>1, RequestFields DEF IInv, TypeOK
    <2>3. PICK h \in ConflictingHolders(u, want[u].key, want[u].mode) :
                 priority_[u] <= priority_[h]
      BY <2>1 DEF IInv, SleeperHasBlocker
    <2>4. /\ h \in TxId /\ h # u
          /\ table_'[want[u].key][h] # NotHeld
          /\ table_[want[u].key][h] = "kExclusive"
                => table_'[want[u].key][h] = "kExclusive"
      BY <1>1, <1>6, <2>2, <2>3 DEF ConflictingHolders, Conflicts, Holders
    <2>5. h \in ConflictingHolders(u, want[u].key, want[u].mode)'
      BY <2>1, <2>3, <2>4 DEF ConflictingHolders, Conflicts, Holders
    <2>6. QED
      BY <2>3, <2>5
  <1>11. QED
    BY <1>5, <1>7, <1>8, <1>9, <1>10 DEF IInv

\* A Busy return changes no lock.
LEMMA ReturnBusyIInv ==
    ASSUME IInv, NEW t \in TxId, Live(t), ReturnBusy(t)
    PROVE  IInv'
  <1>1. TypeOK'
    BY DEF IInv, TypeOK, ReturnBusy, PC
  <1>2. /\ \A u \in TxId : u # t => pc'[u] = pc[u] /\ want'[u] = want[u]
        /\ pc'[t] = "idle"
        /\ \A u \in TxId : Live(u)' <=> Live(u)
    BY DEF IInv, TypeOK, ReturnBusy, Live
  <1>3. IdsBelowNext' /\ AgeIsFirst'
    BY <1>2 DEF IInv, IdsBelowNext, AgeIsFirst, ReturnBusy, Live
  <1>4. HeldMatchesTable' /\ ExclusiveHolderIsAlone'
    BY <1>2 DEF IInv, HeldMatchesTable, ExclusiveHolderIsAlone, Holders, ReturnBusy
  <1>5. SleeperHasBlocker'
    BY <1>2 DEF IInv, SleeperHasBlocker, ConflictingHolders, Holders, ReturnBusy
  <1>6. QED
    BY <1>1, <1>3, <1>4, <1>5 DEF IInv

\* A thread goes to sleep only behind holders none of which is older.
LEMMA SleepIInv ==
    ASSUME IInv, NEW t \in TxId, Live(t), NEW k \in Key, NEW mode \in LockMode,
           Sleep(t, k, mode)
    PROVE  IInv'
  <1>1. TypeOK'
    BY DEF IInv, TypeOK, Sleep, PC, Request
  <1>2. /\ \A u \in TxId : u # t => pc'[u] = pc[u] /\ want'[u] = want[u]
        /\ pc'[t] = "waiting" /\ want'[t] = [key |-> k, mode |-> mode]
        /\ UNCHANGED <<next_, priority_, first, table_, held_>>
        /\ \A u \in TxId : Live(u)' <=> Live(u)
    BY DEF IInv, TypeOK, Sleep, Live
  <1>3. IdsBelowNext' /\ AgeIsFirst'
    BY <1>2 DEF IInv, IdsBelowNext, AgeIsFirst, Live
  <1>4. HeldMatchesTable' /\ ExclusiveHolderIsAlone'
    BY <1>2 DEF IInv, HeldMatchesTable, ExclusiveHolderIsAlone, Holders
  <1>5. SleeperHasBlocker'
    <2> SUFFICES ASSUME NEW u \in TxId, pc'[u] = "waiting"
                 PROVE  \E h \in ConflictingHolders(u, want'[u].key, want'[u].mode) :
                            priority_[u] <= priority_[h]
      BY <1>2 DEF SleeperHasBlocker, ConflictingHolders, Holders
    <2>1. CASE u # t
      BY <1>2, <2>1 DEF IInv, SleeperHasBlocker
    <2>2. CASE u = t
      <3>1. PICK h \in ConflictingHolders(t, k, mode) : TRUE
        BY DEF Sleep
      <3>2. h \in TxId /\ h # t /\ table_[k][h] # NotHeld
        BY <3>1 DEF ConflictingHolders, Conflicts, Holders
      <3>3. ~(priority_[h] < priority_[t])
        BY <3>1 DEF Sleep, OlderConflict
      <3>4. priority_[h] \in Nat /\ priority_[t] \in Nat
        BY <3>2 DEF IInv, TypeOK
      <3>5. QED
        BY <1>2, <2>2, <3>1, <3>3, <3>4
    <2>3. QED
      BY <2>1, <2>2
  <1>6. QED
    BY <1>1, <1>3, <1>4, <1>5 DEF IInv

\* Whatever way the scan of Acquire ends, the invariant survives.
LEMMA ScanIInv ==
    ASSUME IInv, NEW t \in TxId, Live(t), NEW k \in Key, NEW mode \in LockMode,
           Scan(t, k, mode)
    PROVE  IInv'
  BY GrantIInv, ReturnBusyIInv, SleepIInv DEF Scan, Die

\* ReleaseAll wakes every sleeper unless it released nothing at all.
LEMMA ReleaseAllIInv ==
    ASSUME IInv, NEW t \in TxId, ReleaseAll(t)
    PROVE  IInv'
  <1>1. TypeOK'
    BY DEF IInv, TypeOK, ReleaseAll, PC, NotHeld
  <1>2. /\ \A k \in Key : table_'[k][t] = NotHeld
        /\ \A k \in Key, u \in TxId : u # t => table_'[k][u] = table_[k][u]
        /\ held_'[t] = {}
        /\ \A u \in TxId : u # t => held_'[u] = held_[u]
    BY DEF IInv, TypeOK, ReleaseAll, HeldMatchesTable
  <1>3. /\ pc[t] = "idle" /\ pc'[t] = "ended"
        /\ \A u \in TxId : u # t => (Live(u)' <=> Live(u))
        /\ \A u \in TxId : pc'[u] = "unborn" <=> pc[u] = "unborn"
        /\ ~Live(t)'
    BY DEF IInv, TypeOK, ReleaseAll, Live
  <1>4. IdsBelowNext' /\ AgeIsFirst'
    BY <1>3 DEF IInv, IdsBelowNext, AgeIsFirst, ReleaseAll
  <1>5. HeldMatchesTable'
    <2> SUFFICES ASSUME NEW u \in TxId
                 PROVE  /\ held_'[u] = {k \in Key : table_'[k][u] # NotHeld}
                        /\ ~Live(u)' => held_'[u] = {}
      BY DEF HeldMatchesTable
    <2>1. CASE u = t
      BY <1>2, <2>1
    <2>2. CASE u # t
      BY <1>2, <1>3, <2>2 DEF IInv, HeldMatchesTable
    <2>3. QED
      BY <2>1, <2>2
  <1>6. ExclusiveHolderIsAlone'
    BY <1>2 DEF IInv, ExclusiveHolderIsAlone, Holders
  <1>7. SleeperHasBlocker'
    <2> SUFFICES ASSUME NEW u \in TxId, pc'[u] = "waiting"
                 PROVE  \E h \in ConflictingHolders(u, want[u].key, want[u].mode)' :
                            priority_'[u] <= priority_'[h]
      BY DEF SleeperHasBlocker
    <2>1. u # t /\ pc[u] = "waiting" /\ held_[t] = {}
      BY <1>3 DEF ReleaseAll, IInv, TypeOK
    <2>2. table_' = table_
      BY <2>1 DEF ReleaseAll, IInv, TypeOK
    <2>3. QED
      BY <2>1, <2>2
         DEF ReleaseAll, IInv, SleeperHasBlocker, ConflictingHolders, Holders
  <1>8. QED
    BY <1>1, <1>4, <1>5, <1>6, <1>7 DEF IInv

\* Every step preserves the inductive invariant.
LEMMA NextIInv == IInv /\ [Next]_vars => IInv'
  <1> SUFFICES ASSUME IInv, [Next]_vars PROVE IInv'
    OBVIOUS
  <1>1. CASE \E prev \in Retriable \cup {kInvalidTxId} : Begin(prev)
    BY <1>1, BeginIInv
  <1>2. ASSUME NEW t \in TxId, NEW k \in Key, NEW mode \in LockMode, Acquire(t, k, mode)
        PROVE  IInv'
    BY <1>2, ScanIInv DEF Acquire, Live
  <1>3. ASSUME NEW t \in TxId, WakeUp(t) \/ SpuriousWakeUp(t)
        PROVE  IInv'
    <2>1. Live(t) /\ want[t] \in Request
      BY <1>3 DEF WakeUp, SpuriousWakeUp, Live, IInv, TypeOK
    <2>2. QED
      BY <1>3, <2>1, RequestFields, ScanIInv DEF WakeUp, SpuriousWakeUp
  <1>4. ASSUME NEW t \in TxId, TimeOut(t)
        PROVE  IInv'
    BY <1>4, ReturnBusyIInv DEF TimeOut, Live
  <1>5. ASSUME NEW t \in TxId, ReleaseAll(t)
        PROVE  IInv'
    BY <1>5, ReleaseAllIInv
  <1>6. CASE UNCHANGED vars
    BY <1>6 DEF vars, IInv, TypeOK, IdsBelowNext, HeldMatchesTable, AgeIsFirst,
                ExclusiveHolderIsAlone, SleeperHasBlocker,
                ConflictingHolders, Holders, Live
  <1>7. QED
    BY <1>1, <1>2, <1>3, <1>4, <1>5, <1>6 DEF Next

\* A nonempty set of transactions has a youngest member.
LEMMA YoungestExists ==
    ASSUME TypeOK, NEW S \in SUBSET TxId, S # {}
    PROVE  \E t \in S : \A u \in S : ~(priority_[t] < priority_[u])
  <1> DEFINE rank == [t \in TxId |-> MaxTxId - priority_[t]]
             T == {rank[t] : t \in S}
  <1>1. \A t \in TxId : priority_[t] \in 0..MaxTxId
    BY DEF TypeOK
  <1>2. \A t \in TxId : rank[t] \in Nat /\ rank[t] = MaxTxId - priority_[t]
    BY <1>1, MaxTxIdAssumption
  <1> HIDE DEF rank
  <1>3. T \subseteq Nat /\ T # {}
    BY <1>2
  <1>4. PICK x \in T : \A y \in T : ~(<<y, x>> \in OpToRel(<, Nat))
    BY <1>3, WFMin, NatLessThanWellFounded, Zenon
  <1>5. \A y \in T : ~(y < x)
    BY <1>3, <1>4 DEF OpToRel
  <1>6. PICK t \in S : x = rank[t]
    BY <1>4
  <1>7. ASSUME NEW u \in S, priority_[t] < priority_[u]
        PROVE  FALSE
    <2>1. priority_[t] \in Nat /\ priority_[u] \in Nat
      BY <1>1
    <2>2. rank[u] < rank[t]
      BY <1>2, <1>7, <2>1, MaxTxIdAssumption
    <2>3. QED
      BY <1>5, <1>6, <2>2
  <1>8. QED
    BY <1>7

\* While ages differ, the youngest sleeper's blocker is younger still and
\* cannot be asleep, so somebody can run.
LEMMA IInvNeverAllAsleep == IInv => NeverAllAsleep
  <1> SUFFICES ASSUME IInv, AgesDiffer, NEW t0 \in TxId, Live(t0)
               PROVE  \E t \in TxId : pc[t] \in {"idle", "woken"}
    BY DEF NeverAllAsleep
  <1> DEFINE Asleep == {t \in TxId : pc[t] = "waiting"}
  <1>1. CASE Asleep = {}
    BY <1>1 DEF Live
  <1>2. CASE Asleep # {}
    <2>1. PICK t \in Asleep : \A u \in Asleep : ~(priority_[t] < priority_[u])
      BY <1>2, YoungestExists DEF IInv
    <2>2. PICK h \in ConflictingHolders(t, want[t].key, want[t].mode) :
                 priority_[t] <= priority_[h]
      BY <2>1 DEF IInv, SleeperHasBlocker
    <2>3. want[t].key \in Key
      BY <2>1, RequestFields DEF IInv, TypeOK
    <2>4. h \in TxId /\ Live(h)
      BY <2>2, <2>3 DEF ConflictingHolders, Holders, IInv, HeldMatchesTable
    <2>5. h \notin Asleep
      <3>1. h # t /\ Live(t)
        BY <2>1, <2>2 DEF ConflictingHolders, Conflicts, Live
      <3>2. priority_[t] # priority_[h]
        BY <2>4, <3>1 DEF AgesDiffer
      <3>3. priority_[t] \in Nat /\ priority_[h] \in Nat
        BY <2>4 DEF IInv, TypeOK
      <3>4. priority_[t] < priority_[h]
        BY <2>2, <3>2, <3>3
      <3>5. QED
        BY <2>1, <3>4
    <2>6. QED
      BY <2>4, <2>5 DEF Live
  <1>3. QED
    BY <1>1, <1>2

\* The inductive invariant holds in every reachable state.
THEOREM InductiveInvariant == Spec => []IInv
  BY InitIInv, NextIInv, PTL DEF Spec

\* The lock table, the held_ sets and the suspended calls keep their types.
THEOREM TypeCorrect == Spec => []TypeOK
  <1>1. IInv => TypeOK
    BY DEF IInv
  <1>2. QED
    BY <1>1, InductiveInvariant, PTL

\* Acquire never grants a lock beside a conflicting holder: an exclusive
\* holder of a key has no company, for any number of keys and transactions.
THEOREM MutualExclusion == Spec => []ExclusiveHolderIsAlone
  <1>1. IInv => ExclusiveHolderIsAlone
    BY DEF IInv
  <1>2. QED
    BY <1>1, InductiveInvariant, PTL

\* held_ and table_ agree, so ReleaseAll (which walks held_) leaves no lock
\* of a finished transaction behind.
THEOREM NoLeakedLock == Spec => []HeldMatchesTable
  <1>1. IInv => HeldMatchesTable
    BY DEF IInv
  <1>2. QED
    BY <1>1, InductiveInvariant, PTL

\* Starvation freedom of wait-die: a victim that retries is refused only by
\* transactions whose first attempt began before its own, so the set of
\* those that can refuse it never grows.
THEOREM RetriesKeepTheirRank == Spec => []OnlyEldersRefuse
  <1>1. IInv => OnlyEldersRefuse
    <2> SUFFICES ASSUME IInv, NEW t \in TxId, NEW k \in Key, NEW mode \in LockMode,
                        Live(t), OlderConflict(t, k, mode)
                 PROVE  \E h \in ConflictingHolders(t, k, mode) : first[h] < first[t]
      BY DEF OnlyEldersRefuse
    <2>1. PICK h \in ConflictingHolders(t, k, mode) : priority_[h] < priority_[t]
      BY DEF OlderConflict
    <2>2. h \in TxId /\ Live(h)
      BY <2>1 DEF ConflictingHolders, Holders, IInv, HeldMatchesTable
    <2>3. priority_[h] = first[h] /\ priority_[t] = first[t]
      BY <2>2 DEF IInv, AgeIsFirst, Live
    <2>4. QED
      BY <2>1, <2>3
  <1>2. QED
    BY <1>1, InductiveInvariant, PTL

\* No lost wakeup: whoever sleeps in Acquire still has a conflicting holder
\* that is no older, whose ReleaseAll will notify it.
THEOREM NoLostWakeup == Spec => []SleeperHasBlocker
  <1>1. IInv => SleeperHasBlocker
    BY DEF IInv
  <1>2. QED
    BY <1>1, InductiveInvariant, PTL

\* Wait-die's real guarantee: while a transaction lives and no two live ones
\* share an age, one can run.
THEOREM NoGlobalDeadlock == Spec => []NeverAllAsleep
  BY InductiveInvariant, IInvNeverAllAsleep, PTL

\* Strict two-phase locking: a lock is given up or weakened only when its
\* transaction ends.
THEOREM StrictTwoPhase == Spec => LocksOnlyGrow
  <1> DEFINE Grows == \A k \in Key, t \in TxId :
                table_[k][t] # NotHeld /\ table_'[k][t] # table_[k][t] =>
                    \/ table_'[k][t] = "kExclusive"
                    \/ pc'[t] = "ended"
  <1>1. IInv /\ [Next]_vars => [Grows]_vars
    <2> SUFFICES ASSUME IInv, Next PROVE Grows
      OBVIOUS
    <2>1. ASSUME NEW t \in TxId, NEW k \in Key, NEW mode \in LockMode, Scan(t, k, mode)
          PROVE  Grows
      <3>1. CASE Grant(t, k, mode)
        BY <3>1 DEF Grant, IInv, TypeOK
      <3>2. CASE Die(t, k, mode) \/ Sleep(t, k, mode)
        BY <3>2 DEF Die, ReturnBusy, Sleep
      <3>3. QED
        BY <2>1, <3>1, <3>2 DEF Scan
    <2>2. ASSUME NEW t \in TxId, ReleaseAll(t)
          PROVE  Grows
      BY <2>2 DEF ReleaseAll, IInv, TypeOK
    <2>3. ASSUME NEW t \in TxId, WakeUp(t) \/ SpuriousWakeUp(t)
          PROVE  Grows
      <3>1. want[t] \in Request
        BY <2>3 DEF WakeUp, SpuriousWakeUp, IInv, TypeOK
      <3>2. QED
        BY <2>1, <2>3, <3>1, RequestFields DEF WakeUp, SpuriousWakeUp
    <2>4. CASE \/ \E prev \in Retriable \cup {kInvalidTxId} : Begin(prev)
               \/ \E t \in TxId : TimeOut(t)
      BY <2>4 DEF Begin, TimeOut, ReturnBusy
    <2>5. QED
      BY <2>1, <2>2, <2>3, <2>4 DEF Next, Acquire
  <1>2. QED
    BY <1>1, InductiveInvariant, PTL DEF Spec, LocksOnlyGrow

=============================================================================
