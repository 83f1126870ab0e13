---------------------------- MODULE LockManager ----------------------------
(***************************************************************************)
(* Per-key shared/exclusive locks with wait-die (txn/lock_manager.cc), as  *)
(* explicit transactions use them (TxnImpl in db.cc).  mu_ is held for one *)
(* pass of Acquire's loop and for all of ReleaseAll, so each is one step;  *)
(* a thread inside cv_.wait_until holds no mutex and is the state          *)
(* "waiting" until a notify_all makes it "woken".  The clock is left out:  *)
(* the one-second deadline may pass at any moment of a wait.               *)
(*                                                                         *)
(* Callers are assumed to use one thread per transaction, as db.h asks.    *)
(* They may pass to Begin(retry_of) the id() of any transaction, ended or  *)
(* still live: Begin does not check it.  The contract of db.h that no age  *)
(* is used twice at a time is AgesDiffer, and the properties that need it  *)
(* say so.                                                                 *)
(***************************************************************************)
EXTENDS Naturals, FiniteSets

CONSTANTS
    Key,        \* the keys that transactions lock
    MaxTxId,    \* bound: the last id TxnManager::Begin hands out
    MaxLive,    \* bound: the transactions that are open at the same time
    FirstClash  \* bound: the first id that may be begun with an age in use

ASSUME MaxTxIdAssumption == MaxTxId \in Nat \ {0}

TxId == 1..MaxTxId
kInvalidTxId == 0
LockMode == {"kShared", "kExclusive"}
NotHeld == "none"
Request == [key : Key, mode : LockMode]
NoRequest == [key |-> NotHeld, mode |-> NotHeld]

VARIABLES
    next_,      \* TxnManager: the next id
    priority_,  \* the wait-die age each transaction was begun with
    table_,     \* table_[k][t]: the mode in which t holds k, or NotHeld
    held_,      \* held_[t]: the keys t holds
    pc,         \* where the thread of each transaction is
    want,       \* the request a waiting thread re-checks when it wakes
    first       \* history: the first of the attempts each one is a retry of

vars == <<next_, priority_, table_, held_, pc, want, first>>

PC == {"unborn", "idle", "waiting", "woken", "ended"}
Live(t) == pc[t] \in {"idle", "waiting", "woken"}

Init ==
    /\ next_ = 1
    /\ priority_ = [t \in TxId |-> 0]
    /\ table_ = [k \in Key |-> [t \in TxId |-> NotHeld]]
    /\ held_ = [t \in TxId |-> {}]
    /\ pc = [t \in TxId |-> "unborn"]
    /\ want = [t \in TxId |-> NoRequest]
    /\ first = [t \in TxId |-> 0]

(***************************************************************************)
(* DB::Begin(retry_of): a fresh id; the age is the id itself, or retry_of, *)
(* which the caller read from the attempt it retries.                      *)
(***************************************************************************)
Begun == {t \in TxId : pc[t] # "unborn"}

\* Faulty variant: id() is the id of the attempt, as its name suggests.
IdOfAttempt(t) == t

Id(t) == priority_[t]

\* The transactions whose id() a caller may pass: all of them, up to the bound
\* on reusing the age of a live one.
Retriable ==
    {t \in Begun : (\E u \in TxId : Live(u) /\ Id(u) = Id(t)) => next_ >= FirstClash}

RetryOf(prev) == IF prev = kInvalidTxId THEN kInvalidTxId ELSE Id(prev)

Begin(prev) ==
    /\ next_ <= MaxTxId /\ Cardinality({t \in TxId : Live(t)}) < MaxLive
    /\ next_' = next_ + 1
    /\ priority_' = [priority_ EXCEPT ![next_] =
                        IF RetryOf(prev) = kInvalidTxId THEN next_ ELSE RetryOf(prev)]
    /\ first' = [first EXCEPT ![next_] =
                     IF prev = kInvalidTxId THEN next_ ELSE first[prev]]
    /\ pc' = [pc EXCEPT ![next_] = "idle"]
    /\ UNCHANGED <<table_, held_, want>>

-----------------------------------------------------------------------------
(* One pass of Acquire's loop. *)

\* Faulty variant: only writer/writer pairs conflict.
ConflictsWritersOnly(requester, mode, holder, held) ==
    /\ holder # requester
    /\ mode = "kExclusive" /\ held = "kExclusive"

Conflicts(requester, mode, holder, held) ==
    /\ holder # requester
    /\ mode = "kExclusive" \/ held = "kExclusive"

Holders(k) == {t \in TxId : table_[k][t] # NotHeld}

ConflictingHolders(t, k, mode) ==
    {h \in Holders(k) : Conflicts(t, mode, h, table_[k][h])}

\* Faulty variant: nobody dies, everybody waits.
NeverOlder(t, k, mode) == FALSE

OlderConflict(t, k, mode) ==
    \E h \in ConflictingHolders(t, k, mode) : priority_[h] < priority_[t]

\* Faulty variant: a key enters held_ only when it is locked exclusively.
GrantForgetsShared(t, k, mode) ==
    /\ ConflictingHolders(t, k, mode) = {}
    /\ table_' = [table_ EXCEPT ![k][t] =
                     IF @ = NotHeld \/ mode = "kExclusive" THEN mode ELSE @]
    /\ held_' = [held_ EXCEPT ![t] = IF mode = "kExclusive" THEN @ \cup {k} ELSE @]
    /\ pc' = [pc EXCEPT ![t] = "idle"]
    /\ want' = [want EXCEPT ![t] = NoRequest]
    /\ UNCHANGED <<next_, priority_, first>>

\* Faulty variant: a re-acquire overwrites the mode, so X can become S.
GrantOverwritesMode(t, k, mode) ==
    /\ ConflictingHolders(t, k, mode) = {}
    /\ table_' = [table_ EXCEPT ![k][t] = mode]
    /\ held_' = [held_ EXCEPT ![t] = @ \cup {k}]
    /\ pc' = [pc EXCEPT ![t] = "idle"]
    /\ want' = [want EXCEPT ![t] = NoRequest]
    /\ UNCHANGED <<next_, priority_, first>>

Grant(t, k, mode) ==
    /\ ConflictingHolders(t, k, mode) = {}
    /\ table_' = [table_ EXCEPT ![k][t] =
                     IF @ = NotHeld \/ mode = "kExclusive" THEN mode ELSE @]
    /\ held_' = [held_ EXCEPT ![t] = IF table_[k][t] = NotHeld THEN @ \cup {k} ELSE @]
    /\ pc' = [pc EXCEPT ![t] = "idle"]
    /\ want' = [want EXCEPT ![t] = NoRequest]
    /\ UNCHANGED <<next_, priority_, first>>

\* Status::Busy: the caller is back in its own code, with its locks.
ReturnBusy(t) ==
    /\ pc' = [pc EXCEPT ![t] = "idle"]
    /\ want' = [want EXCEPT ![t] = NoRequest]
    /\ UNCHANGED <<next_, priority_, first, table_, held_>>

Die(t, k, mode) ==
    /\ OlderConflict(t, k, mode)
    /\ ReturnBusy(t)

\* Faulty variant: the wait starts without recording what to re-check.
SleepWithoutRequest(t, k, mode) ==
    /\ ConflictingHolders(t, k, mode) # {}
    /\ ~OlderConflict(t, k, mode)
    /\ pc' = [pc EXCEPT ![t] = "waiting"]
    /\ UNCHANGED <<next_, priority_, first, table_, held_, want>>

Sleep(t, k, mode) ==
    /\ ConflictingHolders(t, k, mode) # {}
    /\ ~OlderConflict(t, k, mode)
    /\ pc' = [pc EXCEPT ![t] = "waiting"]
    /\ want' = [want EXCEPT ![t] = [key |-> k, mode |-> mode]]
    /\ UNCHANGED <<next_, priority_, first, table_, held_>>

Scan(t, k, mode) == Grant(t, k, mode) \/ Die(t, k, mode) \/ Sleep(t, k, mode)

-----------------------------------------------------------------------------
(* The steps of the threads. *)

Acquire(t, k, mode) ==
    /\ pc[t] = "idle"
    /\ Scan(t, k, mode)

WakeUp(t) ==
    /\ pc[t] = "woken"
    /\ Scan(t, want[t].key, want[t].mode)

\* A condition variable may also return without a notification.
SpuriousWakeUp(t) ==
    /\ pc[t] = "waiting"
    /\ Scan(t, want[t].key, want[t].mode)

\* The deadline passes: Busy, without another look at the holders.
TimeOut(t) ==
    /\ pc[t] \in {"waiting", "woken"}
    /\ ReturnBusy(t)

\* Faulty variant: the waiters are not notified.
ReleaseAllSilently(t) ==
    /\ pc[t] = "idle"
    /\ table_' = [k \in Key |-> IF k \in held_[t]
                                THEN [table_[k] EXCEPT ![t] = NotHeld]
                                ELSE table_[k]]
    /\ held_' = [held_ EXCEPT ![t] = {}]
    /\ pc' = [pc EXCEPT ![t] = "ended"]
    /\ UNCHANGED <<next_, priority_, first, want>>

\* Faulty variant: notify_one, so a single waiter learns of the release.
ReleaseAllNotifyOne(t) ==
    /\ pc[t] = "idle"
    /\ table_' = [k \in Key |-> IF k \in held_[t]
                                THEN [table_[k] EXCEPT ![t] = NotHeld]
                                ELSE table_[k]]
    /\ held_' = [held_ EXCEPT ![t] = {}]
    /\ LET sleepers == {u \in TxId : pc[u] = "waiting"}
       IN  \E one \in SUBSET sleepers :
              /\ Cardinality(one) = IF sleepers = {} THEN 0 ELSE 1
              /\ pc' = [u \in TxId |-> IF u = t THEN "ended"
                                       ELSE IF u \in one THEN "woken" ELSE pc[u]]
    /\ UNCHANGED <<next_, priority_, first, want>>

\* Commit, Abort and Poison end the transaction with ReleaseAll; notify_all
\* is skipped when the transaction held nothing.
ReleaseAll(t) ==
    /\ pc[t] = "idle"
    /\ table_' = [k \in Key |-> IF k \in held_[t]
                                THEN [table_[k] EXCEPT ![t] = NotHeld]
                                ELSE table_[k]]
    /\ held_' = [held_ EXCEPT ![t] = {}]
    /\ pc' = [u \in TxId |->
                 IF u = t THEN "ended"
                 ELSE IF pc[u] = "waiting" /\ held_[t] # {} THEN "woken"
                 ELSE pc[u]]
    /\ UNCHANGED <<next_, priority_, first, want>>

Next ==
    \/ \E prev \in Retriable \cup {kInvalidTxId} : Begin(prev)
    \/ \E t \in TxId :
          \/ \E k \in Key, mode \in LockMode : Acquire(t, k, mode)
          \/ WakeUp(t)
          \/ SpuriousWakeUp(t)
          \/ TimeOut(t)
          \/ ReleaseAll(t)

Spec == Init /\ [][Next]_vars

(***************************************************************************)
(* A notified thread gets the mutex and re-checks; an application ends     *)
(* every transaction that is not blocked in Acquire.  Nothing is assumed   *)
(* of TimeOut and SpuriousWakeUp: the backstop need not fire.              *)
(***************************************************************************)
Fairness ==
    \A t \in TxId : WF_vars(WakeUp(t)) /\ SF_vars(ReleaseAll(t))

FairSpec == Spec /\ Fairness

-----------------------------------------------------------------------------
(* Properties. *)

\* Every variable has its type, and a thread has a request exactly while it is
\* inside the wait of Acquire.
TypeOK ==
    /\ next_ \in 1..(MaxTxId + 1)
    /\ priority_ \in [TxId -> 0..MaxTxId]
    /\ first \in [TxId -> 0..MaxTxId]
    /\ table_ \in [Key -> [TxId -> LockMode \cup {NotHeld}]]
    /\ held_ \in [TxId -> SUBSET Key]
    /\ pc \in [TxId -> PC]
    /\ want \in [TxId -> Request \cup {NoRequest}]
    /\ \A t \in TxId : pc[t] \in {"waiting", "woken"} => want[t] \in Request

\* An exclusive holder is the sole holder of its key, upgrades included: the
\* isolation that strict two-phase locking is there for (lock_manager.h:5-8).
ExclusiveHolderIsAlone ==
    \A k \in Key : \A t, u \in Holders(k) :
        t # u => table_[k][t] = "kShared" /\ table_[k][u] = "kShared"

\* held_ and table_ agree, so ReleaseAll, which walks held_ only, leaves no
\* lock of an ended transaction behind in table_.
HeldMatchesTable ==
    \A t \in TxId :
        /\ held_[t] = {k \in Key : table_[k][t] # NotHeld}
        /\ ~Live(t) => held_[t] = {}

\* A retry is refused only because of elders: whenever Acquire would return
\* Busy to t for an older conflicting holder, that holder's work began (with
\* its first attempt) before t's did.  So whoever begins later never outranks
\* a victim, however often it retries (lock_manager.h:17-25).
OnlyEldersRefuse ==
    \A t \in TxId, k \in Key, mode \in LockMode :
        Live(t) /\ OlderConflict(t, k, mode) =>
            \E h \in ConflictingHolders(t, k, mode) : first[h] < first[t]

\* A thread asleep in Acquire that nobody has notified still has a conflicting
\* holder no older than itself, even if callers reuse an age: the release it
\* waits for has not happened, so its wakeup cannot have been lost.
SleeperHasBlocker ==
    \A t \in TxId : pc[t] = "waiting" =>
        \E h \in ConflictingHolders(t, want[t].key, want[t].mode) :
            priority_[t] <= priority_[h]

\* What db.h:388-396 asks of the callers of Begin(retry_of), and Begin does not
\* check: no two live transactions have the same age.
AgesDiffer ==
    \A t, u \in TxId : Live(t) /\ Live(u) /\ t # u => priority_[t] # priority_[u]

\* Whatever the interleaving, the live transactions are never all asleep unless
\* two of them share an age: one can run and, ending, will wake the others.
NeverAllAsleep ==
    AgesDiffer /\ (\E t \in TxId : Live(t)) =>
        \E t \in TxId : pc[t] \in {"idle", "woken"}

\* Locks are held to the end: no step but the end of the transaction takes a
\* lock away, and an exclusive lock is never downgraded (Get after Put).
LocksOnlyGrow ==
    [][\A k \in Key, t \in TxId :
          table_[k][t] # NotHeld /\ table_'[k][t] # table_[k][t] =>
              \/ table_'[k][t] = "kExclusive"
              \/ pc'[t] = "ended"]_vars

\* No call of Acquire sleeps for ever, although neither the timeout nor a
\* spurious wakeup is assumed to help, unless at some moment of the wait two
\* live transactions share an age.
EveryWaitEnds ==
    \A t \in TxId : pc[t] = "waiting" ~> (pc[t] # "waiting" \/ ~AgesDiffer)

\* The waits-for graph: a thread inside the wait of Acquire waits for each
\* transaction that now holds its key in a conflicting mode.
WaitsFor(t, h) ==
    /\ pc[t] = "waiting"
    /\ h \in ConflictingHolders(t, want[t].key, want[t].mode)

\* lock_manager.h:12-14: "Because a transaction only ever waits for younger
\* holders, the waits-for graph has no cycles - no deadlock is possible."
\* Stated for live transactions of different ages, the case the file is about.
WaitsForHasNoCycle ==
    AgesDiffer =>
      \A S \in SUBSET TxId \ {{}} : \E t \in S : \A h \in S : ~WaitsFor(t, h)

=============================================================================
