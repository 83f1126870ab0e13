# TLA+ specifications of PagerDB

PagerDB is an embedded key-value store: a B+ tree of slotted pages in `data.db`,
reached through a buffer pool, made durable by a write-ahead log in `wal.log`, with
explicit transactions under per-key locks. This directory models its concurrent
and its crash behaviour and the layout of its leaf pages, checks small instances with
TLC, and proves the central facts of the lock manager and of the checkpoint gate for
every instance with TLAPS.

## The system

| part | state | operations that change it |
|---|---|---|
| `TxnManager`, `LockManager` | next id; table key -> holders; per-transaction key list; one condition variable | `Begin(retry_of)`, `Acquire`, `ReleaseAll` |
| `DbImpl` gate | `pending_ckpts_`, `gate_mu_`, `gate_cv_`, `checkpoint_mu_`, `active_begun_txns_` | `AcquireWriterLatch`, `AcquireCheckpointLatch`, `MaybeAutoCheckpoint` |
| `DbImpl`, `TxnImpl` | undo list of a transaction, begun flag | `Put`, `Delete`, `Commit`, `Abort`, `Checkpoint`, `Open`/`Recover` |
| `LogWriter`, `LogReader` | buffered and flushed records, base LSN, pages imaged since truncation | `Append`, `AppendPageImage`, `Flush`, `FlushTo`, `Truncate`, `ReadAll` |
| `BPlusTree`, `NodeView` | pages, root | `Put`, `PutPessimistic`, `SplitLeaf`, `Delete`, `Seek` |
| `BufferPool` | frames, pins, dirty bits, LRU order | `FetchPage`, `NewPage`, eviction, `FlushAll` |
| `Pager` | two meta slots, page file, free list | `ReadPage`, `WritePage`, `AllocatePage`, `PersistMeta`, `Sync` |
| `Page` | slot directory, record area, dead bytes | `InsertRecordAt`, `DeleteRecord`, `Compact` |

What makes it hard: record groups of concurrent operations interleave in one log;
dirty pages may be written before commit (steal) and need not be at commit
(no-force); a checkpoint may run while transactions are open; a crash may tear a page
or the log tail, and may happen again during recovery; a waiter sleeps on a condition
variable shared by all keys.

## Modules

**`LockManager`** (`txn/lock_manager.cc`, `txn_manager.h`). `table_` is the lock table,
`held_` the per-transaction key list, `priority_` the wait-die age that `Begin(retry_of)`
hands on. `Begin` does not check `retry_of`, so the model's callers pass the `id()` of any
transaction, ended or still live; that no two live transactions share an age, which `db.h`
asks of the callers, is the predicate `AgesDiffer`, named in the properties that need it.
`first` is a history variable: the first attempt of which a transaction is a retry. `Acquire` takes the mutex for a whole scan, so a scan is one step that grants,
dies, or goes to sleep; waking up is a step of its own that scans again. The
one-second backstop is the action `TimeOut`, which may fire at any time.

**`CheckpointGate`** (`db.cc`). The writer gate at the granularity of its atomic operations:
test the counter, lock the gate mutex, evaluate the predicate, sleep, take the shared
latch; a checkpoint raises the counter, takes the exclusive latch, lowers the
counter under the mutex, notifies. `begun_` and `inlog` are the transactions that have
logged a Begin and those with records in the log. The write itself is one step,
because the tree's own latches do not matter to the gate.

**`TreePages`** and **`Recovery`** (`db.cc`, `btree.cc`, `wal/`, `buffer_pool.cc`). `TreePages` holds the pages, what an
operation on the tree does to them and the log records it writes; `Recovery` runs
operations of several writers, one record per step, over a pool, a disk and a log,
with checkpoints, crashes and recovery. **`KvStore`** is the abstract store
`Recovery` implements: a commit happens at one point, an acknowledged commit survives
a crash, an unacknowledged one may or may not, nothing else does.

Two devices keep `Recovery` small. Eviction is lazy: instead of a write-back action,
each page keeps the versions the code could have written since its last sync, and
the crash chooses among them (or a torn page); the WAL rule is applied to each
version when the page is unpinned. And redo is one step, since nothing can be observed
between two of its records and a crash inside it restarts from the same disk and log,
up to page versions which the lazy disk already offers. Undo is one step per record,
because it appends to the log. The model is that of `sync_on_write = true`.

**`SlottedPage`** (`page_format.h`, `page.cc`, `node.cc`, `BPlusTree::Put`). One leaf in the
byte sizes of the code: slot directory, record area, dead bytes, compaction, the three
cases of an update, and the split by record count, after which the model goes on with
either half. A record is its key and its length; `kv` and `load` are history variables,
what the leaf should hold and what the last call asked it to hold.

## Runs

| run | instance | shows |
|---|---|---|
| `lock_manager` | 2 keys, 4 ids, 3 at a time | mutual exclusion, table and key lists agree, a retry is refused only by elders, no lost wakeup; while live ages differ, no global deadlock and every wait ends |
| `lock_manager_waitcycle` | 2 keys, 3 ids | violation: the waits-for graph does get a cycle |
| `checkpoint_gate` | 3 threads, log limit 1 | checkpoint runs alone, is not starved, wakes parked writers; log bounded and never cut under an open transaction |
| `checkpoint_gate_abort` | 2 threads | violation: an abort leaves a long log nobody truncates |
| `recovery_concurrent` | 2 writers at a time, 1 crash | refinement of `KvStore`, tree well formed, recovery never fails |
| `recovery_crashes` | 1 writer at a time, 2 crashes | the same with a crash during recovery |
| `recovery_checkpoint` | 1 checkpoint, 1 crash | refinement and tree shape with a crash at each checkpoint step |
| `recovery_emptytree` | empty tree | violation: a loser's first insert survives |
| `recovery_txid` | 2 crashes | violation: the undo id closes an old incomplete group |
| `recovery_torntail` | 2 crashes, torn tail | violation: undo records behind a torn record are lost |
| `slotted_page` | 4 keys, sizes 900, 1900, 4044, 4045 | the page is valid, no byte is lost, records read back, a leaf splits only when full |
| `slotted_page_limit` | 8 keys, sizes 2 and 900 | violation: a `Put` below the documented size limit fails in a split |

Bounds. Two keys and three open transactions (`MaxLive`) are the least for a cycle of two
sleepers with a third, younger holder; four ids are the least for the retry of a retry that
meets a later transaction. The last id may be begun with an age that is in use (`FirstClash`):
its live attempt's, or that of another retry of the same victim. Two such transactions can
wait for each other until the timeout, so `NeverAllAsleep` and `EveryWaitEnds` need their
exception for shared ages; the others hold without one. Three threads give a checkpoint, a writer that passed the gate
and one that is parked. In `Recovery` a value
is also its size and a leaf has room for 4; the left leaf starts full, so an insert of
key 3 splits it; two writers are enough for groups to interleave, `MaxStolen` is
the number of pages that a crash finds written since the last fsync. The passing
`Recovery` runs start with a non-empty tree (`StartEmpty = FALSE`), in a process that has
used id 1 already (`FirstTx = 2`), and without torn log records (`TornTail = FALSE`): each
of these three settings leaves out one situation that a violation run is about, so what the
passing runs show is subject to those three findings. In `SlottedPage` four 900-byte records
fit into a leaf, two of 1900 bytes do, one of 4044 bytes fills it exactly and 4045 is one too
many, so every case of `UpdateLeaf` and `EnsureFit` that a caller can meet is taken. `slotted_page_limit` merges
states with the same contents (a `VIEW`); that can only hide violations, not make one.

Fairness. `LockManager` assumes weak fairness of a notified thread's re-check and
strong fairness of the end of a transaction (an application ends every transaction that
is not blocked); nothing is assumed of the timeout, so waits end without it.
`CheckpointGate` assumes only weak fairness of the steps of an entered call: a lock that
stays free is taken. `std::mutex` and `std::shared_mutex` promise no more, and the gate is
there because of that. Nobody is obliged to make a call.

## Proofs

`LockManagerProofs` proves, for any set of keys and any number of transactions, type
correctness, `ExclusiveHolderIsAlone`, `HeldMatchesTable`, `OnlyEldersRefuse`, `SleeperHasBlocker`,
`NeverAllAsleep` and the action property `LocksOnlyGrow`. `NeverAllAsleep` is not inductive: it follows
from `SleeperHasBlocker`, that a sleeper which was not notified has a conflicting holder no
older than itself. When live ages differ that holder is younger, so the youngest sleeper's
holder is awake. `OnlyEldersRefuse` needs `AgeIsFirst`, that through any number of retries the
age stays the id of the first attempt. `IInv` is the conjunction of these two with the types,
mutual exclusion and the agreement of table and key lists.

`CheckpointGateProofs` proves, for any finite set of threads and any log limit,
`CheckpointRunsAlone`, `GateIsHeldUpBySomeone`, `ParkedWriterWillBeNotified`,
`LogKeepsBegunTransactions` and `IdleHandleCanTruncate`. Its `IInv` adds what makes them
inductive: each counter equals the size of the set it counts; a thread is at a place
of the code exactly when it holds the latch that place needs; a writer between its look
at the counter and its sleep holds `gate_mu_`, so the gate cannot come down there; a
checkpoint that decided to truncate still sees no begun transaction, since beginning one
takes the shared side. The assumptions are only that the threads are finitely many and
that the log limit is positive.

Liveness, `WalStaysBounded`, and everything about `Recovery` and `SlottedPage` are
model-checked only. Recursive definitions and induction over data are beyond the
installed provers.

## Disagreements between code and documentation

The six violation runs are described under `findings` in `PROJECT.json`, with the lines.

## Not modelled, and plan

I/O errors at run time and the poisoning they cause, record encodings and checksums,
internal nodes and cursors, the command-line client, `File`. In this order: the B+ tree with
latch crabbing, internal splits and cursors against a concurrent writer; the two meta slots
of `Pager` and a crash while a file is created; the frame table of `BufferPool` and its
exhaustion; I/O errors and poisoning in `Recovery`; a proof of the abstract store's
invariants.
