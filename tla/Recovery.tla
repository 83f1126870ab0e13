------------------------------ MODULE Recovery ------------------------------
(***************************************************************************)
(* The write path, checkpoints and crash recovery of the store (db.cc with *)
(* btree.cc, log_writer.cc, buffer_pool.cc): autocommit writes and         *)
(* explicit transactions whose record groups interleave in the log, dirty  *)
(* pages that reach the file at any time, fuzzy checkpoints, and crashes   *)
(* at any step, recovery included.                                         *)
(*                                                                         *)
(* The record at position i of the log has LSN base + i.  A tree operation *)
(* knows its records when it has its latches (TreePages), and appends them *)
(* one step at a time; its pages stay latched and pinned to the end.       *)
(*                                                                         *)
(* Evicting a dirty page changes nothing but the files: it flushes the log *)
(* (EnforceWalRule) and writes the page.  So it is no action of its own:   *)
(* stolen[p] has every version of p that can have been evicted since the   *)
(* last fsync, with the length of the log that was durable before the page *)
(* was written, and a crash chooses among them.  The same goes for the log *)
(* itself: a crash keeps any part of the records not known to be durable.  *)
(* Left out: num_keys (a statistic), I/O errors, and readers.              *)
(***************************************************************************)
EXTENDS TreePages, SequencesExt, TLC

CONSTANTS
    MaxTx,          \* bound: transaction ids of one run are 1..MaxTx
    FirstTx,        \* the first id of the run the model starts in
    Writes,         \* the writes to choose from: <<key, value>>, Absent to delete
    MaxWrites,      \* bound: writes, in all
    MaxWriters,     \* bound: tree operations at a time
    MaxCheckpoints, \* bound: calls of Checkpoint, in all
    MaxCrashes,     \* bound: crashes, in all
    MaxStolen,      \* bound: pages that a crash finds written since the last fsync
    StartEmpty,     \* whether the tree is empty at first
    TornTail        \* whether a crash can leave half a record in the log

ASSUME FirstTxAssumption == FirstTx \in 1..MaxTx

TxId == 1..MaxTx

VARIABLES
    phase,      \* "open", "closed", the part of DB::Open that runs, or "failed"
    mem,        \* the pages as the buffer pool has them
    disk,       \* the pages at the last fsync of the data file
    stolen,     \* stolen[p]: the versions of p that may have been written since
    meta,       \* the meta page in memory: root, number of pages, checkpoint
    dmeta,      \* the meta page on disk
    log,        \* the records since the last truncation
    base,       \* the LSN before the first of them
    flushed,    \* how many of them are certainly durable
    imaged,     \* imaged_since_truncate_
    tx,         \* the transactions of this run
    next_,      \* the next transaction id
    ckpt,       \* where Checkpoint is
    nrec,       \* the number of records that recovery was given
    junk,       \* whether half a record follows those in the file
    pos,        \* the records that undo has yet to look at
    commits,    \* history: committed updates, with the LSN that committed them
    acked,      \* history: how many of them were acknowledged
    budget      \* what is left of the bounds

pool == <<mem, meta, imaged, stolen>>
wal == <<log, base, flushed>>
rec == <<nrec, junk, pos>>
history == <<commits, acked>>
vars == <<phase, disk, dmeta, wal, pool, tx, next_, ckpt, rec, history, budget>>

\* A transaction: its operation's remaining records, the pages that these
\* keep pinned, whether it holds root_latch exclusively, whether kBegin is
\* logged, the undo list, the keys it has locked and their values, and (history)
\* its place in commits.
NoUpdate == [k \in {} |-> Absent]
NoTx == [st |-> "none", kind |-> "none", plan |-> <<>>, pins |-> {}, excl |-> FALSE,
         begun |-> FALSE, undo |-> <<>>, upd |-> NoUpdate, nth |-> 0]

-----------------------------------------------------------------------------
(* The start: an empty tree, or a root above two leaves, the left one full *)
(* (with keys 1 and 2, of 1..3), the right one with key 4.                 *)

Low == {1, 2, 3}
StartKv == [k \in Key |-> IF k \in {1, 2} THEN 2 ELSE IF k = 4 THEN 1 ELSE Absent]
StartContents == IF StartEmpty THEN NoKeys ELSE StartKv

StartPages ==
    [p \in Page |->
        IF StartEmpty THEN Zeroed
        ELSE CASE p = 1 -> Internal([k \in Key |-> IF k \in Low THEN 2 ELSE 3])
               [] p = 2 -> Leaf(Only(StartKv, Low), 0, 3)
               [] p = 3 -> Leaf(Only(StartKv, Key \ Low), 2, 0)
               [] OTHER -> Zeroed]

Nothing == [p \in Page |-> {}]

Init ==
    /\ phase = "open"
    /\ mem = StartPages
    /\ disk = mem
    /\ stolen = Nothing
    /\ meta = [root |-> IF StartEmpty THEN 0 ELSE 1,
               np |-> IF StartEmpty THEN 0 ELSE 3, checkpoint_lsn |-> 1]
    /\ dmeta = meta
    /\ log = <<>>
    /\ base = 0
    /\ flushed = 0
    /\ imaged = {}
    /\ tx = [t \in TxId |-> NoTx]
    /\ next_ = FirstTx
    /\ ckpt = "none"
    /\ nrec = 0
    /\ junk = FALSE
    /\ pos = 0
    /\ commits = <<>>
    /\ acked = 0
    /\ budget = [writes |-> MaxWrites, ckpts |-> MaxCheckpoints, crashes |-> MaxCrashes]

-----------------------------------------------------------------------------
(* The log and the pool. *)

\* What appending record r does: the change to its page, with the record's LSN,
\* and the record itself into the buffer of the log.  NewPage writes the zeroed
\* page to the file at once.
Logged(s, r) ==
    LET lsn == base + Len(s.log) + 1
        p == r.page_id
        img == IF r.relink THEN Relinked(s.mem[p], r.img) ELSE r.img
        full == [r EXCEPT !.img = img, !.relink = FALSE]
        t == [s EXCEPT !.log = Append(@, full)]
    IN  CASE r.type = "kAllocPage" ->
                [t EXCEPT !.mem[p] = Zeroed, !.meta.np = p,
                          !.stolen[p] = @ \cup {[page |-> Zeroed, need |-> 0]}]
          [] r.type = "kPageImage" ->
                [t EXCEPT !.mem[p] = Redone(@, full, lsn), !.imaged = @ \cup {p}]
          [] r.type \in {"kPut", "kDelete"} -> [t EXCEPT !.mem[p] = Redone(@, r, lsn)]
          [] r.type = "kRootChange" -> [t EXCEPT !.meta.root = p]
          [] OTHER -> t

\* Faulty variant: the log is flushed only up to the page's own LSN.
EnforceWalRuleToPageLsn(s, p) == s.mem[p].lsn - base

\* BufferPool::EnforceWalRule: the whole log is flushed before the page is
\* written, and not just up to the LSN of the page.
EnforceWalRule(s, p) == Len(s.log)

\* The operation ends and unpins its pages: from now on they can be evicted.
Unpinned(s, pages) ==
    [s EXCEPT !.stolen = [p \in Page |->
        IF p \in pages THEN @[p] \cup {[page |-> s.mem[p], need |-> EnforceWalRule(s, p)]}
        ELSE @[p]]]

PoolAndLog == [log |-> log, mem |-> mem, meta |-> meta, imaged |-> imaged, stolen |-> stolen]
Becomes(s) ==
    /\ log' = s.log
    /\ mem' = s.mem
    /\ meta' = s.meta
    /\ imaged' = s.imaged
    /\ stolen' = s.stolen

\* LogWriter::Flush.
Flush == flushed' = Len(log)

-----------------------------------------------------------------------------
(* Latches and locks. *)

\* Inside a public call, with the writer latch held.
Running == {t \in TxId : tx[t].st \in {"write", "commit", "abort", "end"}}
\* Inside a tree operation.
InTree == {t \in Running : tx[t].plan # <<>>}
Pinned == UNION {tx[t].pins : t \in InTree}

\* The keys that a transaction has locked exclusively.
Locked(t) == IF tx[t].kind = "txn" THEN DOMAIN tx[t].upd ELSE {}

PagesOf(plan) == {plan[i].page_id : i \in DOMAIN plan} \ {0}
Allocates(plan) == \E i \in DOMAIN plan : plan[i].type = "kAllocPage"

\* The pages an operation latches on its way down.  A split latches the right
\* sibling later, when it comes to that page (AppendRecord).
LatchedBy(plan) ==
    PagesOf(plan) \ {plan[i].page_id : i \in {j \in DOMAIN plan : plan[j].relink}}

\* The latches of a tree operation are free: nobody holds root_latch
\* exclusively, nor a latch on a page it changes.  (MaxPage bounds the file.)
CanLatch(plan) ==
    /\ \A t \in InTree : ~tx[t].excl
    /\ LatchedBy(plan) \cap Pinned = {}
    /\ PagesOf(plan) \subseteq Page
    /\ Cardinality(InTree) < MaxWriters

TreeOp(k, v, needs_undo) ==
    IF v = Absent THEN Delete(mem, meta.root, imaged, k, needs_undo)
    ELSE Put(mem, meta.root, meta.np, imaged, k, v, needs_undo)

-----------------------------------------------------------------------------
(* Entering a public call. *)

\* Bound: nothing is called once no crash can follow.
MayCall == phase = "open" /\ ckpt = "none" /\ budget.crashes > 0

Marker(type) == Record(type, 0, TRUE)

WithPlan(x, st, plan) ==
    [x EXCEPT !.st = st, !.plan = plan, !.pins = LatchedBy(plan), !.excl = Allocates(plan)]

\* DB::Put and DB::Delete: a fresh transaction id, no markers.  Autocommit
\* writes keep off the keys of open transactions, as db.h:151-158 asks.
Autocommit(k, v) ==
    LET plan == TreeOp(k, v, FALSE)
    IN  /\ MayCall /\ budget.writes > 0
        /\ next_ <= MaxTx
        /\ \A u \in TxId : k \notin Locked(u)
        /\ plan # <<>> /\ CanLatch(plan)
        /\ next_' = next_ + 1
        /\ tx' = [tx EXCEPT ![next_] =
                     WithPlan([NoTx EXCEPT !.kind = "auto", !.upd = k :> v], "write", plan)]
        /\ budget' = [budget EXCEPT !.writes = @ - 1]
        /\ UNCHANGED <<phase, disk, dmeta, wal, pool, ckpt, rec, history>>

\* Transaction::Put and Delete: the key lock, EnsureBegun, the tree operation
\* and the undo list.  Deleting a missing key still logs kBegin.  DB::Begin only
\* takes an id, and is part of the first write.
TxnWrite(t, k, v) ==
    LET plan == TreeOp(k, v, TRUE)
        begin == IF tx[t].begun THEN <<>> ELSE <<Marker("kBegin")>>
        entry == [key |-> k, before |-> Get(mem, meta.root, k)]
        x == [tx[t] EXCEPT !.kind = "txn", !.begun = TRUE, !.upd = (k :> v) @@ @,
                           !.undo = IF plan = <<>> THEN @ ELSE Append(@, entry)]
    IN  /\ MayCall /\ budget.writes > 0
        /\ IF t = next_ THEN next_' = next_ + 1
                        ELSE tx[t].st = "open" /\ UNCHANGED next_
        /\ \A u \in TxId \ {t} : k \notin Locked(u)
        /\ begin \o plan # <<>> /\ CanLatch(plan)
        /\ tx' = [tx EXCEPT ![t] = WithPlan(x, "write", begin \o plan)]
        /\ budget' = [budget EXCEPT !.writes = @ - 1]
        /\ UNCHANGED <<phase, disk, dmeta, wal, pool, ckpt, rec, history>>

Commit(t) ==
    /\ MayCall
    /\ tx[t].st = "open"
    /\ tx' = [tx EXCEPT ![t] = WithPlan(@, "commit", <<Marker("kCommit")>>)]
    /\ UNCHANGED <<phase, disk, dmeta, wal, pool, next_, ckpt, rec, history, budget>>

\* Faulty variant: the writes are undone oldest first.
OldestFirst(undo) == [entry |-> Head(undo), rest |-> Tail(undo)]

\* Undo walks the list backwards.
NextUndo(undo) == [entry |-> Last(undo), rest |-> Front(undo)]

\* Abort: the next inverse write, and kAbort after the last one, in one hold of
\* the writer latch.
Abort(t) ==
    /\ \/ tx[t].st = "open" /\ MayCall
       \/ tx[t].st = "abort" /\ tx[t].plan = <<>>
    /\ IF tx[t].undo = <<>>
       THEN tx' = [tx EXCEPT ![t] = WithPlan(@, "end", <<Marker("kAbort")>>)]
       ELSE LET u == NextUndo(tx[t].undo)
                plan == TreeOp(u.entry.key, u.entry.before, FALSE)
            IN  /\ CanLatch(plan)
                /\ tx' = [tx EXCEPT ![t] = WithPlan([@ EXCEPT !.undo = u.rest], "abort", plan)]
    /\ UNCHANGED <<phase, disk, dmeta, wal, pool, next_, ckpt, rec, history, budget>>

-----------------------------------------------------------------------------
(* The steps of a call. *)

\* What becomes committed when record r of t enters the log.
CommittedBy(t, r, lsn) ==
    IF (tx[t].kind = "auto" /\ r.op_end) \/ r.type = "kCommit"
    THEN <<[lsn |-> lsn, upd |-> tx[t].upd]>> ELSE <<>>

\* The transaction after its last record: a write of a transaction returns, and
\* so does Abort, without a flush; the others have ReturnDurable to come.
Finished(x) ==
    CASE x.st = "end" -> NoTx
      [] x.st = "write" /\ x.kind = "txn" -> [x EXCEPT !.st = "open", !.pins = {}, !.excl = FALSE]
      [] OTHER -> [x EXCEPT !.pins = {}, !.excl = FALSE]

\* The next record of an operation.  The right sibling of a split is latched
\* when its turn comes.
AppendRecord(t) ==
    LET r == [Head(tx[t].plan) EXCEPT !.txid = t]
        rest == Tail(tx[t].plan)
        pins == tx[t].pins \cup ({r.page_id} \ {0})
        s == Logged(PoolAndLog, r)
        x == [tx[t] EXCEPT !.plan = rest, !.pins = pins, !.nth = Len(commits')]
    IN  /\ t \in InTree
        /\ \A u \in InTree \ {t} : r.page_id \notin tx[u].pins
        /\ Becomes(IF rest = <<>> THEN Unpinned(s, pins) ELSE s)
        /\ commits' = commits \o CommittedBy(t, r, base + Len(log'))
        /\ tx' = [tx EXCEPT ![t] = IF rest = <<>> THEN Finished(x) ELSE x]
        /\ UNCHANGED <<phase, disk, dmeta, base, flushed, next_, ckpt, rec, acked, budget>>

\* Faulty variant: the call returns before the log is flushed.
ReturnDurableUnflushed(t) ==
    /\ tx[t].st = "commit" \/ tx[t].kind = "auto"
    /\ acked' = Max({acked, tx[t].nth})
    /\ tx' = [tx EXCEPT ![t] = NoTx]
    /\ UNCHANGED flushed

\* Autocommit writes and Commit flush the log, then return Ok (and a
\* transaction drops its locks).
ReturnDurable(t) ==
    /\ tx[t].st = "commit" \/ tx[t].kind = "auto"
    /\ Flush
    /\ acked' = Max({acked, tx[t].nth})
    /\ tx' = [tx EXCEPT ![t] = NoTx]

Return(t) ==
    /\ t \in Running /\ tx[t].plan = <<>>
    /\ ReturnDurable(t)
    /\ UNCHANGED <<phase, disk, dmeta, log, base, pool, next_, ckpt, rec, commits, budget>>

-----------------------------------------------------------------------------
(* Checkpoint: explicit, or the last part of recovery.  A crash may keep any *)
(* record of the log that is not known to be durable, so a flush is one step *)
(* with what follows it.                                                     *)

\* The begun transactions that stop the truncation.
ActiveBegun == {t \in TxId : tx[t].begun}

\* The exclusive latch.
CheckpointBegin ==
    /\ MayCall /\ budget.ckpts > 0
    /\ Running = {}
    /\ ckpt' = "pages"
    /\ budget' = [budget EXCEPT !.ckpts = @ - 1]
    /\ UNCHANGED <<phase, disk, dmeta, wal, pool, tx, next_, rec, history>>

\* Faulty variant: the log is truncated whoever is still running.
AfterSyncAlways == "mark"

\* The fuzzy-checkpoint rule: keep the log of unfinished transactions.
AfterSync == IF ActiveBegun = {} THEN "mark" ELSE "done"

\* The log is flushed, FlushAll writes the dirty pages (a part of them, if the
\* crash comes before this step), and SyncData makes them durable.
CheckpointPages ==
    /\ ckpt = "pages"
    /\ Flush
    /\ disk' = mem
    /\ stolen' = Nothing
    /\ ckpt' = AfterSync
    /\ UNCHANGED <<phase, dmeta, log, base, mem, meta, imaged, tx, next_, rec, history, budget>>

\* The marker is appended.
CheckpointMark ==
    /\ ckpt = "mark"
    /\ log' = Append(log, Marker("kCheckpoint"))
    /\ ckpt' = "meta"
    /\ UNCHANGED <<phase, disk, dmeta, base, flushed, pool, tx, next_, rec, history, budget>>

\* The marker is flushed; SetCheckpointLsn and Pager::Sync.
CheckpointMeta ==
    /\ ckpt = "meta"
    /\ Flush
    /\ meta' = [meta EXCEPT !.checkpoint_lsn = base + Len(log) + 1]
    /\ dmeta' = meta'
    /\ ckpt' = "truncate"
    /\ UNCHANGED <<phase, disk, log, base, mem, imaged, stolen, tx, next_, rec, history, budget>>

\* LogWriter::Truncate.
CheckpointTruncate ==
    /\ ckpt = "truncate"
    /\ log' = <<>>
    /\ base' = meta.checkpoint_lsn - 1
    /\ flushed' = 0
    /\ imaged' = {}
    /\ junk' = FALSE
    /\ ckpt' = "done"
    /\ UNCHANGED <<phase, disk, dmeta, mem, meta, stolen, tx, next_, nrec, pos, history, budget>>

\* The latch is released; the last step of DB::Open.
CheckpointEnd ==
    /\ ckpt = "done"
    /\ ckpt' = "none"
    /\ phase' = "open"
    /\ UNCHANGED <<disk, dmeta, wal, pool, tx, next_, rec, history, budget>>

-----------------------------------------------------------------------------
(* Crash. *)

\* A page that was being written may be torn.
Versions(p) == stolen[p] \cup {[v EXCEPT !.page = Torn] : v \in stolen[p]}

\* The choices of at most MaxStolen pages that were written, and of their
\* versions.
Stolen ==
    UNION {{f \in [ps -> UNION {Versions(p) : p \in ps}] : \A p \in ps : f[p] \in Versions(p)} :
             ps \in {s \in SUBSET {p \in Page : stolen[p] # {}} : Cardinality(s) <= MaxStolen}}

\* What is in memory is lost, and what the log holds beyond a record that is cut
\* in two.
Crash ==
    /\ budget.crashes > 0
    /\ phase # "closed"
    /\ \E n \in flushed .. Len(log), written \in Stolen :
         /\ \A p \in DOMAIN written : written[p].need <= n
         /\ log' = SubSeq(log, 1, n)
         /\ flushed' = n
         /\ \E half \in IF TornTail /\ n < Len(log) THEN BOOLEAN ELSE {FALSE} :
                junk' = (half \/ junk)
         /\ nrec' = IF junk THEN nrec ELSE n
         /\ commits' = SelectSeq(commits, LAMBDA c : c.lsn <= base + nrec')
         /\ disk' = [p \in Page |-> IF p \in DOMAIN written THEN written[p].page ELSE disk[p]]
    /\ mem' = disk'
    /\ meta' = dmeta
    /\ imaged' = {}
    /\ stolen' = Nothing
    /\ tx' = [t \in TxId |-> NoTx]
    /\ next_' = 1
    /\ ckpt' = "none"
    /\ pos' = 0
    /\ phase' = "closed"
    /\ budget' = [budget EXCEPT !.crashes = @ - 1]
    /\ UNCHANGED <<dmeta, base, acked>>

-----------------------------------------------------------------------------
(* DB::Open and Recover. *)

Records == {i \in 1..nrec : base + i >= dmeta.checkpoint_lsn}

\* Faulty variant: a group without its last record is replayed as well.
ApplicableAll(i) == i \in Records

\* A record is replayed if the group of its transaction is complete.
Applicable(i) ==
    /\ i \in Records
    /\ \E j \in Records : j >= i /\ log[j].txid = log[i].txid /\ log[j].op_end

\* ensure_page_exists: the file is extended (again) with zeroed pages.
WithPage(s, p) ==
    LET grown == {q \in Page : s.np < q /\ q <= p}
    IN  [s EXCEPT !.np = Max({@, p}),
                  !.pages = [q \in Page |-> IF q \in grown THEN Zeroed ELSE @[q]],
                  !.written = @ \cup {<<q, Zeroed>> : q \in grown}]

\* The page_lsn guard; an image also replaces a torn page.
Newer(page, lsn) == lsn > page.lsn \/ page = Torn

\* FetchPage succeeds, and RedoPut finds room.
CanRedo(s, r) ==
    /\ r.page_id <= s.np
    /\ s.pages[r.page_id].type = "kLeaf"
    /\ Fits(WithKey(s.pages[r.page_id], r.key, r.value).kv)

\* ApplyRecord, on the pages, root and page count of s.  Pages can be evicted at
\* any time of redo: written collects all versions.
ApplyRecord(s, i) ==
    LET r == log[i]
        p == r.page_id
        lsn == base + i
        isdelta == r.type \in {"kPut", "kDelete"}
        e == IF r.type \in {"kAllocPage", "kPageImage"} THEN WithPage(s, p) ELSE s
        page == Redone(e.pages[p], r, lsn)
    IN  CASE ~s.ok \/ r.type \in {"kBegin", "kCommit", "kAbort", "kCheckpoint"} -> s
          [] s.ok /\ r.type = "kRootChange" -> [s EXCEPT !.root = p]
          [] s.ok /\ r.type = "kAllocPage" -> e
          [] s.ok /\ isdelta /\ (p > s.np \/ s.pages[p] = Torn) -> [s EXCEPT !.ok = FALSE]
          [] OTHER ->
                IF ~Newer(e.pages[p], lsn) THEN e
                ELSE IF isdelta /\ ~CanRedo(s, r) THEN [s EXCEPT !.ok = FALSE]
                ELSE [e EXCEPT !.pages[p] = page, !.written = @ \cup {<<p, page>>}]

\* The state after redo of all applicable records, in LSN order.
Redone0 == [pages |-> mem, np |-> meta.np, root |-> meta.root, written |-> {}, ok |-> TRUE]
RedoAll == FoldLeft(ApplyRecord, Redone0, SelectSeq([i \in 1..nrec |-> i], Applicable))

\* DB::Open, with redo when the log has any bytes.  Redo does not write to the
\* log, so a crash in the middle of it is a crash after it that finds an early
\* version of some pages in the file.
Open ==
    LET s == RedoAll
    IN  /\ phase = "closed"
        /\ IF log = <<>> /\ ~junk
           THEN phase' = "open" /\ UNCHANGED <<pool, next_, pos>>
           ELSE /\ phase' = IF s.ok THEN "undo" ELSE "failed"
                /\ mem' = s.pages
                /\ meta' = [meta EXCEPT !.np = s.np, !.root = s.root]
                /\ stolen' = [p \in Page |->
                                 {[page |-> w[2], need |-> 0] : w \in {x \in s.written : x[1] = p}}]
                /\ next_' = next_ + 1
                /\ pos' = nrec
                /\ UNCHANGED imaged
        /\ UNCHANGED <<disk, dmeta, wal, tx, ckpt, nrec, junk, history, budget>>

\* Began, and neither committed nor aborted.
IsLoser(t) ==
    /\ \E i \in Records : log[i].txid = t /\ log[i].type = "kBegin"
    /\ ~\E i \in Records : log[i].txid = t /\ log[i].type \in {"kCommit", "kAbort"}

\* Record i has an inverse that must be applied.
Inverts(i) ==
    /\ Applicable(i)
    /\ IsLoser(log[i].txid)
    /\ log[i].type = "kPut" \/ (log[i].type = "kDelete" /\ log[i].before # Absent)

undo_txid == 1

\* The pages on the way to a key can be read.
CanReach(k) == meta.root # 0 => mem[FindLeaf(mem, meta.root, k)].type = "kLeaf"

\* The tree operation finds its pages readable: the leaf, and the right sibling
\* that a split relinks.
CanRun(k, plan) ==
    /\ CanReach(k)
    /\ \A i \in DOMAIN plan : plan[i].relink => mem[plan[i].page_id].type = "kLeaf"

\* The inverse of the newest write of a loser that is left, as a tree operation
\* logged under undo_txid.  Recovery has one thread: the operation is one step.
Undo ==
    LET todo == {i \in 1..pos : Inverts(i)}
        r == log[Max(todo)]
        plan == TreeOp(r.key, r.before, FALSE)
        records == [i \in DOMAIN plan |-> [plan[i] EXCEPT !.txid = undo_txid]]
    IN  /\ phase = "undo"
        /\ todo # {}
        /\ pos' = Max(todo) - 1
        /\ CanRun(r.key, plan) => PagesOf(plan) \subseteq Page
        /\ Becomes(IF CanRun(r.key, plan)
                   THEN Unpinned(FoldLeft(Logged, PoolAndLog, records), PagesOf(plan))
                   ELSE PoolAndLog)
        /\ phase' = IF CanRun(r.key, plan) THEN phase ELSE "failed"
        /\ UNCHANGED <<disk, dmeta, base, flushed, tx, next_, ckpt, nrec, junk, history, budget>>

\* No loser's write is left: the end-of-recovery checkpoint.
UndoEnd ==
    /\ phase = "undo"
    /\ \A i \in 1..pos : ~Inverts(i)
    /\ phase' = "checkpoint"
    /\ ckpt' = "pages"
    /\ UNCHANGED <<disk, dmeta, wal, pool, tx, next_, rec, history, budget>>

-----------------------------------------------------------------------------
Call ==
    \/ \E w \in Writes : Autocommit(w[1], w[2])
    \/ \E t \in TxId, w \in Writes : TxnWrite(t, w[1], w[2])
    \/ \E t \in TxId : Commit(t) \/ Abort(t)
    \/ CheckpointBegin

Work ==
    \/ \E t \in TxId : AppendRecord(t) \/ Return(t)
    \/ CheckpointPages \/ CheckpointMark \/ CheckpointMeta
    \/ CheckpointTruncate \/ CheckpointEnd
    \/ Open \/ Undo \/ UndoEnd

Next == Call \/ Work \/ Crash

Spec == Init /\ [][Next]_vars

-----------------------------------------------------------------------------
(* Properties. *)

\* Every variable has its type, and the root is a page of the file.
TypeOK ==
    /\ phase \in {"open", "closed", "undo", "checkpoint", "failed"}
    /\ ckpt \in {"none", "pages", "mark", "meta", "truncate", "done"}
    /\ meta.np \in 0..MaxPage /\ meta.root \in 0..meta.np
    /\ flushed \in 0..Len(log)
    /\ imaged \subseteq 1..meta.np
    /\ \A p \in Page : \A v \in stolen[p] : v.need \in 0..Len(log)
    /\ acked \in 0..Len(commits)

\* A reader of k is kept out: by a lock on the key, or by the latch of a page
\* on the way to it.
Hidden(k) ==
    \/ \E t \in TxId : k \in Locked(t)
    \/ \E t \in InTree : tx[t].excl
    \/ meta.root # 0 /\ FindLeaf(mem, meta.root, k) \in Pinned

Updates == [i \in DOMAIN commits |-> commits[i].upd]
Apply(c, u) == u @@ c
Expected == FoldLeft(Apply, StartContents, Updates)
Visible == [k \in Key |-> IF Hidden(k) THEN Expected[k] ELSE Get(mem, meta.root, k)]

Kv == INSTANCE KvStore
        WITH Update <- UNION {[ks -> 0..MaxVal] : ks \in SUBSET Key},
             Empty <- StartContents,
             committed <- Updates,
             up <- phase = "open",
             visible <- IF phase = "open" THEN Visible ELSE StartContents

\* The store implements its abstract specification: every commit is atomic and
\* visible at once, acknowledged commits survive every crash (also one during
\* recovery), and after recovery exactly the committed updates are there.
ImplementsKvStore == Kv!KvSpec

\* db.h:125-127 on transactions: "nothing it writes is durable until Commit()".
\* A key that no open transaction has locked has its committed value.
OnlyCommittedWritesSurvive ==
    phase = "open" =>
        \A k \in Key : Hidden(k) \/ (CanReach(k) /\ Get(mem, meta.root, k) = Expected[k])

\* db.cc:386-388 on undo: "re-running recovery after a crash mid-undo converges".
\* However often recovery was cut short, it ends with the committed contents.
RecoveryConverges == phase # "failed" /\ OnlyCommittedWritesSurvive

\* Recovery never fails: no record of a complete group meets a page it cannot
\* be applied to.
RecoveryNeverFails == phase # "failed"

\* Between operations the tree of an open store is well formed: the sibling
\* chain follows the key order, and every leaf holds only keys routed to it.
TreeWellFormed == phase = "open" /\ InTree = {} => ChainInOrder(mem, meta.root)

=============================================================================
