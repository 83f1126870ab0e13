---------------------------- MODULE SlottedPage ----------------------------
(***************************************************************************)
(* A leaf as a slotted page (storage/page_format.h, page.cc, btree/node.cc *)
(* and the part of BPlusTree::Put that decides between update, insert and  *)
(* split): a slot directory that grows up, records that grow down, dead    *)
(* bytes in between, and compaction.                                       *)
(*                                                                         *)
(* Offsets and lengths are those of the code, in bytes.  A record is its   *)
(* key and the number of bytes of key and value; the record that lies at   *)
(* the offset of a slot is kept with the slot, which is sound as long as   *)
(* no two live records overlap (Validate).                                 *)
(***************************************************************************)
EXTENDS Integers, Sequences, FiniteSets, SequencesExt, Functions

CONSTANTS
    Key,        \* the keys, numbers in key order
    Size        \* the sizes of key and value together, in bytes

ASSUME SizeAssumption == Key \subseteq Nat \ {0} /\ Size \subseteq Nat \ {0}

kPageSize == 4096
PageHeader == 40
SlotEntry == 8
kMaxLeafRecordBytes == kPageSize - PageHeader - SlotEntry

VARIABLES
    page,       \* the leaf
    kv,         \* history: the size of each key's record, 0 for none
    status,     \* what the last call returned
    load        \* history: what the last call asked the leaf to hold, in bytes

vars == <<page, kv, status, load>>

-----------------------------------------------------------------------------
(* storage::Page. *)

DirectoryEnd(n) == PageHeader + n * SlotEntry

Empty == [slots |-> <<>>, free_space_start |-> PageHeader,
          free_space_end |-> kPageSize, dead_bytes |-> 0]

Slot(offset, length, k, s) ==
    [offset |-> offset, length |-> length, key |-> k, size |-> s, deleted |-> FALSE]

FreeSpace(p) == IF p.free_space_end <= p.free_space_start THEN 0
                ELSE p.free_space_end - p.free_space_start

\* Insert a record at slot index (from 0), shifting the later slots.
InsertRecordAt(p, index, k, s, length) ==
    LET off == p.free_space_end - length
        slots == InsertAt(p.slots, index + 1, Slot(off, length, k, s))
    IN  [p EXCEPT !.slots = slots, !.free_space_end = off,
                  !.free_space_start = DirectoryEnd(Len(slots))]

DeleteRecord(p, index) ==
    [p EXCEPT !.slots[index + 1].deleted = TRUE,
              !.dead_bytes = @ + p.slots[index + 1].length]

\* Faulty variant: the count of dead bytes is not reset.
CompactKeepsDeadBytes(p) ==
    LET Pack(acc, s) ==
            LET end == acc.end - (IF s.deleted THEN 0 ELSE s.length)
            IN  [end |-> end, slots |-> Append(acc.slots,
                    IF s.deleted THEN [s EXCEPT !.offset = 0, !.length = 0]
                    ELSE [s EXCEPT !.offset = end])]
        packed == FoldLeft(Pack, [end |-> kPageSize, slots |-> <<>>], p.slots)
    IN  [p EXCEPT !.slots = packed.slots, !.free_space_end = packed.end]

\* Live records are packed against the end of the page, in slot order.
Compact(p) ==
    LET Pack(acc, s) ==
            LET end == acc.end - (IF s.deleted THEN 0 ELSE s.length)
            IN  [end |-> end, slots |-> Append(acc.slots,
                    IF s.deleted THEN [s EXCEPT !.offset = 0, !.length = 0]
                    ELSE [s EXCEPT !.offset = end])]
        packed == FoldLeft(Pack, [end |-> kPageSize, slots |-> <<>>], p.slots)
    IN  [p EXCEPT !.slots = packed.slots, !.free_space_end = packed.end, !.dead_bytes = 0]

-----------------------------------------------------------------------------
(* btree::NodeView.  An operation that fails leaves the page as it is, and *)
(* gives a page with ok = FALSE.                                           *)

EncodedLength(s) == 4 + s

\* Faulty variant: the search never looks at the right end of its range.
FindKeyIndexShort(p, k) ==
    LET Search[left \in 0..Len(p.slots), right \in 0..Len(p.slots)] ==
            LET mid == left + (right - left) \div 2
            IN  IF left >= right THEN [found |-> FALSE, index |-> left]
                ELSE CASE p.slots[mid + 1].key = k -> [found |-> TRUE, index |-> mid]
                       [] k < p.slots[mid + 1].key -> Search[left, mid]
                       [] OTHER -> Search[mid + 1, IF right > mid + 1 THEN right - 1 ELSE right]
    IN  Search[0, Len(p.slots)]

\* The binary search of the slot directory; index counts from 0.
FindKeyIndex(p, k) ==
    LET Search[left \in 0..Len(p.slots), right \in 0..Len(p.slots)] ==
            LET mid == left + (right - left) \div 2
            IN  IF left >= right THEN [found |-> FALSE, index |-> left]
                ELSE CASE p.slots[mid + 1].key = k -> [found |-> TRUE, index |-> mid]
                       [] k < p.slots[mid + 1].key -> Search[left, mid]
                       [] OTHER -> Search[mid + 1, right]
    IN  Search[0, Len(p.slots)]

\* The empty string, before every key, for an index out of range.
GetKey(p, index) == IF index >= Len(p.slots) THEN 0 ELSE p.slots[index + 1].key

Done(p) == [ok |-> TRUE, page |-> p]
Refused(p) == [ok |-> FALSE, page |-> p]

\* Faulty variant: dead bytes do not count as room.
EnsureFitContiguous(p, needed) ==
    IF FreeSpace(p) >= needed THEN Done(p) ELSE Refused(p)

\* Room for a slot and a record, after compaction if that helps.
EnsureFit(p, needed) ==
    CASE FreeSpace(p) >= needed -> Done(p)
      [] FreeSpace(p) < needed /\ FreeSpace(p) + p.dead_bytes >= needed ->
            [ok |-> FreeSpace(Compact(p)) >= needed, page |-> Compact(p)]
      [] OTHER -> Refused(p)

InsertLeaf(p, k, s) ==
    LET fit == EnsureFit(p, SlotEntry + EncodedLength(s))
        at == FindKeyIndex(fit.page, k)
    IN  IF ~fit.ok \/ at.found THEN Refused(fit.page)
        ELSE Done(InsertRecordAt(fit.page, at.index, k, s, EncodedLength(s)))

\* Faulty variant: a record that grows is overwritten where it lies.
UpdateLeafInPlace(p, k, s) ==
    LET at == FindKeyIndex(p, k)
    IN  IF ~at.found THEN Refused(p)
        ELSE Done([p EXCEPT !.slots[at.index + 1].length = EncodedLength(s),
                            !.slots[at.index + 1].size = s])

\* Shrink in place; grow into free space; or grow after compaction without the
\* old copy.
UpdateLeaf(p, k, s) ==
    LET at == FindKeyIndex(p, k)
        i == at.index + 1
        new_len == EncodedLength(s)
        old_len == p.slots[i].length
        Placed(q) == [q EXCEPT !.free_space_end = @ - new_len,
                               !.slots[i] = Slot(q.free_space_end - new_len, new_len, k, s)]
    IN  CASE ~at.found -> Refused(p)
          [] at.found /\ new_len <= old_len ->
                Done([p EXCEPT !.slots[i].length = new_len, !.slots[i].size = s,
                               !.dead_bytes = @ + (old_len - new_len)])
          [] at.found /\ new_len > old_len /\ FreeSpace(p) >= new_len ->
                Done(Placed([p EXCEPT !.dead_bytes = @ + old_len]))
          [] OTHER ->
                IF FreeSpace(p) + p.dead_bytes + old_len < new_len THEN Refused(p)
                ELSE Done(Placed(Compact(DeleteRecord(p, at.index))))

\* Faulty variant: the bytes of the record are not counted as dead.
DeleteAtUncounted(p, index) ==
    LET slots == RemoveAt(p.slots, index + 1)
    IN  [p EXCEPT !.slots = slots, !.free_space_start = DirectoryEnd(Len(slots))]

DeleteAt(p, index) ==
    LET slots == RemoveAt(p.slots, index + 1)
    IN  [p EXCEPT !.slots = slots, !.free_space_start = DirectoryEnd(Len(slots)),
                  !.dead_bytes = @ + p.slots[index + 1].length]

-----------------------------------------------------------------------------
(* BPlusTree::Put and Delete on the leaf that a key belongs to. *)

\* SplitLeaf: both halves are rebuilt from their entries.
Rebuilt(slots) ==
    FoldLeft(LAMBDA p, s : InsertLeaf(p, s.key, s.size).page, Empty, slots)

Init ==
    /\ page = Empty
    /\ kv = [k \in Key |-> 0]
    /\ status = "ok"
    /\ load = 0

\* The record bytes and slots of a set of records.
Bytes(f) == FoldFunction(LAMBDA s, sum : sum + (IF s = 0 THEN 0 ELSE SlotEntry + EncodedLength(s)),
                         0, f)

\* The leaf is not split: an update in place, or an insert.
PutInLeaf(k, s) ==
    LET r == IF FindKeyIndex(page, k).found THEN UpdateLeaf(page, k, s) ELSE InsertLeaf(page, k, s)
    IN  /\ r.ok
        /\ page' = r.page
        /\ kv' = [kv EXCEPT ![k] = s]
        /\ status' = "ok"

\* PutPessimistic: an old record that was outgrown is removed first.  If the
\* insert fails again, the leaf is split by the number of records, and the
\* record goes to one half: if it does not fit there, the call fails and the
\* handle is poisoned.  The model goes on with either of the two leaves.
PutWithSplit(k, s) ==
    LET at == FindKeyIndex(page, k)
        p == IF at.found THEN DeleteAt(page, at.index) ELSE page
        r == InsertLeaf(p, k, s)
        n == Len(p.slots)
        split_key == GetKey(p, n \div 2)
        Half(left) == Rebuilt(IF left THEN SubSeq(p.slots, 1, n \div 2)
                              ELSE SubSeq(p.slots, n \div 2 + 1, n))
        placed == InsertLeaf(Half(k < split_key), k, s)
        Kept(left) == [j \in Key |-> IF (j < split_key) # left THEN 0
                                    ELSE IF j # k THEN kv[j]
                                    ELSE IF placed.ok THEN s ELSE 0]
        Result(left) ==
            IF r.ok THEN [page |-> r.page, kv |-> [kv EXCEPT ![k] = s], status |-> "ok"]
            ELSE [page |-> IF left = (k < split_key) THEN placed.page ELSE Half(left),
                  kv |-> Kept(left),
                  status |-> IF placed.ok THEN "split" ELSE "Internal"]
    IN  /\ ~(IF at.found THEN UpdateLeaf(page, k, s) ELSE InsertLeaf(page, k, s)).ok
        /\ \E left \in BOOLEAN :
             /\ page' = Result(left).page
             /\ kv' = Result(left).kv
             /\ status' = Result(left).status

Put(k, s) ==
    /\ status # "Internal"
    /\ load' = Bytes([kv EXCEPT ![k] = s])
    /\ IF EncodedLength(s) > kMaxLeafRecordBytes
       THEN status' = "InvalidArgument" /\ UNCHANGED <<page, kv>>
       ELSE PutInLeaf(k, s) \/ PutWithSplit(k, s)

Delete(k) ==
    LET at == FindKeyIndex(page, k)
    IN  /\ status # "Internal"
        /\ load' = 0
        /\ IF at.found
           THEN page' = DeleteAt(page, at.index) /\ kv' = [kv EXCEPT ![k] = 0] /\ status' = "ok"
           ELSE status' = "NotFound" /\ UNCHANGED <<page, kv>>

Next == \E k \in Key : Delete(k) \/ \E s \in Size : Put(k, s)

Spec == Init /\ [][Next]_vars

-----------------------------------------------------------------------------
(* Properties. *)

\* The fields of the page stay in their range, and no tombstone outlives the
\* operation that made it.
TypeOK ==
    /\ page.free_space_end \in 0..kPageSize
    /\ page.dead_bytes \in 0..kPageSize
    /\ page.free_space_start \in PageHeader..kPageSize
    /\ \A i \in DOMAIN page.slots : ~page.slots[i].deleted
    /\ status \in {"ok", "split", "Internal", "InvalidArgument", "NotFound"}

\* Page::Validate, which every operation of NodeView asserts at its end: the
\* directory does not reach into the records, every record lies between
\* free_space_end and the end of the page, and no two of them overlap.
Validate ==
    /\ page.free_space_start = DirectoryEnd(Len(page.slots))
    /\ page.free_space_start <= page.free_space_end
    /\ \A i \in DOMAIN page.slots :
         LET s == page.slots[i]
         IN  /\ page.free_space_end <= s.offset /\ s.offset + s.length <= kPageSize
             /\ \A j \in DOMAIN page.slots \ {i} :
                  LET t == page.slots[j]
                  IN  s.offset + s.length <= t.offset \/ t.offset + t.length <= s.offset

\* The record area is exactly the live records and dead_bytes, through any
\* series of shrinking, growing, deleting and compacting: this is what lets
\* EnsureFit and UpdateLeaf promise room before they compact.
SpaceIsAccountedFor ==
    kPageSize - page.free_space_end =
        FoldLeft(LAMBDA sum, s : sum + s.length, page.dead_bytes, page.slots)

\* The directory is in key order, and a search finds for every key the record
\* that was last put, and for no other key anything.
ReadsBack ==
    \A k \in Key :
        LET at == FindKeyIndex(page, k)
        IN  IF kv[k] = 0 THEN ~at.found
            ELSE /\ at.found
                 /\ page.slots[at.index + 1].size = kv[k]
                 /\ page.slots[at.index + 1].length = EncodedLength(kv[k])

\* btree.cc:452-454: InsertLeaf "only fails when the leaf is genuinely full, so
\* it is the precise 'no split' oracle".  Churn in a leaf never splits it while
\* the records that are to be in it fit into a page.
SplitsOnlyWhenFull ==
    status \in {"split", "Internal"} => load > kPageSize - PageHeader

\* db.h:309-312: "Reliable limit: keep key+value under ~1 KB.  Larger records
\* (up to the page bound) usually work but can fail mid-split".  When all sizes
\* are below that limit, no Put fails in the middle of a split.
ReliableBelowLimit == (\A s \in Size : s < 1024) => status # "Internal"

=============================================================================
