----------------------------- MODULE TreePages -----------------------------
(***************************************************************************)
(* The pages of the B+ tree and the log records that a tree operation      *)
(* writes (btree/btree.cc), as pure operators on a set of pages.           *)
(*                                                                         *)
(* A value is a positive number that is also its size: a leaf is full when *)
(* its values add up to LeafCapacity, so an update can outgrow its leaf.   *)
(* Absent (0) stands for a missing key and for an empty before-image.      *)
(* Internal nodes have room for every separator, so a tree has at most one *)
(* internal level and only leaves (and the root leaf) split.               *)
(***************************************************************************)
EXTENDS Naturals, Sequences, FiniteSets, FiniteSetsExt, Functions

CONSTANTS
    Key,            \* the keys, a set of positive numbers
    MaxVal,         \* values are 1..MaxVal
    LeafCapacity,   \* the room for values in a leaf
    MaxPage         \* bound: data pages are 1..MaxPage

Absent == 0
Page == 1..MaxPage
kInvalidPageId == 0

Zeroed == [type |-> "zero", lsn |-> 0]
Torn == [type |-> "torn", lsn |-> 0]
Leaf(kv, prev, next) ==
    [type |-> "kLeaf", kv |-> kv, prev |-> prev, next |-> next, lsn |-> 0]
\* FindChild for every key.
Internal(child) == [type |-> "kInternal", child |-> child, lsn |-> 0]

Keys(kv) == {k \in Key : kv[k] # Absent}
Fits(kv) == FoldFunction(+, 0, kv) <= LeafCapacity
NoKeys == [k \in Key |-> Absent]

\* The leaf in which a key belongs.
FindLeaf(mem, root, k) ==
    IF mem[root].type = "kInternal" THEN mem[root].child[k] ELSE root

-----------------------------------------------------------------------------
(* Log records.  img is the page that a kPageImage carries. *)

Record(type, page, op_end) ==
    [type |-> type, page_id |-> page, op_end |-> op_end, txid |-> 0,
     key |-> 0, value |-> Absent, before |-> Absent, img |-> Zeroed,
     relink |-> FALSE]

\* The image of a right sibling (relink), of which only the prev link is known
\* when the operation starts.
Relinked(page, img) == [page EXCEPT !.prev = img.prev]

LogPageEvent(type, page, op_end) == <<Record(type, page, op_end)>>

LogPageImage(page, img, op_end) ==
    <<[Record("kPageImage", page, op_end) EXCEPT !.img = img]>>

Delta(type, page, k, v, before, op_end) ==
    <<[Record(type, page, op_end) EXCEPT !.key = k, !.value = v, !.before = before]>>

\* Faulty variant: an image always stands for the delta, undo or not.
LogKeyRecordImageOnly(imaged, type, page, img, k, v, before, op_end, needs_undo) ==
    IF page \notin imaged
    THEN LogPageImage(page, img, op_end)
    ELSE Delta(type, page, k, v, before, op_end)

\* Faulty variant: no full image of a page that is only updated.
LogKeyRecordDeltaOnly(imaged, type, page, img, k, v, before, op_end, needs_undo) ==
    Delta(type, page, k, v, before, op_end)

\* The first record of a page since the log was truncated is a full image; a
\* transaction adds the delta, for the sake of its before-image.
LogKeyRecord(imaged, type, page, img, k, v, before, op_end, needs_undo) ==
    LET delta == Delta(type, page, k, v, before, op_end)
    IN  IF page \notin imaged
        THEN LogPageImage(page, img, op_end /\ ~needs_undo)
                 \o (IF needs_undo THEN delta ELSE <<>>)
        ELSE delta

-----------------------------------------------------------------------------
(* Redo of one record on its page: what the operation itself did to it. *)

WithKey(page, k, v) == [page EXCEPT !.kv[k] = v]

Redone(page, r, lsn) ==
    [(CASE r.type = "kPageImage" -> r.img
        [] r.type \in {"kPut", "kDelete"} -> WithKey(page, r.key, r.value))
     EXCEPT !.lsn = lsn]

-----------------------------------------------------------------------------
(* Put and Delete, as the sequence of records they log. *)

\* The lower half of a leaf, by count.
LowerHalf(ks) == {k \in ks : Cardinality({j \in ks : j < k}) < Cardinality(ks) \div 2}
Only(kv, ks) == [k \in Key |-> IF k \in ks THEN kv[k] ELSE Absent]

\* Case 1 of PutPessimistic: the first leaf.
PutEmpty(np, k, v) ==
    LET r == np + 1
    IN  LogPageEvent("kAllocPage", r, FALSE)
        \o LogPageImage(r, Leaf([NoKeys EXCEPT ![k] = v], kInvalidPageId, kInvalidPageId), FALSE)
        \o LogPageEvent("kRootChange", r, TRUE)

CreateNewRoot(r, route) ==
    LogPageEvent("kAllocPage", r, FALSE)
    \o LogPageImage(r, Internal(route), FALSE)
    \o LogPageEvent("kRootChange", r, TRUE)

(***************************************************************************)
(* SplitLeaf, the insertion into one half, and the parent: kv is the leaf  *)
(* without the key being written.  The record group ends with the last     *)
(* record only.  A parent always absorbs the separator (no SplitInternal). *)
(* A record that does not fit into its half fails the call in the code     *)
(* (SlottedPage); the instances have no such sizes.                        *)
(***************************************************************************)
PutSplit(mem, root, np, p, kv, k, v, before) ==
    LET n == np + 1
        lower == LowerHalf(Keys(kv))
        upper == Keys(kv) \ lower
        split_key == Min(upper)
        left == Leaf(Only(kv, lower), mem[p].prev, n)
        right == Leaf(Only(kv, upper), p, mem[p].next)
        old_next == mem[p].next
        route == [j \in Key |->
                     IF mem[root].type = "kInternal" /\ mem[root].child[j] # p
                     THEN mem[root].child[j]
                     ELSE IF j < split_key THEN p ELSE n]
    IN  LogPageEvent("kAllocPage", n, FALSE)
        \o LogPageImage(p, left, FALSE)
        \o LogPageImage(n, right, FALSE)
        \o (IF old_next = kInvalidPageId THEN <<>>
            ELSE <<[Record("kPageImage", old_next, FALSE)
                        EXCEPT !.img = Leaf(NoKeys, n, kInvalidPageId), !.relink = TRUE]>>)
        \o Delta("kPut", IF k < split_key THEN p ELSE n, k, v, before, FALSE)
        \o (IF mem[root].type = "kInternal"
            THEN LogPageImage(root, Internal(route), TRUE)
            ELSE CreateNewRoot(n + 1, route))

Put(mem, root, np, imaged, k, v, needs_undo) ==
    IF root = kInvalidPageId THEN PutEmpty(np, k, v)
    ELSE LET p == FindLeaf(mem, root, k)
             before == IF needs_undo THEN mem[p].kv[k] ELSE Absent
             grown == WithKey(mem[p], k, v)
         IN  IF Fits(grown.kv)
             THEN LogKeyRecord(imaged, "kPut", p, grown, k, v, before, TRUE, needs_undo)
             ELSE PutSplit(mem, root, np, p, WithKey(mem[p], k, Absent).kv, k, v, before)

\* No record when the key is not there.
Delete(mem, root, imaged, k, needs_undo) ==
    IF root = kInvalidPageId THEN <<>>
    ELSE LET p == FindLeaf(mem, root, k)
             before == IF needs_undo THEN mem[p].kv[k] ELSE Absent
         IN  IF mem[p].kv[k] = Absent THEN <<>>
             ELSE LogKeyRecord(imaged, "kDelete", p, WithKey(mem[p], k, Absent),
                               k, Absent, before, TRUE, needs_undo)

-----------------------------------------------------------------------------
(* Reading a tree. *)

Get(mem, root, k) ==
    IF root = kInvalidPageId THEN Absent
    ELSE mem[FindLeaf(mem, root, k)].kv[k]

Leaves(mem, root) == {FindLeaf(mem, root, k) : k \in Key}

\* The sibling chain visits the leaves in key order: the next leaf of p is the
\* leaf of the smallest key above those of p, in both directions.
ChainInOrder(mem, root) ==
    root # kInvalidPageId =>
        \A p \in Leaves(mem, root) :
            LET mine == {k \in Key : FindLeaf(mem, root, k) = p}
                above == {k \in Key : k > Max(mine)}
                next == IF above = {} THEN kInvalidPageId
                        ELSE FindLeaf(mem, root, Min(above))
            IN  /\ mem[p].type = "kLeaf"
                /\ mem[p].next = next
                /\ next # kInvalidPageId => mem[next].prev = p
                /\ Keys(mem[p].kv) \subseteq mine

=============================================================================
