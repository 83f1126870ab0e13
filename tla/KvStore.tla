------------------------------ MODULE KvStore ------------------------------
(***************************************************************************)
(* What the store promises, without pages or log: a sequence of committed  *)
(* updates, each applied as a whole.  A crash may forget the newest of     *)
(* them, never one that was acknowledged and never one out of the middle.  *)
(* What readers find in an open store is the sum of those updates.         *)
(***************************************************************************)
EXTENDS Naturals, Sequences, SequencesExt

CONSTANTS
    Update,     \* the set of updates a commit can make
    Empty,      \* the contents the store starts with
    Apply(_, _) \* the contents after one more update

VARIABLES
    committed,  \* the sequence of committed updates
    acked,      \* how many of them have been acknowledged
    up,         \* whether the store is open
    visible     \* the contents that an open store shows

kvvars == <<committed, acked, up, visible>>

Sum(updates) == FoldLeft(Apply, Empty, updates)

KvInit ==
    /\ committed = <<>>
    /\ acked = 0
    /\ up = TRUE
    /\ visible = Empty

\* A transaction or an autocommit write takes effect.
KvCommit ==
    /\ up = TRUE
    /\ committed' # <<>> /\ Front(committed') = committed
    /\ Last(committed') \in Update
    /\ visible' = Sum(committed')
    /\ UNCHANGED <<acked, up>>

\* A call returns Ok: what it committed, and all before it, must survive.
KvAck ==
    /\ \E n \in acked + 1 .. Len(committed) : acked' = n
    /\ UNCHANGED <<committed, up, visible>>

\* Only updates that nobody was told of may be forgotten.
KvCrash ==
    /\ \E n \in acked .. Len(committed) : committed' = SubSeq(committed, 1, n)
    /\ up' = FALSE
    /\ visible' = Empty
    /\ UNCHANGED acked

KvReopen ==
    /\ up = FALSE
    /\ up' = TRUE
    /\ visible' = Sum(committed)
    /\ UNCHANGED <<committed, acked>>

KvNext == KvCommit \/ KvAck \/ KvCrash \/ KvReopen

KvSpec == KvInit /\ [][KvNext]_kvvars

=============================================================================
