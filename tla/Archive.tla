------------------------------ MODULE Archive -------------------------------
(***************************************************************************)
(* The DataPoint archive of one session as the Mongo adapter keeps it      *)
(* (orcastork/adapters/mongo/datapoint_archive.py): a meta document that   *)
(* fences the epoch and hands out sequence numbers, a buffer with one row  *)
(* per observation, and the committed rows, one per identity.  The calls   *)
(* are not atomic; WriteBehind takes them one round trip at a time.        *)
(***************************************************************************)
EXTENDS Naturals, FiniteSets, SequencesExt

CONSTANTS Point,        \* identities: (type, value)
          Pii,          \* the ones whose value is personal data
          PageSize      \* rows per round trip of a flush

ASSUME ArchiveAssumption == Pii \subseteq Point /\ PageSize \in Nat \ {0}

VARIABLES meta,         \* [sequence, max_epoch]
          buffer,       \* set of rows [sequence, point, at, epoch]
          committed,    \* partial function: point -> [first, last, epoch]
          cipher,       \* a real cipher is wired (else the passthrough)
          landed,       \* history: every row ever buffered
          late          \* history: points with a row that landed behind a row of
                        \* theirs with a higher number, or behind a flush

archiveVars == <<meta, buffer, committed, cipher, landed, late>>

ArchiveInit ==
    /\ meta = [sequence |-> 0, max_epoch |-> 0]
    /\ buffer = {} /\ landed = {} /\ late = {}
    /\ committed = <<>>
    /\ cipher \in BOOLEAN

larger(a, b) == IF a < b THEN b ELSE a

\* A finite set of numbers from the lowest to the highest, and rows by number.
Ascending(S) ==
    CHOOSE s \in [1..Cardinality(S) -> S] :
        \A i, j \in 1..Cardinality(S) : i < j => s[i] < s[j]

BySequence(rows) ==
    LET s == Ascending({x.sequence : x \in rows})
    IN  [i \in DOMAIN s |-> CHOOSE x \in rows : x.sequence = s[i]]

\* The $max half of the keyed upsert.
advanced(seen, row) ==
    [seen EXCEPT !.last = larger(@, row.at), !.epoch = larger(@, row.epoch)]

\* _fold_in, and the UpdateOne of a flush: the first observation of an identity
\* supplies the row, a later one only advances it.
fold_in(folded, row) ==
    [p \in DOMAIN folded \cup {row.point} |->
        IF p # row.point THEN folded[p]
        ELSE IF p \in DOMAIN folded THEN advanced(folded[p], row)
        ELSE [first |-> row.at, last |-> row.at, epoch |-> row.epoch]]

\* read, when nothing else is going on: the committed rows, then the buffer in
\* sequence order.
read == FoldLeft(fold_in, committed, BySequence(buffer))

-----------------------------------------------------------------------------
(* archive_many: the gate, the fence with its range, the insertion.        *)

\* The PII gate, before any number is allocated.
unprotected(points) == ~cipher /\ points \cap Pii # {}

\* Mutant: the fence lets every epoch through.
admits_any(epoch) == TRUE

admits(epoch) == meta.max_epoch <= epoch

allocate(n, epoch) ==
    meta' = [sequence |-> meta.sequence + n, max_epoch |-> larger(meta.max_epoch, epoch)]

\* insert_many: the rows, as many of them as the call came to; the flushes under
\* way are past the numbers up to those in passed.
insert_many(rows, passed) ==
    /\ buffer' = buffer \cup rows
    /\ landed' = landed \cup rows
    /\ late' = late \cup {x.point : x \in {x \in rows :
                   \/ \E y \in landed : y.point = x.point /\ y.sequence > x.sequence
                   \/ \E n \in passed : x.sequence <= n}}

-----------------------------------------------------------------------------
(* flush: a page found, committed, cleared.                                *)

page_after(after) ==
    LET rows == BySequence({x \in buffer : x.sequence > after})
    IN  SubSeq(rows, 1, IF Len(rows) < PageSize THEN Len(rows) ELSE PageSize)

bulk_write(page) == committed' = FoldLeft(fold_in, committed, page)

\* Mutant: the buffer is cleared by session, not by the rows committed.
cleared_session(page) == buffer

cleared(page) == {page[i] : i \in 1..Len(page)}

-----------------------------------------------------------------------------
(* What the archive must be, from the rows alone.                          *)

RowsOf(p) == {x \in landed : x.point = p}

ArchiveType ==
    /\ buffer \subseteq landed
    /\ \A x \in landed : x.sequence <= meta.sequence /\ x.epoch <= meta.max_epoch
    /\ \A x \in landed : x.point \in Pii => cipher
    /\ \A x, y \in landed : x.sequence = y.sequence => x = y
    /\ \A x, y \in landed : x.sequence < y.sequence => x.epoch <= y.epoch
=============================================================================
