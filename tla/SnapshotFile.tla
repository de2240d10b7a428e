---------------------------- MODULE SnapshotFile -----------------------------
(***************************************************************************)
(* The snapshot file: what encode() writes and what decode() accepts. The  *)
(* file is a sequence of items in the order the Writer emits them; an item *)
(* is a kind and a value. The bytes of an item are left out: a file cut    *)
(* inside an item lacks that item, and an item that is read as another     *)
(* kind is refused at once, where the code reads some value and refuses    *)
(* the file by its length or its checksum at the latest.                   *)
(*                                                                         *)
(*   magic, version, domain, n, n records, m, m records, next id, history, *)
(*   checksum                                                              *)
(*                                                                         *)
(* The checksum is ideal: the checksum of a body stands for the body. (CRC *)
(* 32 detects every damage of up to 32 adjacent bits, and other damage but *)
(* for one case in 2^32.) Of the domain, its capacity and watermarks are   *)
(* kept; restore() resets its counters, pressure and health. The decoder's *)
(* range checks of enumerations are left out: an item's value is in range  *)
(* or damaged, and the checksum refuses the damaged.                       *)
(***************************************************************************)
EXTENDS MemoryGovernor, Sequences

CONSTANT MaxRecords     \* kMaxRecords: records of a kind the decoder accepts

ASSUME RecordLimitAssumption == MaxRecords \in Nat

kMagic == 7
kVersion == 1

Word(n) == <<"word", n>>
RecordItem(id, rec) == <<"record", id, rec>>
Domain == <<"domain", Capacity, Low, High, Critical>>
Checksum(body) == <<"checksum", body>>

\* The allocations a book (records_ or retired_) holds.
InBook(book) == {id \in AllocIds : book[id] # NoRecord}

NoBook == [id \in AllocIds |-> NoRecord]

-----------------------------------------------------------------------------
(* encode. The maps are ordered by id, so a snapshot has one encoding. *)

\* The members of ids in ascending order.
Ascending(ids) ==
    CHOOSE s \in [1 .. Cardinality(ids) -> ids] : \A i, j \in DOMAIN s : i < j => s[i] < s[j]

Rows(book) ==
    LET ids == Ascending(InBook(book))
    IN  <<Word(Len(ids))>> \o [i \in 1 .. Len(ids) |-> RecordItem(ids[i], book[ids[i]])]

Body(s) ==
    <<Word(kMagic), Word(kVersion), Domain>> \o Rows(s.records) \o Rows(s.retired)
      \o <<Word(s.next_alloc_id), Word(s.history_count)>>

encode(s) == Append(Body(s), Checksum(Body(s)))

-----------------------------------------------------------------------------
(* decode, first part: the items are there, in order, and nothing else is. *)

Has(f, i, kind) == i <= Len(f) /\ f[i][1] = kind

\* The record is there, and none of its texts is longer than Reader::str reads.
HasRecord(f, i) == Has(f, i, "record") /\ f[i][3].backing_ref # "oversized"

\* Mutation: a file with as many records as the limit allows is refused.
RowsBelowLimit(f, i) ==
    /\ Has(f, i, "word")
    /\ f[i][2] < MaxRecords
    /\ \A j \in 1 .. f[i][2] : HasRecord(f, i + j)

\* A count no larger than the limit at i, and that many records after it.
HasRows(f, i) ==
    /\ Has(f, i, "word")
    /\ f[i][2] <= MaxRecords
    /\ \A j \in 1 .. f[i][2] : HasRecord(f, i + j)

AfterRows(f, i) == i + f[i][2] + 1

valid_watermarks(d) == d[3] >= 0 /\ d[3] <= d[4] /\ d[4] <= d[5] /\ d[5] <= 100

HasDomain(f, i) == Has(f, i, "domain") /\ valid_watermarks(f[i])

\* Mutation: the stored checksum is read and not compared.
SealUnchecked(f, i) == Has(f, i, "checksum")

Sealed(f, i) == Has(f, i, "checksum") /\ f[i] = Checksum(SubSeq(f, 1, i - 1))

WellFormed(f) ==
    /\ Has(f, 1, "word") /\ f[1] = Word(kMagic)
    /\ Has(f, 2, "word") /\ f[2] = Word(kVersion)
    /\ HasDomain(f, 3)
    /\ HasRows(f, 4)
    /\ HasRows(f, AfterRows(f, 4))
    /\ LET i == AfterRows(f, AfterRows(f, 4))
       IN  /\ Has(f, i, "word")
           /\ Has(f, i + 1, "word")
           /\ Len(f) = i + 2
           /\ Sealed(f, i + 2)

-----------------------------------------------------------------------------
(* decode, second part: the records make sense together. *)

validate_record(rec, managed) ==
    /\ rec.requested_bytes # 0
    /\ is_pow2(rec.alignment)
    /\ rec.region_size >= rec.requested_bytes
    /\ rec.offset <= managed /\ rec.region_size <= managed - rec.offset
    /\ rec.offset % rec.alignment = 0
    /\ rec.generation # 0

Disjoint(x, y) ==
    x.offset + x.region_size <= y.offset \/ y.offset + y.region_size <= x.offset

\* The records among the items lo .. hi of f, by id.
BookOf(f, lo, hi) ==
    [id \in AllocIds |->
        IF \E i \in lo .. hi : f[i][2] = id
        THEN f[CHOOSE i \in lo .. hi : f[i][2] = id][3] ELSE NoRecord]

\* The bytes of the records among the items rows of f, summed up in a word.
BytesIn(f, rows) == MapThenSumSet(LAMBDA i : f[i][3].region_size, rows) % WordSize

Consistent(f) ==
    LET managed == f[3][2]
        mid  == AfterRows(f, 4)
        live == 5 .. mid - 1
        rows == live \cup mid + 1 .. AfterRows(f, mid) - 1
    IN  /\ \A i \in rows : validate_record(f[i][3], managed)
        /\ \A i, j \in rows : f[i][2] = f[j][2] => i = j
        /\ BytesIn(f, live) <= managed
        /\ \A i, j \in live : i = j \/ Disjoint(f[i][3], f[j][3])

\* The decoder accepts file f.
Accepts(f) == WellFormed(f) /\ Consistent(f)

\* What it makes of a file it accepts.
decode(f) ==
    LET mid == AfterRows(f, 4)
        end == AfterRows(f, mid)
    IN  [records |-> BookOf(f, 5, mid - 1), retired |-> BookOf(f, mid + 1, end - 1),
         next_alloc_id |-> f[end][2], history_count |-> f[end + 1][2]]
==============================================================================
