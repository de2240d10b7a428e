---------------------------- MODULE MemoryGovernor ----------------------------
(***************************************************************************)
(* class MemoryGovernor: generation-bound allocation records over one      *)
(* RegionAllocator, with the counters of its MemoryDomain, the pressure    *)
(* state, reclaim selection and compaction planning. Every public method   *)
(* takes the one mutex for its whole body, so a method is one action; the  *)
(* arena's part of it is the action of module RegionAllocator it conjoins. *)
(*                                                                         *)
(* Left out of a record: descriptive fields that no decision reads;        *)
(* residency, which is RESIDENT for every record (nothing sets ACTIVE, so  *)
(* the code's checks for it never fire); region_generation and             *)
(* relocation_generation, which advance with generation. current_resident  *)
(* moves in step with current_committed.                                   *)
(***************************************************************************)
EXTENDS RegionAllocator, Pressure, FiniteSetsExt, TLC

CONSTANTS
    Requests,         \* the AllocationRequests clients issue
    WorkerBoots,      \* worker boot ids presented on release; Unset among them
    SourceBoots,      \* likewise for source boot ids
    RelocationBytes,  \* sizes a relocation may ask for besides the present one
    MaxPinnedBytes    \* bound: the pinned counter, which nested pins inflate

Unset == 0            \* TypedId::is_set() is false

Reclaimability ==
    {"UNKNOWN", "NEVER_RECLAIM", "RECLAIM_AFTER_COMPLETION", "RECLAIM_IF_COLD",
     "RECLAIM_IF_RELOADABLE", "RECLAIM_IF_CHECKPOINTED", "BEST_EFFORT"}

\* What a request names as its backing: nothing, a reference, or a text longer
\* than the snapshot decoder reads. (A record's owner is a text of this kind,
\* which nothing else looks at.)
BackingRef == {"none", "ref", "oversized"}

RequestType ==
    [bytes : Nat, min_bytes : Nat, alignment : Nat, reclaimability : Reclaimability,
     movability : Movability, requires_pin : BOOLEAN,
     worker_boot : WorkerBoots, source_boot : SourceBoots, backing_ref : BackingRef]

ASSUME GovernorIdAssumption == AllocIds \subseteq Nat \ {0}
ASSUME RequestsAssumption ==
    /\ Requests \subseteq RequestType
    /\ \A req \in Requests : req.bytes \in RequestBytes /\ req.alignment \in Alignments
    /\ RelocationBytes \subseteq 0 .. WordSize - 1
ASSUME BootsAssumption == Unset \in WorkerBoots /\ Unset \in SourceBoots
ASSUME PinBoundAssumption == MaxPins >= 1 /\ MaxPinnedBytes \in Nat

VARIABLES
    records,            \* records_: the current allocations
    retired,            \* retired_: the released ones
    next_alloc_id,      \* next_alloc_id_
    history_count,      \* history_count_
    initialized,        \* initialized_: the backend supplied the arena
    current_committed,  \* counters of domain_
    current_movable,
    current_pinned,
    pressure            \* domain_.pressure, as last evaluated

counters == <<current_committed, current_movable, current_pinned>>
governor == <<arena, records, retired, next_alloc_id, history_count, initialized,
              counters, pressure>>

-----------------------------------------------------------------------------
(* Records. *)

\* A default AllocationRecord: its generation is none(), and it is in neither map.
NoRecord ==
    [generation |-> 0, requested_bytes |-> 0, region_size |-> 0, offset |-> 0,
     alignment |-> 1, reclaimability |-> "UNKNOWN", movability |-> "MOVABLE",
     pin_count |-> 0, lifecycle |-> "REQUESTED",
     worker_boot |-> Unset, source_boot |-> Unset, backing_ref |-> "none"]

Current == {id \in AllocIds : records[id] # NoRecord}
Retired == {id \in AllocIds : retired[id] # NoRecord}

\* records_.find(id) succeeds and the handle's generation is the current one.
Holds(id, gen) == id \in Current /\ records[id].generation = gen

\* Mutation: the subtraction without its floor at zero.
sub_unchecked(a, b) == a - b

\* Saturating subtraction, as the domain counters use it.
sub(a, b) == IF a >= b THEN a - b ELSE 0

-----------------------------------------------------------------------------
(* initialize: obtain the arena from the backend, which may refuse it. *)

initialize ==
    /\ ~initialized
    /\ initialized' = TRUE
    /\ UNCHANGED <<arena, records, retired, next_alloc_id, history_count, counters, pressure>>

-----------------------------------------------------------------------------
(* request: validate, consume an id, allocate, record, count. The id is    *)
(* consumed before the arena is asked and stays consumed if it refuses.    *)

validate_request(req) ==
    /\ req.bytes # 0
    /\ req.bytes <= Capacity
    /\ is_pow2(req.alignment)
    /\ req.min_bytes <= req.bytes
    /\ ~ (req.requires_pin /\ req.movability = "MOVABLE" /\ req.reclaimability = "NEVER_RECLAIM")

CommittedMovability(req) == IF req.requires_pin THEN "PINNED" ELSE req.movability

NewRecord(req, off) ==
    [generation |-> 1, requested_bytes |-> req.bytes,
     region_size |-> align_up(req.bytes, req.alignment), offset |-> off,
     alignment |-> req.alignment, reclaimability |-> req.reclaimability,
     movability |-> CommittedMovability(req),
     pin_count |-> IF req.requires_pin THEN 1 ELSE 0,
     lifecycle |-> IF req.requires_pin THEN "PINNED" ELSE "RESIDENT",
     worker_boot |-> req.worker_boot, source_boot |-> req.source_boot,
     backing_ref |-> req.backing_ref]

\* Mutation: the lowest retired id is handed out again.
IdRecycled(id) == next_alloc_id' = IF Retired = {} THEN id + 1 ELSE Min(Retired)

ConsumeId(id) == next_alloc_id' = id + 1

CountGranted(mov, n) ==
    /\ current_committed' = current_committed + n
    /\ current_movable' = IF mov = "MOVABLE" THEN current_movable + n ELSE current_movable
    /\ current_pinned' = IF mov = "PINNED" THEN current_pinned + n ELSE current_pinned

Granted(id, req) ==
    /\ Allocate(id, 1, req.bytes, req.alignment, CommittedMovability(req))
    /\ records' = [records EXCEPT ![id] = NewRecord(req, alloc_offset'[id])]
    /\ CountGranted(CommittedMovability(req), align_up(req.bytes, req.alignment))

Refused(req) ==
    /\ ~CanAllocate(req.bytes, req.alignment)
    /\ UNCHANGED <<arena, records, counters>>

request_locked(req) ==
    LET id == next_alloc_id
    IN  /\ initialized
        /\ id \in AllocIds
        /\ validate_request(req)
        /\ align_up(req.bytes, req.alignment) >= req.bytes
        /\ ConsumeId(id)
        /\ Granted(id, req) \/ Refused(req)
        /\ UNCHANGED <<retired, history_count, initialized, pressure>>

-----------------------------------------------------------------------------
(* release and release_for_worker. *)

Authorised(id, worker_boot, source_boot) ==
    /\ worker_boot \in {Unset, records[id].worker_boot}
    /\ source_boot \in {Unset, records[id].source_boot}

\* Mutation: a release that does not ask about pins.
PinIgnored(id) == TRUE

Unheld(id) == records[id].pin_count = 0

\* Mutation: the bytes asked for given back instead of the bytes committed.
CountReleasedRequested(rec) ==
    /\ current_committed' = sub(current_committed, rec.requested_bytes)
    /\ UNCHANGED <<current_movable, current_pinned>>

CountReleased(rec) ==
    /\ current_committed' = sub(current_committed, rec.region_size)
    /\ current_movable' = IF rec.movability = "MOVABLE"
                          THEN sub(current_movable, rec.region_size) ELSE current_movable
    /\ current_pinned' = IF rec.movability = "PINNED"
                         THEN sub(current_pinned, rec.region_size) ELSE current_pinned

release_locked(id, gen, worker_boot, source_boot) ==
    /\ Holds(id, gen)
    /\ Authorised(id, worker_boot, source_boot)
    /\ Unheld(id)
    /\ Free(id, gen)
    /\ retired' = [retired EXCEPT ![id] = [records[id] EXCEPT !.lifecycle = "RELEASED"]]
    /\ records' = [records EXCEPT ![id] = NoRecord]
    /\ CountReleased(records[id])
    /\ history_count' = history_count + 1
    /\ UNCHANGED <<next_alloc_id, initialized, pressure>>

-----------------------------------------------------------------------------
(* pin and unpin: the arena keeps the count, the record copies it. *)

\* The arena's region for id once its action has been taken.
RegionNext(r, id) == r \in regions' /\ r.live /\ r.offset = alloc_offset'[id]

\* Mutation: a pin kept as a flag instead of a count.
PinFlagged(rec, r) ==
    [rec EXCEPT !.movability = "PINNED", !.pin_count = 1, !.lifecycle = "PINNED"]

PinCopy(rec, r) ==
    [rec EXCEPT !.movability = "PINNED", !.pin_count = r.pin_count, !.lifecycle = "PINNED"]

pin_locked(id, gen) ==
    /\ Holds(id, gen)
    /\ current_pinned + records[id].region_size <= MaxPinnedBytes
    /\ Pin(id, gen)
    /\ \E r \in regions' :
          /\ RegionNext(r, id)
          /\ records' = [records EXCEPT ![id] = PinCopy(@, r)]
    /\ current_movable' = sub(current_movable, records[id].region_size)
    /\ current_pinned' = current_pinned + records[id].region_size
    /\ UNCHANGED <<retired, next_alloc_id, history_count, initialized,
                   current_committed, pressure>>

UnpinCopy(rec, r) ==
    [rec EXCEPT !.movability = r.movability, !.pin_count = r.pin_count,
                !.lifecycle = IF r.pin_count = 0 THEN "RESIDENT" ELSE "PINNED"]

unpin_locked(id, gen) ==
    LET n == records[id].region_size
    IN  /\ Holds(id, gen)
        /\ Unpin(id, gen)
        /\ \E r \in regions' :
              /\ RegionNext(r, id)
              /\ records' = [records EXCEPT ![id] = UnpinCopy(@, r)]
              /\ current_pinned' = IF r.pin_count = 0 THEN sub(current_pinned, n) ELSE current_pinned
              /\ current_movable' = IF r.pin_count = 0 THEN current_movable + n ELSE current_movable
        /\ UNCHANGED <<retired, next_alloc_id, history_count, initialized,
                       current_committed, pressure>>

-----------------------------------------------------------------------------
(* apply_relocation: the caller has copied the bytes already. The record's *)
(* pin count is the only thing that keeps an allocation where it is, and   *)
(* the domain counters are not touched.                                    *)

\* Mutation: the record keeps the offset it was granted at.
MovedRecordStale(rec, lo, n) == [rec EXCEPT !.region_size = n, !.generation = @ + 1]

MovedRecord(rec, lo, n) ==
    [rec EXCEPT !.offset = lo, !.region_size = n, !.generation = @ + 1,
                !.lifecycle = "RESIDENT"]

apply_relocation(id, gen, lo, n) ==
    /\ Holds(id, gen)
    /\ Unheld(id)
    /\ Relocate(id, gen, lo, n, records[id].alignment)
    /\ records' = [records EXCEPT ![id] = MovedRecord(@, lo, n)]
    /\ UNCHANGED <<retired, next_alloc_id, history_count, initialized, counters, pressure>>

-----------------------------------------------------------------------------
(* summary, pressure and explain: each refreshes the arena's summary and   *)
(* re-evaluates the pressure, which remembers the last reading.            *)

ReadSummary == IF summary_dirty THEN ensure_summary ELSE UNCHANGED arena

summary_locked ==
    /\ ReadSummary
    /\ pressure' = evaluate_pressure(live_bytes, Capacity, pressure)
    /\ UNCHANGED <<records, retired, next_alloc_id, history_count, initialized, counters>>

-----------------------------------------------------------------------------
(* Reclaim selection: the first max of the records that may be taken back. *)
(* Pins, movability and policy exclude; reload or checkpoint policies need *)
(* a backing. Cheaper policies come first, then larger regions, then ids.  *)

requires_backing(r) == r \in {"RECLAIM_IF_RELOADABLE", "RECLAIM_IF_CHECKPOINTED"}

\* Mutation: candidates chosen by the movability alone.
ReclaimableByPolicy(rec) == rec.reclaimability \notin {"NEVER_RECLAIM", "UNKNOWN"}

Reclaimable(rec) ==
    /\ rec.pin_count = 0 /\ rec.movability = "MOVABLE"
    /\ rec.reclaimability \notin {"NEVER_RECLAIM", "UNKNOWN"}

reclaimability_priority ==
    [BEST_EFFORT |-> 0, RECLAIM_IF_CHECKPOINTED |-> 1, RECLAIM_IF_RELOADABLE |-> 2,
     RECLAIM_IF_COLD |-> 3, RECLAIM_AFTER_COMPLETION |-> 4, NEVER_RECLAIM |-> 5, UNKNOWN |-> 6]

ReclaimBefore(i, j) ==
    LET x == records[i]  y == records[j]
        px == reclaimability_priority[x.reclaimability]
        py == reclaimability_priority[y.reclaimability]
    IN  \/ px < py
        \/ px = py /\ x.region_size > y.region_size
        \/ px = py /\ x.region_size = y.region_size /\ i < j

Eligible ==
    {id \in Current : /\ Reclaimable(records[id])
                      /\ requires_backing(records[id].reclaimability)
                           => records[id].backing_ref # "none"}

reclaim_candidates(max) ==
    {id \in Eligible : Cardinality({j \in Eligible : ReclaimBefore(j, id)}) < max}

-----------------------------------------------------------------------------
(* plan_compaction: of all moves of one movable region into one free       *)
(* region that is not its neighbour, the one with the largest predicted    *)
(* gain; among equals the first in address order of region, then target.   *)

MayMove(m) ==
    /\ m.live /\ m.movability = "MOVABLE" /\ m.pin_count = 0
    /\ records[m.alloc_id].reclaimability # "NEVER_RECLAIM"

Neighbours(m, f) == EndOf(f) = m.offset \/ f.offset = EndOf(m)

\* Sizes of the free neighbours of m, 0 where there is none.
AdjoiningFree(m) == SumSet({f.size : f \in {g \in FreeRegions : EndOf(g) = m.offset}})
                  + SumSet({f.size : f \in {g \in FreeRegions : g.offset = EndOf(m)}})

\* Where m would start in the free region f, and the pad in front of it.
NewOffset(m, f) == align_up(f.offset, m.alignment)
FrontPad(m, f) == sub(NewOffset(m, f), f.offset)

\* Mutation: the room check without the alignment pad.
TargetUnpadded(m, f) == ~Neighbours(m, f) /\ f.size >= m.size

\* Mutation: the free neighbours of m taken for targets too.
TargetAdjoining(m, f) ==
    f.size >= m.size /\ FrontPad(m, f) <= f.size /\ m.size <= f.size - FrontPad(m, f)

Target(m, f) ==
    /\ ~Neighbours(m, f)
    /\ f.size >= m.size
    /\ FrontPad(m, f) <= f.size /\ m.size <= f.size - FrontPad(m, f)

\* largest_free_after of the plan, with before the largest free region now.
PredictedLargest(m, f, before) ==
    Max({before, AdjoiningFree(m) + m.size, FrontPad(m, f), f.size - FrontPad(m, f) - m.size})

Moves == {mf \in Live \X FreeRegions : MayMove(mf[1]) /\ Target(mf[1], mf[2])}

LargestFree == Max({0} \cup {f.size : f \in FreeRegions})

BetterMove(x, y) ==
    LET gx == PredictedLargest(x[1], x[2], LargestFree)
        gy == PredictedLargest(y[1], y[2], LargestFree)
    IN  \/ gx > gy
        \/ gx = gy /\ x[1].offset < y[1].offset
        \/ gx = gy /\ x[1].offset = y[1].offset /\ x[2].offset <= y[2].offset

\* The plan: at most one step.
plan_compaction == {x \in Moves : \A y \in Moves : BetterMove(x, y)}

plan_query ==
    /\ summary_dirty /\ ensure_summary
    /\ UNCHANGED <<records, retired, next_alloc_id, history_count, initialized, counters, pressure>>

-----------------------------------------------------------------------------
Init ==
    /\ ArenaInit
    /\ records = [id \in AllocIds |-> NoRecord]
    /\ retired = [id \in AllocIds |-> NoRecord]
    /\ next_alloc_id = 1
    /\ history_count = 0
    /\ initialized = FALSE
    /\ current_committed = 0 /\ current_movable = 0 /\ current_pinned = 0
    /\ pressure = "UNKNOWN"

Next ==
    \/ initialize
    \/ \E req \in Requests : request_locked(req)
    \/ \E id \in AllocIds, gen \in 1 .. MaxGeneration, wb \in WorkerBoots, sb \in SourceBoots :
          release_locked(id, gen, wb, sb)
    \/ \E id \in AllocIds, gen \in 1 .. MaxGeneration : pin_locked(id, gen)
    \/ \E id \in AllocIds, gen \in 1 .. MaxGeneration : unpin_locked(id, gen)
    \/ \E id \in AllocIds, gen \in 1 .. MaxGeneration, lo \in 0 .. Capacity :
          \E n \in RelocationBytes \cup {records[id].region_size} :
             apply_relocation(id, gen, lo, n)
    \/ summary_locked
    \/ plan_query

Spec == Init /\ [][Next]_governor

-----------------------------------------------------------------------------
(* Correctness. *)

Lifecycle == {"REQUESTED", "RESIDENT", "PINNED", "RELEASED", "REVALIDATION_REQUIRED"}

RecordType ==
    [generation : 0 .. MaxGeneration, requested_bytes : 0 .. Capacity,
     region_size : 0 .. Capacity, offset : Bytes, alignment : 1 .. WordSize - 1,
     reclaimability : Reclaimability, movability : Movability,
     pin_count : 0 .. MaxPins, lifecycle : Lifecycle,
     worker_boot : WorkerBoots \cup {Unset}, source_boot : SourceBoots \cup {Unset},
     backing_ref : BackingRef]

(* Types of the governor's own state. *)
GovernorTypeOK ==
    /\ records \in [AllocIds -> RecordType]
    /\ retired \in [AllocIds -> RecordType]
    /\ next_alloc_id \in Nat \ {0}
    /\ history_count \in Nat
    /\ initialized \in BOOLEAN
    /\ current_committed \in Nat /\ current_movable \in Nat /\ current_pinned \in Nat
    /\ pressure \in PressureState

\* Record and region describe the same allocation. The pin of a request with
\* requires_pin is counted in the record only.
Mirrors(rec, r) ==
    /\ r.offset = rec.offset /\ r.size = rec.region_size
    /\ r.generation = rec.generation /\ r.alignment = rec.alignment
    /\ r.movability = rec.movability
    /\ r.pin_count = rec.pin_count \/ (r.pin_count = 0 /\ rec.pin_count = 1)
    /\ rec.lifecycle = IF rec.pin_count > 0 THEN "PINNED" ELSE "RESIDENT"

(* The records and the arena are two books of the same allocations, kept   *)
(* by different code: the current records and the live regions correspond  *)
(* one to one and agree on place, size, generation and movability, so a    *)
(* handle the governor accepts is never refused by the arena half-way.     *)
RecordsMirrorArena ==
    /\ \A r \in Live : r.alloc_id \in Current
    /\ \A id \in Current :
          \E r \in Live : r.alloc_id = id /\ Mirrors(records[id], r)

\* Who holds each byte by the records alone, which is all that a client sees.
record_owner ==
    LET at(b) == {id \in Current : /\ records[id].offset <= b
                                   /\ b < records[id].offset + records[id].region_size}
    IN  [b \in Bytes |-> IF at(b) = {} THEN <<NoOne, 0>>
                         ELSE LET id == CHOOSE i \in at(b) : TRUE
                              IN  <<id, records[id].generation>>]

Handles == INSTANCE ByteLedger WITH owner <- record_owner

(* By their records, the governor's clients never share a byte, and every  *)
(* call grants vacant bytes, releases all bytes of a current handle, moves *)
(* an allocation as a whole to vacant bytes under a new generation, or     *)
(* changes no hands: pins, refusals and queries included.                  *)
HandlesKeepLedger == Handles!Spec

(* An id names one allocation forever: no id at or past the counter is in  *)
(* use, and none is both current and retired, also after refused requests. *)
IdsFresh ==
    /\ \A id \in Current \cup Retired : id < next_alloc_id
    /\ Current \cap Retired = {}

(* A released allocation stays released, under the record it had then: no  *)
(* later call brings its id back, so a late release is always refused and  *)
(* is told apart as a double free.                                         *)
RetiredForever == [][\A id \in Retired : retired'[id] = retired[id]]_governor

(* The domain's incremental committed counter equals the arena's live      *)
(* bytes while relocations keep the size of what they move.                *)
CommittedExact == current_committed = live_bytes

(* Every reclaim candidate can be released at once under its current       *)
(* generation: neither the record nor the arena counts a pin on it.        *)
ReclaimSafe ==
    \A id \in reclaim_candidates(Cardinality(AllocIds)) :
        /\ Unheld(id)
        /\ \E r \in Live : /\ Named(r, id, records[id].generation)
                           /\ r.pin_count = 0 /\ r.movability = "MOVABLE"

(* A compaction plan can be applied to the state it was made in: its step  *)
(* names a current, unpinned allocation and a target that is in bounds,    *)
(* aligned and free of live regions.                                       *)
PlanApplies ==
    \A x \in plan_compaction :
        LET m == x[1]
        IN  /\ Holds(m.alloc_id, m.generation)
            /\ Unheld(m.alloc_id)
            /\ ValidTarget(m, NewOffset(m, x[2]), m.size, records[m.alloc_id].alignment)

(* Pressure that has reached HIGH or CRITICAL is never reported as NORMAL  *)
(* or LOW again before utilization has fallen below the low watermark.     *)
Hysteresis ==
    [][(pressure \in {"HIGH", "CRITICAL"} /\ pressure' \in {"LOW", "NORMAL"})
          => Under(live_bytes, Capacity, Low)]_governor

\* The bytes under live regions of one movability: movable_bytes(), pinned_bytes().
BytesWith(mov) ==
    Cardinality({b \in Bytes : \E r \in Live : r.movability = mov /\ Covers(r, b)})

(* "MemoryDomain - authoritative governing state for one device-memory     *)
(* domain": its movable and pinned counters are the movable and pinned     *)
(* bytes of the arena, as summary() reports them.                          *)
MovablePinnedExact ==
    current_movable = BytesWith("MOVABLE") /\ current_pinned = BytesWith("PINNED")
==============================================================================
