--------------------------- MODULE RegionAllocator ---------------------------
(***************************************************************************)
(* The arena of GPU Memory Service: class RegionAllocator, an exact layout *)
(* of live and free regions over the bytes 0 .. Capacity-1, with           *)
(*   - an index of the free regions ordered by (size, offset), from which  *)
(*     allocate() takes the best fit;                                      *)
(*   - an index from allocation ids to offsets;                            *)
(*   - byte and region counters, and a cached summary of the free space    *)
(*     behind a dirty flag.                                                *)
(* One action per method that changes state; a call the code rejects       *)
(* leaves the state alone and is a stuttering step.                        *)
(*                                                                         *)
(* Left out of a region: region_id and the descriptive fields (mem_class,  *)
(* provenance, residency, lifecycle, worker_boot), which no decision of    *)
(* this class reads, and region_generation, which relocate() advances      *)
(* together with alloc_generation and nothing else changes.                *)
(***************************************************************************)
EXTENDS Integers, FiniteSets

CONSTANTS
    Capacity,       \* bytes the arena governs
    WordSize,       \* 2^64 in the code: unsigned arithmetic wraps here
    AllocIds,       \* allocation ids
    RequestBytes,   \* sizes a caller asks for
    Alignments,     \* alignments a caller asks for
    Movabilities,   \* movabilities a caller asks for
    MaxGeneration,  \* bound: relocations of one allocation
    MaxPins         \* bound: nested pins of one allocation

NoOne == 0          \* the alloc_id of a free region
Movability == {"MOVABLE", "PINNED", "NONMOVABLE"}

ASSUME CapacityAssumption == Capacity \in Nat \ {0}
ASSUME WordAssumption == WordSize \in Nat /\ Capacity < WordSize
ASSUME IdAssumption == NoOne \notin AllocIds
ASSUME RequestAssumption ==
    /\ RequestBytes \subseteq 0 .. WordSize - 1
    /\ Alignments \subseteq 0 .. WordSize - 1
    /\ Movabilities \subseteq Movability
ASSUME BoundAssumption == MaxGeneration \in Nat \ {0} /\ MaxPins \in Nat

VARIABLES
    regions,        \* regions_: the live and the free regions
    alloc_offset,   \* alloc_offset_: where each live allocation starts
    free_slots,     \* free_slots_: (size, offset) of every free region
    live_bytes,     \* live_bytes_
    live_count,     \* live_count_
    summary_dirty,  \* summary_dirty_: the cached summary must be recomputed
    free_count,     \* free_count_: cached number of free regions
    largest_free    \* largest_free_: cached size of the largest free region

summary == <<summary_dirty, free_count, largest_free>>
arena == <<regions, alloc_offset, free_slots, live_bytes, live_count, summary>>

Bytes == 0 .. Capacity - 1
Absent == -1        \* alloc_offset_ has no entry for the id

-----------------------------------------------------------------------------
(* Arithmetic on 64-bit words. *)

is_pow2(v) == \E k \in 0 .. (v - 1) : v = 2 ^ k

align_up(v, align) ==
    LET r == (v + (align - 1)) % WordSize
    IN  IF align = 0 THEN v ELSE IF r < v THEN 0 ELSE r - (r % align)

-----------------------------------------------------------------------------
(* Regions and free slots. *)

FreeRegion(off, n) ==
    [offset |-> off, size |-> n, live |-> FALSE, alloc_id |-> NoOne,
     generation |-> 0, alignment |-> 1, movability |-> "MOVABLE", pin_count |-> 0]

LiveRegion(off, n, id, gen, align, mov) ==
    [offset |-> off, size |-> n, live |-> TRUE, alloc_id |-> id,
     generation |-> gen, alignment |-> align, movability |-> mov, pin_count |-> 0]

Slot(off, n) == [size |-> n, offset |-> off]

\* A piece of free space, dropped when it is empty.
FreePiece(off, n) == IF n > 0 THEN {FreeRegion(off, n)} ELSE {}
SlotPiece(off, n) == IF n > 0 THEN {Slot(off, n)} ELSE {}

\* The order of the free-slot set: FreeSlot::operator<.
Precedes(s, t) == s.size < t.size \/ (s.size = t.size /\ s.offset < t.offset)

EndOf(r) == r.offset + r.size

\* The live region a handle (id, gen) names; the code rejects any other handle.
Named(r, id, gen) ==
    r \in regions /\ r.offset = alloc_offset[id] /\ r.live /\ r.generation = gen

\* Mutation: the index keeps an entry it already has, as map::emplace would.
IndexKept(id, off) ==
    IF alloc_offset[id] = Absent THEN [alloc_offset EXCEPT ![id] = off] ELSE alloc_offset

IndexAt(id, off) == [alloc_offset EXCEPT ![id] = off]

\* Mutation: a layout change that leaves the cached summary standing.
SummaryKept == UNCHANGED summary

InvalidateSummary == summary_dirty' = TRUE /\ UNCHANGED <<free_count, largest_free>>

-----------------------------------------------------------------------------
(* allocate: best fit by size, then by offset. *)

ValidRequest(bytes, align) ==
    /\ bytes # 0
    /\ is_pow2(align)
    /\ bytes <= Capacity
    /\ align_up(bytes, align) # 0
    /\ align_up(bytes, align) >= bytes
    /\ align_up(bytes, align) <= Capacity

\* Mutation: the start of a slot taken for aligned.
FrontIgnored(s, align) == 0

\* Bytes skipped at the front of slot s to reach an aligned offset.
Front(s, align) == (align_up(s.offset, align) - s.offset) % WordSize

\* Mutation: room asked for the worst padding instead of the actual one.
FitsWithSlack(s, need, align) == s.size >= need + align - 1 /\ Front(s, align) <= s.size

\* Mutation: the padding left out of the room check.
FitsUnpadded(s, need, align) == s.size >= need

Fits(s, need, align) ==
    /\ s.size >= need
    /\ Front(s, align) <= s.size
    /\ need <= s.size - Front(s, align)

FitSlots(need, align) == {s \in free_slots : Fits(s, need, align)}

BestFit(s, need, align) ==
    /\ s \in FitSlots(need, align)
    /\ \A t \in FitSlots(need, align) : t = s \/ Precedes(s, t)

CanAllocate(bytes, align) ==
    ValidRequest(bytes, align) /\ FitSlots(align_up(bytes, align), align) # {}

\* Split slot s into a front pad, the live region and a tail.
CommitSlot(s, id, gen, need, align, mov) ==
    LET front == Front(s, align)
        off   == s.offset + front
        tail  == s.size - front - need
    IN  /\ regions' = {r \in regions : r.offset # s.offset}
                        \cup FreePiece(s.offset, front)
                        \cup {LiveRegion(off, need, id, gen, align, mov)}
                        \cup FreePiece(off + need, tail)
        /\ free_slots' = (free_slots \ {s}) \cup SlotPiece(s.offset, front)
                                            \cup SlotPiece(off + need, tail)
        /\ alloc_offset' = IndexAt(id, off)

\* The id is fresh: the governor, the only caller, never reuses one.
Allocate(id, gen, bytes, align, mov) ==
    LET need == align_up(bytes, align)
    IN  /\ alloc_offset[id] = Absent
        /\ ValidRequest(bytes, align)
        /\ \E s \in free_slots : /\ BestFit(s, need, align)
                                 /\ CommitSlot(s, id, gen, need, align, mov)
        /\ live_bytes' = live_bytes + need
        /\ live_count' = live_count + 1
        /\ InvalidateSummary

-----------------------------------------------------------------------------
(* canonicalize_free: return [off, off+n) to the regions R (and to the     *)
(* slots F), merged with the free neighbour on either side. The code looks *)
(* at the map entries just before and just after off; in a layout without  *)
(* overlaps they are the only regions that can touch the interval. Its     *)
(* range checks hold for every region of the arena.                        *)

\* Mutation: no look at the region before the freed one.
LeftIgnored(R, off) == {}

LeftOf(R, off) == {p \in R : ~p.live /\ EndOf(p) = off}
RightOf(R, hi) == {p \in R : ~p.live /\ p.offset = hi}

MergedLow(R, off) ==
    IF LeftOf(R, off) = {} THEN {off} ELSE {p.offset : p \in LeftOf(R, off)}
MergedHigh(R, hi) ==
    IF RightOf(R, hi) = {} THEN {hi} ELSE {EndOf(p) : p \in RightOf(R, hi)}

canonicalize_regions(R, off, n) ==
    (R \ (LeftOf(R, off) \cup RightOf(R, off + n)))
      \cup {FreeRegion(lo, hi - lo) : lo \in MergedLow(R, off), hi \in MergedHigh(R, off + n)}

\* Mutation: merged neighbours stay in the size index.
canonicalize_slots_unindexed(R, F, off, n) ==
    F \cup {Slot(lo, hi - lo) : lo \in MergedLow(R, off), hi \in MergedHigh(R, off + n)}

canonicalize_slots(R, F, off, n) ==
    (F \ {Slot(p.offset, p.size) : p \in LeftOf(R, off) \cup RightOf(R, off + n)})
      \cup {Slot(lo, hi - lo) : lo \in MergedLow(R, off), hi \in MergedHigh(R, off + n)}

Free(id, gen) ==
    \E r \in regions :
        /\ Named(r, id, gen)
        /\ regions' = canonicalize_regions(regions \ {r}, r.offset, r.size)
        /\ free_slots' = canonicalize_slots(regions \ {r}, free_slots, r.offset, r.size)
        /\ alloc_offset' = IndexAt(id, Absent)
        /\ live_bytes' = live_bytes - r.size
        /\ live_count' = live_count - 1
        /\ InvalidateSummary

-----------------------------------------------------------------------------
(* relocate: move a live region to [lo, lo+n), carving the target out of   *)
(* free space and returning the old interval. Pins and movability are the  *)
(* caller's business: this method does not look at them.                   *)

Overlaps(r, lo, hi) == r.offset < hi /\ lo < EndOf(r)

\* The free regions the target cuts, and what it leaves of them.
Cut(R, lo, hi) == {r \in R : ~r.live /\ Overlaps(r, lo, hi)}
Below(R, lo, hi) == {r \in Cut(R, lo, hi) : r.offset < lo}
Above(R, lo, hi) == {r \in Cut(R, lo, hi) : hi < EndOf(r)}

carve_regions(R, lo, hi) ==
    (R \ Cut(R, lo, hi))
      \cup {FreeRegion(r.offset, lo - r.offset) : r \in Below(R, lo, hi)}
      \cup {FreeRegion(hi, EndOf(r) - hi) : r \in Above(R, lo, hi)}

carve_slots(R, F, lo, hi) ==
    (F \ {Slot(r.offset, r.size) : r \in Cut(R, lo, hi)})
      \cup {Slot(r.offset, lo - r.offset) : r \in Below(R, lo, hi)}
      \cup {Slot(hi, EndOf(r) - hi) : r \in Above(R, lo, hi)}

ValidTarget(r, lo, n, align) ==
    /\ is_pow2(align)
    /\ n # 0
    /\ lo % align = 0
    /\ lo <= Capacity
    /\ n <= Capacity - lo
    /\ \A q \in regions : q.live => ~Overlaps(q, lo, lo + n)

\* Mutation: the old handle stays good after the move.
MovedSameGeneration(r, lo, n, align) ==
    [r EXCEPT !.offset = lo, !.size = n, !.alignment = align]

Moved(r, lo, n, align) ==
    [r EXCEPT !.offset = lo, !.size = n, !.alignment = align, !.generation = @ + 1]

\* Mutation: a move taken to preserve the size.
ResizeIgnored(old, n) == live_bytes

Resized(old, n) == live_bytes + n - old

Relocate(id, gen, lo, n, align) ==
    \E r \in regions :
        /\ Named(r, id, gen)
        /\ gen < MaxGeneration
        /\ ValidTarget(r, lo, n, align)
        /\ LET R == carve_regions(regions \ {r}, lo, lo + n)
               F == carve_slots(regions \ {r}, free_slots, lo, lo + n)
           IN  /\ regions' = canonicalize_regions(R, r.offset, r.size)
                               \cup {Moved(r, lo, n, align)}
               /\ free_slots' = canonicalize_slots(R, F, r.offset, r.size)
        /\ alloc_offset' = IndexAt(id, lo)
        /\ live_bytes' = Resized(r.size, n)
        /\ InvalidateSummary
        /\ UNCHANGED live_count

-----------------------------------------------------------------------------
(* pin and unpin count holders on the region itself. *)

Pinned(r) == [r EXCEPT !.movability = "PINNED", !.pin_count = @ + 1]

Unpinned(r) ==
    [r EXCEPT !.pin_count = @ - 1,
              !.movability = IF r.pin_count = 1 THEN "MOVABLE" ELSE @]

\* Mutation: unpin without the check for an outstanding pin.
PinAssumed(r) == TRUE

HasPin(r) == r.pin_count # 0

Pin(id, gen) ==
    \E r \in regions :
        /\ Named(r, id, gen)
        /\ r.pin_count < MaxPins
        /\ regions' = (regions \ {r}) \cup {Pinned(r)}
        /\ UNCHANGED <<alloc_offset, free_slots, live_bytes, live_count, summary>>

Unpin(id, gen) ==
    \E r \in regions :
        /\ Named(r, id, gen)
        /\ HasPin(r)
        /\ regions' = (regions \ {r}) \cup {Unpinned(r)}
        /\ UNCHANGED <<alloc_offset, free_slots, live_bytes, live_count, summary>>

-----------------------------------------------------------------------------
(* ensure_summary, called by every reader of the cached summary. *)

\* n is the largest size in S, the last key of the size order; 0 if S is empty.
IsLargest(n, S) == n \in {0} \cup {x.size : x \in S} /\ \A x \in S : x.size <= n

ensure_summary ==
    /\ summary_dirty
    /\ free_count' = Cardinality(free_slots)
    /\ \E n \in {0} \cup {s.size : s \in free_slots} :
          IsLargest(n, free_slots) /\ largest_free' = n
    /\ summary_dirty' = FALSE
    /\ UNCHANGED <<regions, alloc_offset, free_slots, live_bytes, live_count>>

-----------------------------------------------------------------------------
ArenaInit ==
    /\ regions = {FreeRegion(0, Capacity)}
    /\ alloc_offset = [i \in AllocIds |-> Absent]
    /\ free_slots = {Slot(0, Capacity)}
    /\ live_bytes = 0
    /\ live_count = 0
    /\ summary_dirty = TRUE
    /\ free_count = 0
    /\ largest_free = 0

ArenaNext ==
    \/ \E id \in AllocIds, bytes \in RequestBytes, align \in Alignments, mov \in Movabilities :
          Allocate(id, 1, bytes, align, mov)
    \/ \E id \in AllocIds, gen \in 1 .. MaxGeneration : Free(id, gen)
    \/ \E id \in AllocIds, gen \in 1 .. MaxGeneration, lo \in 0 .. Capacity,
          n \in RequestBytes, align \in Alignments : Relocate(id, gen, lo, n, align)
    \/ \E id \in AllocIds, gen \in 1 .. MaxGeneration : Pin(id, gen)
    \/ \E id \in AllocIds, gen \in 1 .. MaxGeneration : Unpin(id, gen)
    \/ ensure_summary

ArenaSpec == ArenaInit /\ [][ArenaNext]_arena

-----------------------------------------------------------------------------
(* Correctness. verify() of the code checks the first three on one layout; *)
(* here they, and what callers rely on beyond them, hold in every layout   *)
(* the methods can produce.                                                *)

Live == {r \in regions : r.live}
FreeRegions == {r \in regions : ~r.live}
Covers(r, b) == r.offset <= b /\ b < EndOf(r)
Occupied == {b \in Bytes : \E r \in Live : Covers(r, b)}

RegionType ==
    [offset : Bytes, size : 1 .. Capacity, live : BOOLEAN,
     alloc_id : AllocIds \cup {NoOne}, generation : 0 .. MaxGeneration,
     alignment : 1 .. WordSize - 1, movability : Movability, pin_count : 0 .. MaxPins]

(* Types of the arena's state; a free region carries no allocation and no  *)
(* pin, a live one an allocation id and a set generation. (The ranges of   *)
(* the counters follow from ExactAccounting.)                              *)
TypeOK ==
    /\ regions \subseteq RegionType
    /\ \A r \in regions : /\ EndOf(r) <= Capacity
                          /\ r.live => r.alloc_id \in AllocIds /\ r.generation >= 1
                          /\ ~r.live => r = FreeRegion(r.offset, r.size)
    /\ alloc_offset \in [AllocIds -> Bytes \cup {Absent}]
    /\ free_slots \subseteq [size : 1 .. Capacity, offset : Bytes]
    /\ live_bytes \in Int
    /\ live_count \in Int
    /\ summary_dirty \in BOOLEAN
    /\ free_count \in Nat
    /\ largest_free \in 0 .. Capacity

NoOverlap == \A p, q \in regions : p = q \/ EndOf(p) <= q.offset \/ EndOf(q) <= p.offset
Covered == \A b \in Bytes : \E r \in regions : Covers(r, b)

(* Live and free regions partition the managed bytes: no gap, no overlap,  *)
(* whatever was split, merged, carved or moved (verify(), "gap/overlap").  *)
Tiling == NoOverlap /\ Covered

(* Free regions are maximal: two of them never touch, so a free hole is    *)
(* never hidden in two pieces (verify(), "adjacent free not merged").      *)
Coalesced == \A p, q \in FreeRegions : EndOf(p) # q.offset

(* The size index holds exactly the free regions: allocate() dereferences  *)
(* regions_.find(slot.offset) unchecked, so a stale slot is a crash and a  *)
(* missing one lost memory (verify() compares only the two counts).        *)
FreeIndexExact == free_slots = {Slot(r.offset, r.size) : r \in FreeRegions}

(* The id index and the live regions agree: every id with an entry has     *)
(* exactly one live region, the one at the indexed offset, and an id       *)
(* without an entry has none. free(), relocate(), pin() reach regions only *)
(* through this index and never compare the region's own alloc_id.         *)
AllocIndexExact ==
    /\ \A r \in Live : alloc_offset[r.alloc_id] = r.offset
    /\ \A id \in AllocIds : alloc_offset[id] # Absent =>
          \E r \in Live : r.alloc_id = id /\ r.offset = alloc_offset[id]

(* The incremental counters equal what a recount would find: live_bytes    *)
(* the number of bytes under live regions, live_count the live regions.    *)
ExactAccounting == live_bytes = Cardinality(Occupied) /\ live_count = Cardinality(Live)

(* Every live region starts at a multiple of its alignment, which is a     *)
(* power of two, also where the 64-bit rounding could wrap.                *)
Aligned == \A r \in Live : is_pow2(r.alignment) /\ r.offset % r.alignment = 0

(* A summary that is not marked dirty is the summary of the present        *)
(* layout, so no reader sees a number from before the last change.         *)
SummaryFresh ==
    ~summary_dirty =>
        /\ free_count = Cardinality(FreeRegions)
        /\ IsLargest(largest_free, FreeRegions)

(* allocate() refuses a well-formed request only if no aligned run of      *)
(* unoccupied bytes of the rounded size exists anywhere in the arena.      *)
NoFalseOOM ==
    \A bytes \in RequestBytes, align \in Alignments :
        ValidRequest(bytes, align) =>
            LET need == align_up(bytes, align)
            IN  (\E lo \in 0 .. Capacity - need :
                    lo % align = 0 /\ \A r \in Live : ~Overlaps(r, lo, lo + need))
                => CanAllocate(bytes, align)

-----------------------------------------------------------------------------
(* Refinement: a byte is owned by the live region that covers it. *)

owner ==
    [b \in Bytes |->
        IF \E r \in Live : Covers(r, b)
        THEN LET r == CHOOSE q \in Live : Covers(q, b) IN <<r.alloc_id, r.generation>>
        ELSE <<NoOne, 0>>]

Ledger == INSTANCE ByteLedger WITH owner <- owner

(* The arena implements the byte ledger: splitting, padding, merging and   *)
(* carving are invisible to owners, a move changes hands in one step, and  *)
(* only the current generation of an allocation releases or moves it.      *)
ImplementsLedger == Ledger!Spec
==============================================================================
