------------------------ MODULE RegionAllocatorProofs ------------------------
(***************************************************************************)
(* Proofs about RegionAllocator, for every capacity, word size, set of     *)
(* allocation ids and set of requests.                                     *)
(***************************************************************************)
EXTENDS RegionAllocator, FiniteSetTheorems, TLAPS

-----------------------------------------------------------------------------
(* Layouts. The lemmas below speak of an arbitrary set R of regions, since *)
(* relocate() passes through layouts with holes before it restores one     *)
(* without.                                                                *)

RegionSound(r) ==
    /\ r \in RegionType
    /\ EndOf(r) <= Capacity
    /\ r.live => r.alloc_id \in AllocIds /\ r.generation >= 1
    /\ ~r.live => r = FreeRegion(r.offset, r.size)

Apart(p, q) == EndOf(p) <= q.offset \/ EndOf(q) <= p.offset

\* Well-formed, disjoint regions whose free members do not touch.
Layout(R) ==
    /\ \A r \in R : RegionSound(r)
    /\ \A p, q \in R : p = q \/ Apart(p, q)
    /\ \A p, q \in R : ~p.live /\ ~q.live => EndOf(p) # q.offset

SlotsOf(R) == {Slot(r.offset, r.size) : r \in {q \in R : ~q.live}}

\* No region of R reaches into [lo, hi).
Clear(R, lo, hi) == \A r \in R : ~Overlaps(r, lo, hi)

CoveredBy(R, b) == \E r \in R : Covers(r, b)

-----------------------------------------------------------------------------
(* The piece of free space canonicalize_free() inserts. *)

\* A free region inside the arena is well-formed.
LEMMA FreeRegionWellFormed ==
    ASSUME NEW off \in Bytes, NEW n \in 1 .. Capacity, off + n <= Capacity
    PROVE  RegionSound(FreeRegion(off, n))
  BY CapacityAssumption, WordAssumption, BoundAssumption
  DEF RegionSound, FreeRegion, RegionType, EndOf, Movability, NoOne, Bytes

\* Its fields.
LEMMA FreeRegionFields ==
    \A off, n : /\ FreeRegion(off, n).offset = off /\ FreeRegion(off, n).size = n
                /\ ~FreeRegion(off, n).live
  BY DEF FreeRegion

\* At most one free region ends where the returned interval starts.
LEMMA LeftMerge ==
    ASSUME NEW R, Layout(R), NEW off \in Bytes
    PROVE  \E lo \in Bytes :
              /\ MergedLow(R, off) = {lo}
              /\ lo <= off
              /\ \/ lo = off /\ LeftOf(R, off) = {}
                 \/ \E p \in R : /\ LeftOf(R, off) = {p} /\ ~p.live
                                 /\ p.offset = lo /\ EndOf(p) = off
<1>1. CASE LeftOf(R, off) = {}
  BY <1>1 DEF MergedLow, Bytes
<1>2. CASE LeftOf(R, off) # {}
  <2>1. PICK p \in LeftOf(R, off) : TRUE
    BY <1>2
  <2>2. p \in R /\ ~p.live /\ EndOf(p) = off /\ p \in RegionType
    BY <2>1 DEF LeftOf, Layout, RegionSound
  <2>3. \A q \in LeftOf(R, off) : q = p
    BY <2>2, CapacityAssumption DEF LeftOf, Layout, RegionSound, Apart, RegionType, EndOf, Bytes
  <2>4. LeftOf(R, off) = {p}
    BY <2>1, <2>3
  <2>5. MergedLow(R, off) = {p.offset}
    BY <2>4, <1>2 DEF MergedLow
  <2>6. p.offset \in Bytes /\ p.offset <= off
    BY <2>2, CapacityAssumption DEF RegionType, EndOf, Bytes
  <2>. QED  BY <2>2, <2>4, <2>5, <2>6
<1>. QED  BY <1>1, <1>2

\* At most one free region starts where the returned interval ends.
LEMMA RightMerge ==
    ASSUME NEW R, Layout(R), NEW at \in 1 .. Capacity
    PROVE  \E hi \in 1 .. Capacity :
              /\ MergedHigh(R, at) = {hi}
              /\ at <= hi
              /\ \/ hi = at /\ RightOf(R, at) = {}
                 \/ \E p \in R : /\ RightOf(R, at) = {p} /\ ~p.live
                                 /\ p.offset = at /\ EndOf(p) = hi
<1>1. CASE RightOf(R, at) = {}
  BY <1>1 DEF MergedHigh
<1>2. CASE RightOf(R, at) # {}
  <2>1. PICK p \in RightOf(R, at) : TRUE
    BY <1>2
  <2>2. p \in R /\ ~p.live /\ p.offset = at /\ p \in RegionType /\ EndOf(p) <= Capacity
    BY <2>1 DEF RightOf, Layout, RegionSound
  <2>3. \A q \in RightOf(R, at) : q = p
    BY <2>2, CapacityAssumption DEF RightOf, Layout, RegionSound, Apart, RegionType, EndOf, Bytes
  <2>4. RightOf(R, at) = {p}
    BY <2>1, <2>3
  <2>5. MergedHigh(R, at) = {EndOf(p)}
    BY <2>4, <1>2 DEF MergedHigh
  <2>6. EndOf(p) \in 1 .. Capacity /\ at <= EndOf(p)
    BY <2>2, CapacityAssumption DEF RegionType, EndOf, Bytes
  <2>. QED  BY <2>2, <2>4, <2>5, <2>6
<1>. QED  BY <1>1, <1>2

(***************************************************************************)
(* canonicalize_free() on a clear interval: what remains is a layout, it   *)
(* covers the interval besides what was covered, no live region is         *)
(* touched, and the size index follows.                                    *)
(***************************************************************************)
LEMMA Canonicalize ==
    ASSUME NEW R, Layout(R), NEW off \in Bytes, NEW n \in 1 .. Capacity,
           off + n <= Capacity, Clear(R, off, off + n)
    PROVE  LET C == canonicalize_regions(R, off, n)
           IN  /\ Layout(C)
               /\ \A b \in Bytes : CoveredBy(C, b) <=> CoveredBy(R, b) \/ (off <= b /\ b < off + n)
               /\ {r \in C : r.live} = {r \in R : r.live}
               /\ canonicalize_slots(R, SlotsOf(R), off, n) = SlotsOf(C)
<1>. DEFINE C == canonicalize_regions(R, off, n)
            at == off + n
<1>0. at \in 1 .. Capacity
  BY CapacityAssumption DEF Bytes
<1>1. PICK lo \in Bytes :
              /\ MergedLow(R, off) = {lo}
              /\ lo <= off
              /\ \/ lo = off /\ LeftOf(R, off) = {}
                 \/ \E p \in R : /\ LeftOf(R, off) = {p} /\ ~p.live
                                 /\ p.offset = lo /\ EndOf(p) = off
  BY LeftMerge
<1>2. PICK hi \in 1 .. Capacity :
              /\ MergedHigh(R, at) = {hi}
              /\ at <= hi
              /\ \/ hi = at /\ RightOf(R, at) = {}
                 \/ \E p \in R : /\ RightOf(R, at) = {p} /\ ~p.live
                                 /\ p.offset = at /\ EndOf(p) = hi
  BY <1>0, RightMerge
<1>. DEFINE f == FreeRegion(lo, hi - lo)
            M == LeftOf(R, off) \cup RightOf(R, at)
<1>3. C = (R \ M) \cup {f}
  BY <1>1, <1>2 DEF canonicalize_regions
<1>4. hi - lo \in 1 .. Capacity /\ lo + (hi - lo) <= Capacity
  BY <1>0, <1>1, <1>2, CapacityAssumption DEF Bytes
<1>5. RegionSound(f) /\ f.offset = lo /\ f.size = hi - lo /\ ~f.live /\ EndOf(f) = hi
  BY <1>4, FreeRegionWellFormed, CapacityAssumption DEF FreeRegion, EndOf, Bytes
<1>6. \A r \in R : /\ r.offset \in Bytes /\ r.size \in 1 .. Capacity
                   /\ EndOf(r) = r.offset + r.size /\ RegionSound(r)
  BY DEF Layout, RegionSound, RegionType, EndOf
<1>7. \A r \in R : EndOf(r) <= off \/ at <= r.offset
  BY <1>6, CapacityAssumption DEF Clear, Overlaps, Bytes
<1>8. \A r \in R \ M : Apart(r, f)
  <2>. SUFFICES ASSUME NEW r \in R \ M PROVE Apart(r, f)
    OBVIOUS
  <2>1. CASE EndOf(r) <= off
    <3>1. EndOf(r) <= lo
      BY <2>1, <1>1, <1>6, CapacityAssumption DEF Layout, Apart, Bytes
    <3>. QED  BY <3>1, <1>5 DEF Apart
  <2>2. CASE at <= r.offset
    <3>1. hi <= r.offset
      BY <2>2, <1>2, <1>6, CapacityAssumption DEF Layout, Apart, Bytes
    <3>. QED  BY <3>1, <1>5 DEF Apart
  <2>. QED  BY <2>1, <2>2, <1>7
<1>9. \A r \in R \ M : ~r.live => EndOf(r) # lo /\ r.offset # hi
  <2>. SUFFICES ASSUME NEW r \in R \ M, ~r.live PROVE EndOf(r) # lo /\ r.offset # hi
    OBVIOUS
  <2>1. EndOf(r) # lo
    BY <1>1 DEF Layout, LeftOf
  <2>2. r.offset # hi
    BY <1>2 DEF Layout, RightOf
  <2>. QED  BY <2>1, <2>2
<1>10. Layout(C)
  <2>1. \A r \in C : RegionSound(r)
    BY <1>3, <1>5, <1>6
  <2>2. \A p, q \in C : p = q \/ Apart(p, q)
    BY <1>3, <1>8 DEF Layout, Apart
  <2>3. \A p, q \in C : ~p.live /\ ~q.live => EndOf(p) # q.offset
    BY <1>3, <1>4, <1>5, <1>9, CapacityAssumption DEF Layout, Bytes
  <2>. QED  BY <2>1, <2>2, <2>3 DEF Layout
<1>11. \A b \in Bytes : CoveredBy(C, b) <=> CoveredBy(R, b) \/ (off <= b /\ b < at)
  <2>. SUFFICES ASSUME NEW b \in Bytes
               PROVE CoveredBy(C, b) <=> CoveredBy(R, b) \/ (off <= b /\ b < at)
    OBVIOUS
  <2>1. Covers(f, b) <=> lo <= b /\ b < hi
    BY <1>5 DEF Covers
  <2>2. (lo <= b /\ b < off) => CoveredBy(R, b)
    BY <1>1, CapacityAssumption DEF CoveredBy, Covers, Bytes
  <2>3. (at <= b /\ b < hi) => CoveredBy(R, b)
    BY <1>2, CapacityAssumption DEF CoveredBy, Covers, Bytes
  <2>4. CoveredBy(C, b) => CoveredBy(R, b) \/ (off <= b /\ b < at)
    BY <1>0, <1>1, <1>2, <1>3, <2>1, <2>2, <2>3, CapacityAssumption DEF CoveredBy, Bytes
  <2>5. \A p \in M : Covers(p, b) => Covers(f, b)
    BY <1>0, <1>1, <1>2, <1>5, <1>6, CapacityAssumption DEF Covers, Bytes
  <2>6. CoveredBy(R, b) => CoveredBy(C, b)
    BY <1>3, <2>5 DEF CoveredBy
  <2>7. (off <= b /\ b < at) => CoveredBy(C, b)
    BY <1>0, <1>1, <1>2, <1>3, <2>1, CapacityAssumption DEF CoveredBy, Bytes
  <2>. QED  BY <2>4, <2>6, <2>7
<1>12. {r \in C : r.live} = {r \in R : r.live}
  BY <1>3, <1>5 DEF LeftOf, RightOf
<1>13. canonicalize_slots(R, SlotsOf(R), off, n) = SlotsOf(C)
  <2>1. canonicalize_slots(R, SlotsOf(R), off, n)
          = (SlotsOf(R) \ {Slot(p.offset, p.size) : p \in M}) \cup {Slot(lo, hi - lo)}
    BY <1>1, <1>2 DEF canonicalize_slots
  <2>2. \A p, q \in R : p.offset = q.offset => p = q
    BY <1>6, CapacityAssumption DEF Layout, Apart, Bytes
  <2>3. \A p \in R : p \in M => ~p.live
    BY DEF LeftOf, RightOf
  <2>4. M \subseteq R
    BY DEF LeftOf, RightOf
  <2>5. SlotsOf(R) \ {Slot(p.offset, p.size) : p \in M} = SlotsOf(R \ M)
    BY <2>2, <2>4 DEF SlotsOf, Slot
  <2>6. SlotsOf(C) = SlotsOf(R \ M) \cup {Slot(lo, hi - lo)}
    BY <1>3, <1>5 DEF SlotsOf
  <2>. QED  BY <2>1, <2>5, <2>6
<1>. QED  BY <1>10, <1>11, <1>12, <1>13

(***************************************************************************)
(* Carving [lo, hi) out of free space leaves a layout that is clear there  *)
(* and covers what it did elsewhere; live regions are untouched, and the   *)
(* size index follows.                                                     *)
(***************************************************************************)
LEMMA Carve ==
    ASSUME NEW R, Layout(R), NEW lo \in Bytes, NEW hi \in 1 .. Capacity, lo < hi,
           \A r \in R : r.live => ~Overlaps(r, lo, hi)
    PROVE  LET C == carve_regions(R, lo, hi)
           IN  /\ Layout(C)
               /\ Clear(C, lo, hi)
               /\ \A b \in Bytes : CoveredBy(C, b) <=> CoveredBy(R, b) /\ ~(lo <= b /\ b < hi)
               /\ {r \in C : r.live} = {r \in R : r.live}
               /\ carve_slots(R, SlotsOf(R), lo, hi) = SlotsOf(C)
<1>. DEFINE C == carve_regions(R, lo, hi)
            K == Cut(R, lo, hi)
            BL == {FreeRegion(r.offset, lo - r.offset) : r \in Below(R, lo, hi)}
            AB == {FreeRegion(hi, EndOf(r) - hi) : r \in Above(R, lo, hi)}
<1>1. C = (R \ K) \cup BL \cup AB
  BY DEF carve_regions
<1>2. \A r \in R : /\ r.offset \in Bytes /\ r.size \in 1 .. Capacity
                   /\ EndOf(r) = r.offset + r.size /\ RegionSound(r) /\ EndOf(r) <= Capacity
  BY DEF Layout, RegionSound, RegionType, EndOf
<1>3. \A r \in R \ K : EndOf(r) <= lo \/ hi <= r.offset
  BY <1>2, CapacityAssumption DEF Cut, Overlaps, Bytes
\* What is left below: the start of a cut region.
<1>4. \A p \in BL : \E r \in R :
          /\ r \in K /\ ~r.live /\ r.offset < lo /\ lo < EndOf(r)
          /\ p = FreeRegion(r.offset, lo - r.offset)
          /\ p.offset = r.offset /\ EndOf(p) = lo /\ ~p.live /\ RegionSound(p)
  <2>. SUFFICES ASSUME NEW r \in Below(R, lo, hi)
               PROVE  LET p == FreeRegion(r.offset, lo - r.offset)
                      IN  /\ r \in R /\ r \in K /\ ~r.live /\ r.offset < lo /\ lo < EndOf(r)
                          /\ p.offset = r.offset /\ EndOf(p) = lo /\ ~p.live /\ RegionSound(p)
    OBVIOUS
  <2>1. r \in R /\ r \in K /\ ~r.live /\ r.offset < lo /\ lo < EndOf(r)
    BY DEF Below, Cut, Overlaps
  <2>2. lo - r.offset \in 1 .. Capacity /\ r.offset + (lo - r.offset) <= Capacity
        /\ r.offset + (lo - r.offset) = lo
    BY <2>1, <1>2, CapacityAssumption DEF Bytes
  <2>3. RegionSound(FreeRegion(r.offset, lo - r.offset))
    BY <2>1, <2>2, <1>2, FreeRegionWellFormed
  <2>. QED  BY <2>1, <2>2, <2>3 DEF FreeRegion, EndOf
\* What is left above: the end of a cut region.
<1>5. \A p \in AB : \E r \in R :
          /\ r \in K /\ ~r.live /\ r.offset < hi /\ hi < EndOf(r)
          /\ p = FreeRegion(hi, EndOf(r) - hi)
          /\ p.offset = hi /\ EndOf(p) = EndOf(r) /\ ~p.live /\ RegionSound(p)
  <2>. SUFFICES ASSUME NEW r \in Above(R, lo, hi)
               PROVE  LET p == FreeRegion(hi, EndOf(r) - hi)
                      IN  /\ r \in R /\ r \in K /\ ~r.live /\ r.offset < hi /\ hi < EndOf(r)
                          /\ p.offset = hi /\ EndOf(p) = EndOf(r) /\ ~p.live /\ RegionSound(p)
    OBVIOUS
  <2>1. r \in R /\ r \in K /\ ~r.live /\ r.offset < hi /\ hi < EndOf(r)
    BY DEF Above, Cut, Overlaps
  <2>2. hi \in Bytes /\ EndOf(r) - hi \in 1 .. Capacity /\ hi + (EndOf(r) - hi) <= Capacity
        /\ hi + (EndOf(r) - hi) = EndOf(r)
    BY <2>1, <1>2, CapacityAssumption DEF Bytes
  <2>3. RegionSound(FreeRegion(hi, EndOf(r) - hi))
    BY <2>2, FreeRegionWellFormed
  <2>. QED  BY <2>1, <2>2, <2>3 DEF FreeRegion, EndOf
<1>6. \A p, q \in R : p # q => Apart(p, q)
  BY DEF Layout
<1>7. \A r \in C : RegionSound(r)
  BY <1>1, <1>2, <1>4, <1>5
<1>8. \A p \in R \ K, q \in BL \cup AB : Apart(p, q)
  BY <1>2, <1>3, <1>4, <1>5, <1>6, CapacityAssumption DEF Apart, Bytes
<1>9. \A p, q \in BL : p = q
  BY <1>2, <1>4, <1>6, CapacityAssumption DEF Apart, Bytes
<1>10. \A p, q \in AB : p = q
  BY <1>2, <1>5, <1>6, CapacityAssumption DEF Apart, Bytes
<1>11. \A p \in BL, q \in AB : Apart(p, q) /\ EndOf(p) # q.offset /\ EndOf(q) # p.offset
  BY <1>2, <1>4, <1>5, CapacityAssumption DEF Apart, Bytes
<1>12. \A p \in R \ K, q \in BL \cup AB :
          ~p.live => EndOf(p) # q.offset /\ EndOf(q) # p.offset
  <2>. SUFFICES ASSUME NEW p \in R \ K, NEW q \in BL \cup AB, ~p.live
               PROVE  EndOf(p) # q.offset /\ EndOf(q) # p.offset
    OBVIOUS
  <2>1. \A r \in R : ~r.live => EndOf(p) # r.offset /\ EndOf(r) # p.offset
    BY DEF Layout
  <2>2. CASE q \in BL
    <3>1. PICK r \in R : r \in K /\ ~r.live /\ r.offset < lo /\ lo < EndOf(r)
                         /\ q.offset = r.offset /\ EndOf(q) = lo
      BY <2>2, <1>4
    <3>2. p.offset # lo
      BY <3>1, <1>2, <1>6, CapacityAssumption DEF Apart, Bytes
    <3>. QED  BY <2>1, <3>1, <3>2
  <2>3. CASE q \in AB
    <3>1. PICK r \in R : r \in K /\ ~r.live /\ r.offset < hi /\ hi < EndOf(r)
                         /\ q.offset = hi /\ EndOf(q) = EndOf(r)
      BY <2>3, <1>5
    <3>2. EndOf(p) # hi
      BY <3>1, <1>2, <1>6, CapacityAssumption DEF Apart, Bytes
    <3>. QED  BY <2>1, <3>1, <3>2
  <2>. QED  BY <2>2, <2>3
<1>13. Layout(C)
  <2>1. \A p, q \in C : p = q \/ Apart(p, q)
    BY <1>1, <1>6, <1>8, <1>9, <1>10, <1>11 DEF Apart
  <2>2. \A p \in BL \cup AB : EndOf(p) # p.offset
    BY <1>2, <1>4, <1>5, CapacityAssumption DEF Bytes
  <2>3. \A p, q \in C : ~p.live /\ ~q.live => EndOf(p) # q.offset
    BY <1>1, <1>9, <1>10, <1>11, <1>12, <2>2 DEF Layout
  <2>. QED  BY <1>7, <2>1, <2>3 DEF Layout
<1>14. Clear(C, lo, hi)
  <2>1. \A r \in R \ K : ~Overlaps(r, lo, hi)
    BY <1>2, <1>3, CapacityAssumption DEF Overlaps, Bytes
  <2>2. \A r \in BL \cup AB : ~Overlaps(r, lo, hi)
    BY <1>2, <1>4, <1>5, CapacityAssumption DEF Overlaps, Bytes
  <2>. QED  BY <1>1, <2>1, <2>2 DEF Clear
<1>15. \A b \in Bytes : CoveredBy(C, b) <=> CoveredBy(R, b) /\ ~(lo <= b /\ b < hi)
  <2>. SUFFICES ASSUME NEW b \in Bytes
               PROVE  CoveredBy(C, b) <=> CoveredBy(R, b) /\ ~(lo <= b /\ b < hi)
    OBVIOUS
  <2>1. \A r \in C : Covers(r, b) => ~(lo <= b /\ b < hi)
    <3>1. \A r \in C : r.offset \in Int /\ EndOf(r) \in Int
      BY <1>7 DEF RegionSound, RegionType, EndOf, Bytes
    <3>. QED  BY <3>1, <1>14, CapacityAssumption DEF Clear, Overlaps, Covers, Bytes
  <2>2. \A r \in BL \cup AB : Covers(r, b) => CoveredBy(R, b)
    BY <1>2, <1>4, <1>5, CapacityAssumption DEF Covers, CoveredBy, Bytes
  <2>3. CoveredBy(C, b) => CoveredBy(R, b) /\ ~(lo <= b /\ b < hi)
    BY <1>1, <2>1, <2>2 DEF CoveredBy
  <2>4. ASSUME NEW r \in K, Covers(r, b), ~(lo <= b /\ b < hi)
        PROVE  CoveredBy(C, b)
    <3>0. r \in R /\ ~r.live /\ r.offset < hi /\ lo < EndOf(r) /\ r.offset <= b /\ b < EndOf(r)
      BY <2>4 DEF Cut, Overlaps, Covers
    <3>1. CASE b < lo
      <4>1. r.offset < lo
        BY <3>0, <3>1, <1>2, CapacityAssumption DEF Bytes
      <4>2. FreeRegion(r.offset, lo - r.offset) \in BL
        BY <4>1 DEF Below
      <4>3. Covers(FreeRegion(r.offset, lo - r.offset), b)
        BY <3>0, <3>1, <1>2, CapacityAssumption DEF Covers, FreeRegion, EndOf, Bytes
      <4>. QED  BY <4>2, <4>3, <1>1 DEF CoveredBy
    <3>2. CASE hi <= b
      <4>1. hi < EndOf(r)
        BY <3>0, <3>2, <1>2, CapacityAssumption DEF Bytes
      <4>2. FreeRegion(hi, EndOf(r) - hi) \in AB
        BY <4>1 DEF Above
      <4>3. Covers(FreeRegion(hi, EndOf(r) - hi), b)
        BY <3>0, <3>2, <1>2, CapacityAssumption DEF Covers, FreeRegion, EndOf, Bytes
      <4>. QED  BY <4>2, <4>3, <1>1 DEF CoveredBy
    <3>. QED  BY <3>1, <3>2, <2>4 DEF Bytes
  <2>5. CoveredBy(R, b) /\ ~(lo <= b /\ b < hi) => CoveredBy(C, b)
    BY <1>1, <2>4 DEF CoveredBy
  <2>. QED  BY <2>3, <2>5
<1>16. {r \in C : r.live} = {r \in R : r.live}
  BY <1>1, <1>4, <1>5 DEF Cut
<1>17. carve_slots(R, SlotsOf(R), lo, hi) = SlotsOf(C)
  <2>1. \A p, q \in R : p.offset = q.offset => p = q
    BY <1>2, <1>6, CapacityAssumption DEF Apart, Bytes
  <2>2. K \subseteq R
    BY DEF Cut
  <2>3. SlotsOf(R) \ {Slot(p.offset, p.size) : p \in K} = SlotsOf(R \ K)
    BY <2>1, <2>2 DEF SlotsOf, Slot
  <2>4. SlotsOf(BL) = {Slot(r.offset, lo - r.offset) : r \in Below(R, lo, hi)}
    <3>1. ASSUME NEW r \in Below(R, lo, hi)
          PROVE  Slot(r.offset, lo - r.offset) \in SlotsOf(BL)
      <4>1. FreeRegion(r.offset, lo - r.offset) \in {q \in BL : ~q.live}
        BY FreeRegionFields
      <4>. QED  BY <4>1, FreeRegionFields DEF SlotsOf
    <3>2. ASSUME NEW p \in {q \in BL : ~q.live}
          PROVE  \E r \in Below(R, lo, hi) : Slot(p.offset, p.size) = Slot(r.offset, lo - r.offset)
      <4>1. PICK r \in Below(R, lo, hi) : p = FreeRegion(r.offset, lo - r.offset)
        OBVIOUS
      <4>. QED  BY <4>1, FreeRegionFields
    <3>. QED  BY <3>1, <3>2 DEF SlotsOf
  <2>5. SlotsOf(AB) = {Slot(hi, EndOf(r) - hi) : r \in Above(R, lo, hi)}
    <3>1. ASSUME NEW r \in Above(R, lo, hi)
          PROVE  Slot(hi, EndOf(r) - hi) \in SlotsOf(AB)
      <4>1. FreeRegion(hi, EndOf(r) - hi) \in {q \in AB : ~q.live}
        BY FreeRegionFields
      <4>. QED  BY <4>1, FreeRegionFields DEF SlotsOf
    <3>2. ASSUME NEW p \in {q \in AB : ~q.live}
          PROVE  \E r \in Above(R, lo, hi) : Slot(p.offset, p.size) = Slot(hi, EndOf(r) - hi)
      <4>1. PICK r \in Above(R, lo, hi) : p = FreeRegion(hi, EndOf(r) - hi)
        OBVIOUS
      <4>. QED  BY <4>1, FreeRegionFields
    <3>. QED  BY <3>1, <3>2 DEF SlotsOf
  <2>6. SlotsOf(C) = SlotsOf(R \ K) \cup SlotsOf(BL) \cup SlotsOf(AB)
    BY <1>1 DEF SlotsOf
  <2>. QED  BY <2>3, <2>4, <2>5, <2>6 DEF carve_slots
<1>. QED  BY <1>13, <1>14, <1>15, <1>16, <1>17

-----------------------------------------------------------------------------
(* The arena between two calls: a layout without holes, indexed exactly.   *)

Shape(R, F) ==
    /\ Layout(R)
    /\ \A b \in Bytes : CoveredBy(R, b)
    /\ F = SlotsOf(R)

\* The safety invariants say that the state has this shape.
LEMMA ShapeOfState ==
    ASSUME TypeOK, Tiling, Coalesced, FreeIndexExact
    PROVE  Shape(regions, free_slots)
<1>1. \A r \in regions : RegionSound(r)
  BY DEF TypeOK, RegionSound
<1>2. \A p, q \in regions : p = q \/ Apart(p, q)
  BY DEF Tiling, NoOverlap, Apart
<1>3. \A p, q \in regions : ~p.live /\ ~q.live => EndOf(p) # q.offset
  BY DEF Coalesced, FreeRegions
<1>4. \A b \in Bytes : CoveredBy(regions, b)
  BY DEF Tiling, Covered, CoveredBy
<1>5. free_slots = SlotsOf(regions)
  BY DEF FreeIndexExact, SlotsOf, FreeRegions
<1>. QED  BY <1>1, <1>2, <1>3, <1>4, <1>5 DEF Shape, Layout

\* What Shape says of the next state.
LEMMA StateOfShape ==
    ASSUME Shape(regions', free_slots')
    PROVE  Tiling' /\ Coalesced' /\ FreeIndexExact'
<1>1. Tiling'
  BY DEF Shape, Layout, Apart, Tiling, NoOverlap, Covered, CoveredBy
<1>2. Coalesced'
  BY DEF Shape, Layout, Coalesced, FreeRegions
<1>3. FreeIndexExact'
  BY DEF Shape, FreeIndexExact, SlotsOf, FreeRegions
<1>. QED  BY <1>1, <1>2, <1>3

\* The slots of a layout are well-typed.
LEMMA SlotTypes ==
    ASSUME NEW R, Layout(R)
    PROVE  SlotsOf(R) \subseteq [size : 1 .. Capacity, offset : Bytes]
  BY DEF Layout, RegionSound, RegionType, SlotsOf, Slot

-----------------------------------------------------------------------------
(* free. *)

\* Returning the interval of a live region restores the shape without it.
LEMMA FreeShape ==
    ASSUME NEW R, NEW F, Shape(R, F), NEW r \in R, r.live
    PROVE  LET C == canonicalize_regions(R \ {r}, r.offset, r.size)
           IN  /\ Shape(C, canonicalize_slots(R \ {r}, F, r.offset, r.size))
               /\ {q \in C : q.live} = {q \in R : q.live} \ {r}
<1>. DEFINE Q == R \ {r}
            C == canonicalize_regions(Q, r.offset, r.size)
<1>1. Layout(Q)
  BY DEF Shape, Layout
<1>2. \A q \in R : q.offset \in Bytes /\ q.size \in 1 .. Capacity
                   /\ EndOf(q) = q.offset + q.size /\ EndOf(q) <= Capacity
  BY DEF Shape, Layout, RegionSound, RegionType, EndOf
<1>3. Clear(Q, r.offset, r.offset + r.size)
  BY <1>2, CapacityAssumption DEF Shape, Layout, Apart, Clear, Overlaps, Bytes
<1>4. SlotsOf(Q) = F
  BY DEF Shape, SlotsOf
<1>5. /\ Layout(C)
      /\ \A b \in Bytes : CoveredBy(C, b) <=>
            CoveredBy(Q, b) \/ (r.offset <= b /\ b < r.offset + r.size)
      /\ {q \in C : q.live} = {q \in Q : q.live}
      /\ canonicalize_slots(Q, SlotsOf(Q), r.offset, r.size) = SlotsOf(C)
  <2>1. r.offset \in Bytes /\ r.size \in 1 .. Capacity /\ r.offset + r.size <= Capacity
    BY <1>2
  <2>. QED  BY <2>1, <1>1, <1>3, Canonicalize
<1>6. \A b \in Bytes : CoveredBy(C, b)
  BY <1>2, <1>5 DEF Shape, CoveredBy, Covers
<1>. QED  BY <1>4, <1>5, <1>6 DEF Shape

(* relocate: carve the target, return the old interval, insert the region. *)

RelocatedRegions(R, r, m) ==
    canonicalize_regions(carve_regions(R \ {r}, m.offset, m.offset + m.size), r.offset, r.size)
        \cup {m}

RelocatedSlots(R, F, r, m) ==
    canonicalize_slots(carve_regions(R \ {r}, m.offset, m.offset + m.size),
                       carve_slots(R \ {r}, F, m.offset, m.offset + m.size), r.offset, r.size)

\* Moving a live region to a place clear of live ones restores the shape.
LEMMA RelocateShape ==
    ASSUME NEW R, NEW F, Shape(R, F), NEW r \in R, r.live, NEW m, RegionSound(m), m.live,
           \A q \in R : q.live => ~Overlaps(q, m.offset, m.offset + m.size)
    PROVE  /\ Shape(RelocatedRegions(R, r, m), RelocatedSlots(R, F, r, m))
           /\ {q \in RelocatedRegions(R, r, m) : q.live} = ({q \in R : q.live} \ {r}) \cup {m}
           /\ \A q \in {p \in R : p.live} \ {r} : Apart(q, m)
<1>. DEFINE lo == m.offset
            n == m.size
<1>0. lo \in Bytes /\ n \in 1 .. Capacity /\ lo + n <= Capacity
  BY DEF RegionSound, RegionType, EndOf
<1>. USE <1>0
<1>. DEFINE Q == R \ {r}
            hi == lo + n
            at == r.offset + r.size
            K == carve_regions(Q, lo, hi)
            S == carve_slots(Q, F, lo, hi)
            C == canonicalize_regions(K, r.offset, r.size)
<1>1. Layout(Q)
  BY DEF Shape, Layout
<1>2. \A q \in R : q.offset \in Bytes /\ q.size \in 1 .. Capacity
                   /\ EndOf(q) = q.offset + q.size /\ EndOf(q) <= Capacity
  BY DEF Shape, Layout, RegionSound, RegionType, EndOf
<1>3. hi \in 1 .. Capacity /\ lo < hi
  BY CapacityAssumption DEF Bytes
<1>4. SlotsOf(Q) = F
  BY DEF Shape, SlotsOf
<1>5. /\ Layout(K)
      /\ Clear(K, lo, hi)
      /\ \A b \in Bytes : CoveredBy(K, b) <=> CoveredBy(Q, b) /\ ~(lo <= b /\ b < hi)
      /\ {q \in K : q.live} = {q \in Q : q.live}
      /\ carve_slots(Q, SlotsOf(Q), lo, hi) = SlotsOf(K)
  BY <1>1, <1>3, Carve
<1>6. \A q \in Q, b \in Bytes : r.offset <= b /\ b < at => ~Covers(q, b)
  BY <1>2, CapacityAssumption DEF Shape, Layout, Apart, Covers, Bytes
<1>7. Clear(K, r.offset, at)
  <2>. SUFFICES ASSUME NEW q \in K, Overlaps(q, r.offset, at) PROVE FALSE
    BY DEF Clear
  <2>1. q.offset \in Bytes /\ q.size \in 1 .. Capacity /\ EndOf(q) = q.offset + q.size
        /\ EndOf(q) <= Capacity
    BY <1>5 DEF Layout, RegionSound, RegionType, EndOf
  <2>2. \E b \in Bytes : Covers(q, b) /\ r.offset <= b /\ b < at
    <3>1. CASE q.offset >= r.offset
      BY <3>1, <2>1, <1>2, CapacityAssumption DEF Overlaps, Covers, Bytes
    <3>2. CASE q.offset < r.offset
      BY <3>2, <2>1, <1>2, CapacityAssumption DEF Overlaps, Covers, Bytes
    <3>. QED  BY <3>1, <3>2, <2>1, <1>2 DEF Bytes
  <2>. QED  BY <2>2, <1>5, <1>6 DEF CoveredBy
<1>8. /\ Layout(C)
      /\ \A b \in Bytes : CoveredBy(C, b) <=> CoveredBy(K, b) \/ (r.offset <= b /\ b < at)
      /\ {q \in C : q.live} = {q \in K : q.live}
      /\ canonicalize_slots(K, SlotsOf(K), r.offset, r.size) = SlotsOf(C)
  <2>1. r.offset \in Bytes /\ r.size \in 1 .. Capacity /\ r.offset + r.size <= Capacity
    BY <1>2
  <2>2. Layout(K) /\ Clear(K, r.offset, r.offset + r.size)
    BY <1>5, <1>7
  <2>. HIDE DEF K
  <2>. QED  BY <2>1, <2>2, Canonicalize
<1>9. ~Overlaps(r, lo, hi)
  OBVIOUS
<1>10. EndOf(m) = hi
  BY DEF EndOf
<1>11. \A q \in C : Apart(q, m)
  <2>. SUFFICES ASSUME NEW q \in C, ~Apart(q, m) PROVE FALSE
    OBVIOUS
  <2>1. q.offset \in Bytes /\ q.size \in 1 .. Capacity /\ EndOf(q) = q.offset + q.size
        /\ EndOf(q) <= Capacity
    BY <1>8 DEF Layout, RegionSound, RegionType, EndOf
  <2>2. \E b \in Bytes : Covers(q, b) /\ lo <= b /\ b < hi
    <3>1. CASE q.offset >= lo
      BY <3>1, <2>1, <1>10, CapacityAssumption DEF Apart, Covers, Bytes
    <3>2. CASE q.offset < lo
      BY <3>2, <2>1, <1>10, CapacityAssumption DEF Apart, Covers, Bytes
    <3>. QED  BY <3>1, <3>2, <2>1 DEF Bytes
  <2>3. \A b \in Bytes : ~(lo <= b /\ b < hi /\ r.offset <= b /\ b < at)
    BY <1>9, <1>2, CapacityAssumption DEF Overlaps, Bytes
  <2>. QED  BY <2>2, <2>3, <1>5, <1>8 DEF CoveredBy
<1>12. Layout(C \cup {m})
  BY <1>8, <1>11 DEF Layout, Apart
<1>13. \A b \in Bytes : CoveredBy(C \cup {m}, b)
  <2>. SUFFICES ASSUME NEW b \in Bytes PROVE CoveredBy(C \cup {m}, b)
    OBVIOUS
  <2>1. CASE lo <= b /\ b < hi
    BY <2>1, <1>10 DEF CoveredBy, Covers
  <2>2. CASE r.offset <= b /\ b < at
    BY <2>2, <1>8 DEF CoveredBy
  <2>3. CASE ~(lo <= b /\ b < hi) /\ ~(r.offset <= b /\ b < at)
    <3>1. ~Covers(r, b)
      BY <2>3, <1>2 DEF Covers
    <3>2. CoveredBy(Q, b)
      BY <3>1 DEF Shape, CoveredBy
    <3>. QED  BY <2>3, <3>2, <1>5, <1>8 DEF CoveredBy
  <2>. QED  BY <2>1, <2>2, <2>3
<1>14. SlotsOf(C \cup {m}) = SlotsOf(C)
  BY DEF SlotsOf
<1>15. {q \in C \cup {m} : q.live} = ({q \in R : q.live} \ {r}) \cup {m}
  BY <1>5, <1>8
<1>16. \A q \in {p \in R : p.live} \ {r} : Apart(q, m)
  BY <1>5, <1>8, <1>11
<1>17. RelocatedRegions(R, r, m) = C \cup {m}
  BY DEF RelocatedRegions
<1>18. RelocatedSlots(R, F, r, m) = SlotsOf(C \cup {m})
  BY <1>4, <1>5, <1>8, <1>14 DEF RelocatedSlots
<1>. HIDE DEF C
<1>. QED  BY <1>12, <1>13, <1>15, <1>16, <1>17, <1>18 DEF Shape

(* allocate: split a free slot into a front pad, the region m and a tail. *)

SplitRegions(R, s, front, m) ==
    {r \in R : r.offset # s.offset} \cup FreePiece(s.offset, front)
        \cup {m} \cup FreePiece(m.offset + m.size, s.size - front - m.size)

SplitSlots(F, s, front, m) ==
    (F \ {s}) \cup SlotPiece(s.offset, front)
        \cup SlotPiece(m.offset + m.size, s.size - front - m.size)

\* Splitting a slot that has the room restores the shape with m in it.
LEMMA AllocateShape ==
    ASSUME NEW R, NEW F, Shape(R, F), NEW s \in F, NEW front \in Nat,
           NEW m, RegionSound(m), m.live, m.offset = s.offset + front, front + m.size <= s.size
    PROVE  /\ Shape(SplitRegions(R, s, front, m), SplitSlots(F, s, front, m))
           /\ {q \in SplitRegions(R, s, front, m) : q.live} = {q \in R : q.live} \cup {m}
           /\ \A q \in R : q.live => Apart(q, m)
<1>0. m.size \in 1 .. Capacity
  BY DEF RegionSound, RegionType
<1>. USE <1>0
<1>. DEFINE tail == s.size - front - m.size
            at == m.offset + m.size
            Q == {r \in R : r.offset # s.offset}
            A == FreePiece(s.offset, front)
            B == FreePiece(at, tail)
            N == Q \cup A \cup {m} \cup B
<1>1. \A q \in R : q.offset \in Bytes /\ q.size \in 1 .. Capacity
                   /\ EndOf(q) = q.offset + q.size /\ EndOf(q) <= Capacity
  BY DEF Shape, Layout, RegionSound, RegionType, EndOf
<1>2. PICK f \in R : ~f.live /\ s = Slot(f.offset, f.size)
  BY DEF Shape, SlotsOf
<1>3. s.offset = f.offset /\ s.size = f.size
  BY <1>2 DEF Slot
<1>4. s.offset \in Bytes /\ s.size \in 1 .. Capacity /\ EndOf(f) = s.offset + s.size
      /\ s.offset + s.size <= Capacity
  BY <1>1, <1>3
<1>5. Q = R \ {f}
  BY <1>1, <1>3, CapacityAssumption DEF Shape, Layout, Apart, Bytes
<1>6. EndOf(m) = at /\ at + tail = EndOf(f) /\ m.offset = s.offset + front
  BY <1>4, CapacityAssumption DEF EndOf, Bytes
<1>7. \A p \in A : /\ front > 0 /\ p = FreeRegion(s.offset, front) /\ RegionSound(p) /\ ~p.live
                   /\ p.offset = s.offset /\ EndOf(p) = m.offset
  <2>. SUFFICES ASSUME front > 0
               PROVE LET p == FreeRegion(s.offset, front)
                     IN  /\ RegionSound(p) /\ ~p.live
                         /\ p.offset = s.offset /\ EndOf(p) = m.offset
    BY DEF FreePiece
  <2>1. front \in 1 .. Capacity /\ s.offset + front <= Capacity
    BY <1>4, CapacityAssumption DEF Bytes
  <2>. QED  BY <2>1, <1>4, FreeRegionWellFormed, FreeRegionFields DEF EndOf
<1>8. \A p \in B : /\ tail > 0 /\ p = FreeRegion(at, tail) /\ RegionSound(p) /\ ~p.live
                   /\ p.offset = at /\ EndOf(p) = EndOf(f)
  <2>. SUFFICES ASSUME tail > 0
               PROVE LET p == FreeRegion(at, tail)
                     IN  /\ RegionSound(p) /\ ~p.live
                         /\ p.offset = at /\ EndOf(p) = EndOf(f)
    BY DEF FreePiece
  <2>1. tail \in 1 .. Capacity /\ at + tail <= Capacity /\ at \in Bytes
    BY <1>4, <1>6, CapacityAssumption DEF Bytes
  <2>. QED  BY <2>1, <1>6, FreeRegionWellFormed, FreeRegionFields DEF EndOf
<1>9. \A q \in Q : EndOf(q) <= f.offset \/ EndOf(f) <= q.offset
  BY <1>5 DEF Shape, Layout, Apart
<1>10. \A q \in Q : ~q.live => EndOf(q) # f.offset /\ EndOf(f) # q.offset
  BY <1>2, <1>5 DEF Shape, Layout
<1>11. at \in Int /\ m.offset \in Int /\ s.offset <= m.offset /\ m.offset < at /\ at <= EndOf(f)
  BY <1>4, CapacityAssumption DEF Bytes
<1>12. \A q \in Q, p \in A \cup {m} \cup B : Apart(q, p)
  BY <1>1, <1>3, <1>4, <1>6, <1>7, <1>8, <1>9, <1>11 DEF Apart, Bytes
<1>13. \A p, q \in A \cup {m} \cup B : p = q \/ Apart(p, q)
  BY <1>6, <1>7, <1>8, <1>11 DEF Apart
<1>14. Layout(N)
  <2>1. \A r \in N : RegionSound(r)
    BY <1>5, <1>7, <1>8 DEF Shape, Layout
  <2>2. \A p, q \in N : p = q \/ Apart(p, q)
    BY <1>5, <1>12, <1>13 DEF Shape, Layout, Apart
  <2>3. \A p \in A, q \in A : EndOf(p) # q.offset
    BY <1>7, <1>4 DEF Bytes
  <2>4. \A p \in A, q \in B : EndOf(p) # q.offset /\ EndOf(q) # p.offset
    BY <1>7, <1>8, <1>4, <1>11 DEF Bytes
  <2>5. \A p \in B, q \in B : EndOf(p) # q.offset
    BY <1>6, <1>8, <1>4, <1>11 DEF Bytes
  <2>6. \A p \in Q, q \in A : ~p.live => EndOf(p) # q.offset /\ EndOf(q) # p.offset
    BY <1>1, <1>3, <1>4, <1>7, <1>9, <1>10, <1>11 DEF Bytes
  <2>7. \A p \in Q, q \in B : ~p.live => EndOf(p) # q.offset /\ EndOf(q) # p.offset
    BY <1>1, <1>3, <1>4, <1>8, <1>9, <1>10, <1>11 DEF Bytes
  <2>8. \A p, q \in N : ~p.live /\ ~q.live => EndOf(p) # q.offset
    BY <1>5, <2>3, <2>4, <2>5, <2>6, <2>7 DEF Shape, Layout
  <2>. QED  BY <2>1, <2>2, <2>8 DEF Layout
<1>15. \A b \in Bytes : CoveredBy(N, b)
  <2>. SUFFICES ASSUME NEW b \in Bytes PROVE CoveredBy(N, b)
    OBVIOUS
  <2>1. CASE s.offset <= b /\ b < m.offset
    <3>1. front > 0
      BY <2>1, <1>4 DEF Bytes
    <3>2. FreeRegion(s.offset, front) \in A
      BY <3>1 DEF FreePiece
    <3>. QED  BY <2>1, <3>2, <1>7 DEF CoveredBy, Covers
  <2>2. CASE m.offset <= b /\ b < at
    BY <2>2, <1>6 DEF CoveredBy, Covers
  <2>3. CASE at <= b /\ b < EndOf(f)
    <3>1. tail > 0
      BY <2>3, <1>4, <1>6, <1>11 DEF Bytes
    <3>2. FreeRegion(at, tail) \in B
      BY <3>1 DEF FreePiece
    <3>. QED  BY <2>3, <3>2, <1>8 DEF CoveredBy, Covers
  <2>4. CASE ~(s.offset <= b /\ b < EndOf(f))
    <3>1. ~Covers(f, b)
      BY <2>4, <1>3 DEF Covers
    <3>. QED  BY <3>1, <1>5 DEF Shape, CoveredBy
  <2>. QED  BY <2>1, <2>2, <2>3, <2>4, <1>4, <1>11 DEF Bytes
<1>16. SlotsOf(N) = (F \ {s}) \cup SlotPiece(s.offset, front) \cup SlotPiece(at, tail)
  <2>1. \A p, q \in R : p.offset = q.offset => p = q
    BY <1>1, CapacityAssumption DEF Shape, Layout, Apart, Bytes
  <2>2. SlotsOf(Q) = F \ {s}
    BY <1>2, <1>5, <2>1 DEF Shape, SlotsOf, Slot
  <2>3. SlotsOf(A) = SlotPiece(s.offset, front)
    BY FreeRegionFields DEF SlotsOf, FreePiece, SlotPiece
  <2>4. SlotsOf(B) = SlotPiece(at, tail)
    BY FreeRegionFields DEF SlotsOf, FreePiece, SlotPiece
  <2>5. SlotsOf(N) = SlotsOf(Q) \cup SlotsOf(A) \cup SlotsOf(B)
    BY DEF SlotsOf
  <2>. QED  BY <2>2, <2>3, <2>4, <2>5
<1>17. {q \in N : q.live} = {q \in R : q.live} \cup {m}
  BY <1>2, <1>5, <1>7, <1>8
<1>18. \A q \in R : q.live => Apart(q, m)
  BY <1>2, <1>5, <1>12
<1>. QED  BY <1>14, <1>15, <1>16, <1>17, <1>18 DEF Shape, SplitRegions, SplitSlots

(* pin and unpin: the region changes in place. *)

\* A live region may be replaced by one on the same bytes.
LEMMA InPlaceShape ==
    ASSUME NEW R, NEW F, Shape(R, F), NEW r \in R, r.live,
           NEW m, RegionSound(m), m.live, m.offset = r.offset, m.size = r.size
    PROVE  LET N == (R \ {r}) \cup {m}
           IN  /\ Shape(N, F)
               /\ {q \in N : q.live} = ({q \in R : q.live} \ {r}) \cup {m}
<1>. DEFINE N == (R \ {r}) \cup {m}
<1>1. EndOf(m) = EndOf(r)
  BY DEF EndOf
<1>2. Layout(N)
  BY <1>1 DEF Shape, Layout, Apart
<1>3. \A b \in Bytes : CoveredBy(N, b)
  BY <1>1 DEF Shape, CoveredBy, Covers
<1>4. SlotsOf(N) = F
  BY DEF Shape, SlotsOf
<1>. QED  BY <1>2, <1>3, <1>4 DEF Shape

-----------------------------------------------------------------------------
(* Counting: the bytes under a set of disjoint regions. *)

OccupiedBy(L) == {b \in Bytes : CoveredBy(L, b)}

\* A layout is finite: its regions start at distinct bytes.
LEMMA LayoutFinite ==
    ASSUME NEW R, Layout(R)
    PROVE  IsFiniteSet(R)
<1>. DEFINE start == [r \in R |-> r.offset]
<1>1. \A r \in R : r.offset \in Bytes /\ r.size \in 1 .. Capacity
                   /\ EndOf(r) = r.offset + r.size
  BY DEF Layout, RegionSound, RegionType, EndOf
<1>2. \A p, q \in R : p.offset = q.offset => p = q
  BY <1>1, CapacityAssumption DEF Layout, Apart, Bytes
<1>3. start \in Injection(R, Bytes)
  BY <1>1, <1>2 DEF Injection, IsInjective
<1>4. IsFiniteSet(Bytes)
  BY FS_Interval, CapacityAssumption DEF Bytes
<1>. QED  BY <1>3, <1>4, FS_Injection

\* The size index has one slot for each free region.
LEMMA SlotCount ==
    ASSUME NEW R, Layout(R)
    PROVE  /\ IsFiniteSet(SlotsOf(R))
           /\ Cardinality(SlotsOf(R)) = Cardinality({q \in R : ~q.live})
<1>. DEFINE E == {q \in R : ~q.live}
            slot == [r \in E |-> Slot(r.offset, r.size)]
<1>1. IsFiniteSet(E)
  BY LayoutFinite, FS_Subset
<1>2. \A r \in R : r.offset \in Bytes /\ r.size \in 1 .. Capacity
                   /\ EndOf(r) = r.offset + r.size
  BY DEF Layout, RegionSound, RegionType, EndOf
<1>3. \A p, q \in R : p.offset = q.offset => p = q
  BY <1>2, CapacityAssumption DEF Layout, Apart, Bytes
<1>4. slot \in [E -> SlotsOf(R)]
  BY DEF SlotsOf
<1>5. \A p, q \in E : slot[p] = slot[q] => p = q
  BY <1>3 DEF Slot
<1>6. \A t \in SlotsOf(R) : \E r \in E : slot[r] = t
  BY DEF SlotsOf
<1>7. slot \in Bijection(E, SlotsOf(R))
  BY <1>4, <1>5, <1>6 DEF Bijection, Injection, Surjection, IsInjective
<1>. QED  BY <1>1, <1>7, FS_Bijection DEF ExistsBijection

\* The arena has finitely many bytes.
LEMMA OccupiedFinite ==
    ASSUME NEW L
    PROVE  IsFiniteSet(OccupiedBy(L))
<1>1. IsFiniteSet(Bytes)
  BY FS_Interval, CapacityAssumption DEF Bytes
<1>2. OccupiedBy(L) \in SUBSET Bytes
  BY DEF OccupiedBy
<1>. QED  BY <1>1, <1>2, FS_Subset

\* A region apart from all of L adds its size.
LEMMA OccupiedAdd ==
    ASSUME NEW L, \A q \in L : RegionSound(q), NEW m, RegionSound(m),
           \A q \in L : Apart(q, m)
    PROVE  Cardinality(OccupiedBy(L \cup {m})) = Cardinality(OccupiedBy(L)) + m.size
<1>. DEFINE S == m.offset .. (EndOf(m) - 1)
<1>1. /\ m.offset \in Bytes /\ m.size \in 1 .. Capacity
      /\ EndOf(m) = m.offset + m.size /\ EndOf(m) <= Capacity
  BY DEF RegionSound, RegionType, EndOf
<1>2. \A q \in L : q.offset \in Int /\ EndOf(q) \in Int
  BY DEF RegionSound, RegionType, EndOf, Bytes
<1>3. IsFiniteSet(S) /\ Cardinality(S) = m.size
  <2>1. m.offset \in Int /\ EndOf(m) - 1 \in Int /\ ~(m.offset > EndOf(m) - 1)
        /\ (EndOf(m) - 1) - m.offset + 1 = m.size
    BY <1>1, CapacityAssumption DEF Bytes
  <2>. QED  BY <2>1, FS_Interval
<1>4. OccupiedBy(L \cup {m}) = OccupiedBy(L) \cup S
  BY <1>1, CapacityAssumption DEF OccupiedBy, CoveredBy, Covers, Bytes
<1>5. OccupiedBy(L) \cap S = {}
  BY <1>1, <1>2, CapacityAssumption DEF OccupiedBy, CoveredBy, Covers, Apart, Bytes
<1>6. IsFiniteSet(OccupiedBy(L)) /\ Cardinality(OccupiedBy(L)) \in Nat
  BY OccupiedFinite, FS_CardinalityType
<1>7. Cardinality(OccupiedBy(L) \cup S)
        = Cardinality(OccupiedBy(L)) + Cardinality(S) - Cardinality(OccupiedBy(L) \cap S)
  BY <1>3, <1>6, FS_Union
<1>8. Cardinality(OccupiedBy(L) \cap S) = 0
  BY <1>5, FS_EmptySet
<1>9. Cardinality(OccupiedBy(L \cup {m})) = Cardinality(OccupiedBy(L) \cup S)
  BY <1>4, Zenon
<1>. QED  BY <1>1, <1>3, <1>6, <1>7, <1>8, <1>9

\* Removing one of several disjoint regions takes its size away.
LEMMA OccupiedRemove ==
    ASSUME NEW L, \A q \in L : RegionSound(q), NEW r \in L,
           \A q \in L : q = r \/ Apart(q, r)
    PROVE  Cardinality(OccupiedBy(L \ {r})) = Cardinality(OccupiedBy(L)) - r.size
<1>1. Cardinality(OccupiedBy((L \ {r}) \cup {r})) = Cardinality(OccupiedBy(L \ {r})) + r.size
  BY OccupiedAdd
<1>2. (L \ {r}) \cup {r} = L
  OBVIOUS
<1>3. Cardinality(OccupiedBy(L \ {r})) \in Nat /\ r.size \in Nat
  BY OccupiedFinite, FS_CardinalityType DEF RegionSound, RegionType
<1>4. Cardinality(OccupiedBy(L)) = Cardinality(OccupiedBy(L \ {r})) + r.size
  BY <1>1, <1>2, Zenon
<1>. QED  BY <1>3, <1>4

-----------------------------------------------------------------------------
(* Rounding: align_up() reaches a multiple of the alignment and never      *)
(* passes a slot that fits, also where the 64-bit sum wraps.               *)

\* Quotient and remainder.
LEMMA DivMod ==
    ASSUME NEW x \in Int, NEW a \in Nat \ {0}
    PROVE  x \div a \in Int /\ x % a \in 0 .. (a - 1) /\ x = a * (x \div a) + (x % a)
  BY SMT

\* The only multiple of a in [0, a) is 0.
LEMMA SmallMultiple ==
    ASSUME NEW a \in Nat \ {0}, NEW t \in Int, 0 <= a * t, a * t < a
    PROVE  a * t = 0
<1>1. CASE t >= 1
  BY <1>1
<1>2. CASE t = 0
  BY <1>2
<1>3. CASE t < 0
  BY <1>3
<1>. QED  BY <1>1, <1>2, <1>3

\* A multiple of a leaves no remainder.
LEMMA ModOfMultiple ==
    ASSUME NEW a \in Nat \ {0}, NEW q \in Nat
    PROVE  (a * q) % a = 0
<1>. DEFINE d == (a * q) \div a
            m == (a * q) % a
<1>1. d \in Int /\ m \in 0 .. (a - 1) /\ a * q = a * d + m
  <2>1. a * q \in Int
    OBVIOUS
  <2>. QED  BY <2>1, DivMod
<1>2. a * (q - d) = m
  BY <1>1
<1>. HIDE DEF m, d
<1>3. q - d \in Int
  BY <1>1
<1>4. 0 <= a * (q - d) /\ a * (q - d) < a
  BY <1>1, <1>2
<1>5. a * (q - d) = 0
  BY <1>3, <1>4, SmallMultiple
<1>6. m = 0
  BY <1>2, <1>5
<1>. QED  BY <1>6 DEF m

\* Dropping the remainder rounds down to a multiple, by less than a.
LEMMA RoundDown ==
    ASSUME NEW x \in Nat, NEW a \in Nat \ {0}
    PROVE  LET y == x - (x % a)
           IN  y \in Nat /\ y % a = 0 /\ y <= x /\ x < y + a
<1>1. x \div a \in Nat /\ x % a \in 0 .. (a - 1) /\ x = a * (x \div a) + (x % a)
  <2>1. x \div a \in Nat
    OBVIOUS
  <2>. QED  BY <2>1, DivMod
<1>2. x - (x % a) = a * (x \div a)
  BY <1>1
<1>3. (a * (x \div a)) % a = 0
  BY <1>1, ModOfMultiple
<1>4. (x - (x % a)) % a = 0
  BY <1>2, <1>3, Zenon
<1>. QED  BY <1>1, <1>4

\* Reduction modulo the word size where it does nothing, and where it wraps.
LEMMA WordMod ==
    ASSUME NEW x \in Nat, x < 2 * WordSize
    PROVE  /\ x < WordSize => x % WordSize = x
           /\ WordSize <= x => x % WordSize = x - WordSize
<1>1. WordSize \in Nat \ {0}
  BY WordAssumption, CapacityAssumption
<1>. DEFINE d == x \div WordSize
            m == x % WordSize
<1>2. d \in Nat /\ m \in 0 .. (WordSize - 1) /\ x = WordSize * d + m
  <2>1. d \in Nat
    BY <1>1
  <2>. QED  BY <2>1, <1>1, DivMod
<1>. SUFFICES /\ x < WordSize => m = x
              /\ WordSize <= x => m = x - WordSize
  OBVIOUS
<1>. HIDE DEF d, m
<1>3. CASE d = 0
  BY <1>1, <1>2, <1>3
<1>4. CASE d = 1
  BY <1>1, <1>2, <1>4
<1>5. CASE d >= 2
  <2>1. WordSize * d >= 2 * WordSize
    BY <1>1, <1>2, <1>5
  <2>. QED  BY <2>1, <1>1, <1>2
<1>. QED  BY <1>2, <1>3, <1>4, <1>5

\* align_up() of natural numbers is a number.
LEMMA AlignUpInt ==
    ASSUME NEW v \in Nat, NEW align \in Nat
    PROVE  align_up(v, align) \in Int
  BY WordAssumption, CapacityAssumption DEF align_up

\* The padding allocate() puts in front of a region lands on the alignment.
LEMMA FrontAligned ==
    ASSUME NEW s, s.offset \in Bytes, s.size \in 1 .. Capacity, s.offset + s.size <= Capacity,
           NEW align \in 1 .. WordSize - 1, NEW need \in 1 .. Capacity, Fits(s, need, align)
    PROVE  /\ Front(s, align) \in Nat
           /\ Front(s, align) + need <= s.size
           /\ (s.offset + Front(s, align)) % align = 0
<1>. DEFINE o == s.offset
            x == o + (align - 1)
            r == x % WordSize
            y == r - (r % align)
<1>1. /\ o \in Nat /\ align \in Nat \ {0} /\ WordSize \in Nat \ {0} /\ o < WordSize
      /\ x \in Nat /\ x < 2 * WordSize
  BY WordAssumption, CapacityAssumption DEF Bytes
<1>2. /\ x < WordSize => r = x
      /\ WordSize <= x => r = x - WordSize
  BY <1>1, WordMod
<1>3. Front(s, align) <= s.size /\ need <= s.size - Front(s, align)
  BY DEF Fits
<1>4. align_up(o, align) = IF r < o THEN 0 ELSE y
  BY <1>1 DEF align_up
<1>. HIDE DEF r
<1>5. ~(r < o)
  <2>. SUFFICES ASSUME r < o PROVE FALSE
    OBVIOUS
  <2>1. Front(s, align) = (0 - o) % WordSize
    BY <1>4 DEF Front
  <2>2. o > 0 /\ WordSize - o \in Nat /\ WordSize - o < WordSize
    BY <1>1, <1>2
  <2>3. (0 - o) % WordSize = WordSize - o
    <3>. DEFINE d == (0 - o) \div WordSize
                m == (0 - o) % WordSize
    <3>1. d \in Int /\ m \in 0 .. (WordSize - 1) /\ 0 - o = WordSize * d + m
      <4>1. 0 - o \in Int
        BY <1>1
      <4>. QED  BY <4>1, <1>1, DivMod
    <3>. SUFFICES m = WordSize - o
      OBVIOUS
    <3>. HIDE DEF d, m
    <3>2. CASE d = -1
      BY <3>1, <3>2, <1>1
    <3>3. CASE d >= 0
      <4>1. WordSize * d >= 0
        BY <3>1, <3>3, <1>1
      <4>. QED  BY <4>1, <3>1, <2>2, <1>1
    <3>4. CASE d <= -2
      <4>1. WordSize * d <= -2 * WordSize
        BY <3>1, <3>4, <1>1
      <4>. QED  BY <4>1, <3>1, <2>2, <1>1
    <3>. QED  BY <3>1, <3>2, <3>3, <3>4
  <2>. QED  BY <2>1, <2>2, <2>3, <1>1, <1>3, WordAssumption, CapacityAssumption DEF Bytes
<1>6. r = x
  BY <1>1, <1>2, <1>5
<1>7. y \in Nat /\ y % align = 0 /\ y <= r /\ r < y + align
  BY <1>1, <1>6, RoundDown
<1>. HIDE DEF y
<1>8. o <= y /\ y - o \in Nat /\ y - o < WordSize
  BY <1>1, <1>2, <1>6, <1>7
<1>9. Front(s, align) = (y - o) % WordSize
  BY <1>4, <1>5 DEF Front
<1>10. Front(s, align) = y - o
  BY <1>1, <1>8, <1>9, WordMod
<1>11. o + Front(s, align) = y
  BY <1>1, <1>7, <1>10
<1>12. (o + Front(s, align)) % align = 0
  BY <1>7, <1>11, Zenon
<1>. QED  BY <1>1, <1>3, <1>8, <1>10, <1>12

\* The values of an unsigned 64-bit parameter.
WordValues == 0 .. WordSize - 1

\* Two multiples of a less than a apart are in order.
LEMMA MultiplesOrdered ==
    ASSUME NEW a \in Nat \ {0}, NEW p \in Nat, NEW q \in Nat,
           p % a = 0, q % a = 0, p < q + a
    PROVE  p <= q
<1>. DEFINE i == p \div a
            j == q \div a
<1>1. i \in Int /\ j \in Int /\ p = a * i /\ q = a * j
  <2>1. p = a * i + (p % a) /\ q = a * j + (q % a) /\ i \in Int /\ j \in Int
    BY DivMod
  <2>. QED  BY <2>1
<1>. HIDE DEF i, j
<1>2. CASE i - j >= 1
  <2>1. a * (i - j) >= a
    BY <1>1, <1>2
  <2>2. a * (i - j) = p - q
    BY <1>1
  <2>. QED  BY <2>1, <2>2
<1>3. CASE i <= j
  <2>1. a * (j - i) >= 0
    BY <1>1, <1>3
  <2>2. a * (j - i) = q - p
    BY <1>1
  <2>. QED  BY <2>1, <2>2
<1>. QED  BY <1>1, <1>2, <1>3

\* The rounded size of a well-formed request is a positive multiple of the
\* alignment.
LEMMA RoundedSize ==
    ASSUME NEW bytes \in WordValues, NEW align \in WordValues, ValidRequest(bytes, align)
    PROVE  LET need == align_up(bytes, align)
           IN  /\ align \in Nat \ {0} /\ need \in 1 .. Capacity
               /\ need % align = 0 /\ align <= need
<1>. DEFINE r == (bytes + (align - 1)) % WordSize
            need == align_up(bytes, align)
<1>1. align \in Nat \ {0} /\ bytes \in Nat /\ WordSize \in Nat \ {0}
  BY WordAssumption, CapacityAssumption DEF ValidRequest, is_pow2, WordValues
<1>2. r \in Nat
  BY <1>1
<1>3. need # 0 /\ need <= Capacity /\ need >= bytes
  BY DEF ValidRequest
<1>4. need = r - (r % align)
  BY <1>1, <1>3 DEF align_up
<1>. HIDE DEF r
<1>5. need \in Nat /\ need % align = 0
  <2>1. LET y == r - (r % align) IN y \in Nat /\ y % align = 0
    BY <1>1, <1>2, RoundDown
  <2>. QED  BY <1>4, <2>1
<1>. HIDE DEF need
<1>6. align <= need
  <2>. SUFFICES ASSUME need < align PROVE FALSE
    BY <1>1, <1>5
  <2>1. 0 % align = 0 /\ need < 0 + align /\ 0 \in Nat
    BY <1>1, <1>5
  <2>2. need <= 0
    BY <1>1, <1>5, <2>1, MultiplesOrdered
  <2>. QED  BY <1>3, <1>5, <2>2
<1>7. need \in 1 .. Capacity
  BY <1>3, <1>5, CapacityAssumption
<1>. QED  BY <1>1, <1>5, <1>6, <1>7 DEF need

-----------------------------------------------------------------------------
(***************************************************************************)
(* The inductive invariant: what every method finds when it is called and  *)
(* restores before it returns. The parts need each other. Disjointness     *)
(* makes the left and right neighbours of canonicalize_free() unique; the  *)
(* exact size index is what lets allocate() trust a slot; the exact id     *)
(* index is what makes the region found through it the caller's; and the   *)
(* counters are exact only because disjoint regions add up.                *)
(***************************************************************************)
IInv ==
    /\ TypeOK
    /\ Tiling
    /\ Coalesced
    /\ FreeIndexExact
    /\ AllocIndexExact
    /\ ExactAccounting
    /\ SummaryFresh
    /\ Aligned

\* Occupied, in the notation of the counting lemmas.
LEMMA OccupiedIs ==
    Occupied = OccupiedBy(Live) /\ Occupied' = OccupiedBy(Live')
  BY DEF Occupied, OccupiedBy, CoveredBy

\* What the invariant says of the live regions.
LEMMA LiveFacts ==
    ASSUME IInv
    PROVE  /\ Shape(regions, free_slots)
           /\ \A q \in Live : q \in regions /\ q.live /\ RegionSound(q)
           /\ \A p, q \in Live : p = q \/ Apart(p, q)
           /\ \A p, q \in Live : p.offset = q.offset => p = q
           /\ \A p, q \in Live : p.alloc_id = q.alloc_id => p = q
           /\ IsFiniteSet(Live) /\ Cardinality(Live) \in Nat
           /\ Cardinality(Occupied) \in Nat
<1>1. Shape(regions, free_slots)
  BY ShapeOfState DEF IInv
<1>2. \A q \in Live : q \in regions /\ q.live /\ RegionSound(q)
  BY <1>1 DEF Live, Shape, Layout
<1>3. \A p, q \in Live : p = q \/ Apart(p, q)
  BY <1>1 DEF Live, Shape, Layout
<1>4. \A p, q \in Live : p.offset = q.offset => p = q
  <2>1. \A q \in Live : q.offset \in Bytes /\ q.size \in 1 .. Capacity
                        /\ EndOf(q) = q.offset + q.size
    BY <1>2 DEF RegionSound, RegionType, EndOf
  <2>. QED  BY <1>3, <2>1, CapacityAssumption DEF Apart, Bytes
<1>5. \A p, q \in Live : p.alloc_id = q.alloc_id => p = q
  BY <1>4 DEF IInv, AllocIndexExact
<1>6. IsFiniteSet(Live)
  <2>1. IsFiniteSet(regions)
    BY <1>1, LayoutFinite DEF Shape
  <2>2. Live \in SUBSET regions
    BY DEF Live
  <2>. QED  BY <2>1, <2>2, FS_Subset
<1>7. Cardinality(Live) \in Nat
  BY <1>6, FS_CardinalityType
<1>8. Cardinality(Occupied) \in Nat
  BY OccupiedFinite, OccupiedIs, FS_CardinalityType
<1>. QED  BY <1>1, <1>2, <1>3, <1>4, <1>5, <1>6, <1>7, <1>8

\* A handle names the region that carries its id.
LEMMA NamedFacts ==
    ASSUME IInv, NEW r \in regions, NEW id \in AllocIds, NEW gen, Named(r, id, gen)
    PROVE  /\ r \in Live /\ r.alloc_id = id /\ r.generation = gen /\ RegionSound(r)
           /\ alloc_offset[id] = r.offset
           /\ r.offset \in Bytes /\ r.size \in 1 .. Capacity /\ EndOf(r) = r.offset + r.size
<1>1. r \in Live /\ r.offset = alloc_offset[id] /\ r.generation = gen
  BY DEF Named, Live
<1>2. RegionSound(r)
  BY <1>1, LiveFacts
<1>3. r.offset \in Bytes /\ r.size \in 1 .. Capacity /\ EndOf(r) = r.offset + r.size
  BY <1>2 DEF RegionSound, RegionType, EndOf
<1>4. alloc_offset[id] # Absent
  BY <1>1, <1>3, CapacityAssumption DEF Absent, Bytes
<1>5. PICK q \in Live : q.alloc_id = id /\ q.offset = alloc_offset[id]
  BY <1>4 DEF IInv, AllocIndexExact
<1>6. q = r
  BY <1>1, <1>5, LiveFacts
<1>. QED  BY <1>1, <1>2, <1>3, <1>5, <1>6

\* The type invariant of the next state, given its shape and its scalars.
LEMMA TypeOfShape ==
    ASSUME Shape(regions', free_slots'),
           alloc_offset' \in [AllocIds -> Bytes \cup {Absent}],
           live_bytes' \in Int, live_count' \in Int, summary_dirty' \in BOOLEAN,
           free_count' \in Nat, largest_free' \in 0 .. Capacity
    PROVE  TypeOK'
<1>1. \A r \in regions' : RegionSound(r)
  BY DEF Shape, Layout
<1>2. free_slots' \subseteq [size : 1 .. Capacity, offset : Bytes]
  BY SlotTypes DEF Shape
<1>. QED  BY <1>1, <1>2 DEF TypeOK, RegionSound

(***************************************************************************)
(* A live region r replaced by a version m of itself, in place (pin,       *)
(* unpin) or elsewhere (relocate).                                         *)
(***************************************************************************)
LEMMA Replaced ==
    ASSUME IInv, NEW r \in Live, NEW m, RegionSound(m), m.live, m.alloc_id = r.alloc_id,
           is_pow2(m.alignment), m.offset % m.alignment = 0,
           \A q \in Live \ {r} : Apart(q, m),
           Live' = (Live \ {r}) \cup {m},
           alloc_offset' = [alloc_offset EXCEPT ![r.alloc_id] = m.offset]
    PROVE  /\ AllocIndexExact'
           /\ Cardinality(Live') = Cardinality(Live)
           /\ Cardinality(Occupied') = Cardinality(Occupied) - r.size + m.size
           /\ Aligned'
           /\ alloc_offset' \in [AllocIds -> Bytes \cup {Absent}]
<1>. USE LiveFacts
<1>1. r.alloc_id \in AllocIds /\ m.offset \in Bytes /\ m.offset # Absent
      /\ m.size \in 1 .. Capacity /\ r.size \in 1 .. Capacity /\ EndOf(m) = m.offset + m.size
  BY CapacityAssumption DEF RegionSound, RegionType, Bytes, Absent, EndOf
<1>2. alloc_offset \in [AllocIds -> Bytes \cup {Absent}]
  BY DEF IInv, TypeOK
<1>3. \A q \in Live \ {r} : q.alloc_id # r.alloc_id /\ q.alloc_id \in AllocIds
  BY DEF RegionSound
<1>4. AllocIndexExact'
  <2>1. \A q \in Live' : alloc_offset'[q.alloc_id] = q.offset
    BY <1>1, <1>2, <1>3 DEF IInv, AllocIndexExact
  <2>2. \A id \in AllocIds : alloc_offset'[id] # Absent =>
            \E q \in Live' : q.alloc_id = id /\ q.offset = alloc_offset'[id]
    BY <1>1, <1>2 DEF IInv, AllocIndexExact
  <2>. QED  BY <2>1, <2>2 DEF AllocIndexExact
<1>5. m \notin Live \ {r}
  BY <1>1, CapacityAssumption DEF Apart, Bytes
<1>6. Cardinality(Live') = Cardinality(Live)
  <2>1. IsFiniteSet(Live \ {r}) /\ Cardinality(Live \ {r}) = Cardinality(Live) - 1
    BY FS_RemoveElement
  <2>2. Cardinality((Live \ {r}) \cup {m}) = Cardinality(Live \ {r}) + 1
    BY <1>5, <2>1, FS_AddElement
  <2>3. Cardinality(Live') = Cardinality((Live \ {r}) \cup {m})
    BY Zenon
  <2>. QED  BY <2>1, <2>2, <2>3
<1>7. Cardinality(Occupied') = Cardinality(Occupied) - r.size + m.size
  <2>1. Cardinality(OccupiedBy(Live \ {r})) = Cardinality(OccupiedBy(Live)) - r.size
    BY OccupiedRemove
  <2>2. Cardinality(OccupiedBy((Live \ {r}) \cup {m}))
          = Cardinality(OccupiedBy(Live \ {r})) + m.size
    BY OccupiedAdd
  <2>3. Occupied = OccupiedBy(Live) /\ Occupied' = OccupiedBy((Live \ {r}) \cup {m})
    BY OccupiedIs, Zenon
  <2>4. /\ Cardinality(Occupied) = Cardinality(OccupiedBy(Live))
        /\ Cardinality(Occupied') = Cardinality(OccupiedBy((Live \ {r}) \cup {m}))
    BY <2>3, Zenon
  <2>. QED  BY <1>1, <2>1, <2>2, <2>4
<1>8. Aligned'
  <2>1. \A q \in Live' : is_pow2(q.alignment) /\ q.offset % q.alignment = 0
    BY DEF IInv, Aligned
  <2>. QED  BY <2>1 DEF Aligned, is_pow2
<1>. QED  BY <1>1, <1>2, <1>4, <1>6, <1>7, <1>8

-----------------------------------------------------------------------------
(* Each method preserves the invariant. The lemmas also say what it does   *)
(* to the live regions, which is all that the governor above sees.         *)

\* The constructor establishes it.
LEMMA InitStep ==
    ASSUME ArenaInit
    PROVE  IInv
<1>. DEFINE f == FreeRegion(0, Capacity)
<1>1. RegionSound(f)
  BY FreeRegionWellFormed, CapacityAssumption DEF Bytes
<1>2. regions = {f} /\ free_slots = {Slot(0, Capacity)}
      /\ f.offset = 0 /\ f.size = Capacity /\ ~f.live /\ EndOf(f) = Capacity
  BY FreeRegionFields, CapacityAssumption DEF ArenaInit, EndOf
<1>. HIDE DEF f
<1>3. TypeOK
  <2>1. free_slots \subseteq [size : 1 .. Capacity, offset : Bytes]
    BY <1>2, CapacityAssumption DEF Slot, Bytes
  <2>2. /\ alloc_offset \in [AllocIds -> Bytes \cup {Absent}]
        /\ live_bytes \in Int /\ live_count \in Int /\ summary_dirty \in BOOLEAN
        /\ free_count \in Nat /\ largest_free \in 0 .. Capacity
    BY CapacityAssumption DEF ArenaInit
  <2>. QED  BY <1>1, <1>2, <2>1, <2>2 DEF TypeOK, RegionSound
<1>4. Tiling
  BY <1>2, CapacityAssumption DEF Tiling, NoOverlap, Covered, Covers, Bytes
<1>5. Coalesced
  BY <1>2, CapacityAssumption DEF Coalesced, FreeRegions
<1>6. FreeIndexExact
  BY <1>2 DEF FreeIndexExact, FreeRegions
<1>7. Live = {}
  BY <1>2 DEF Live
<1>8. AllocIndexExact
  BY <1>7 DEF AllocIndexExact, ArenaInit
<1>9. ExactAccounting
  <2>1. Occupied = {}
    BY <1>7 DEF Occupied
  <2>2. Cardinality(Occupied) = 0 /\ Cardinality(Live) = 0
    BY <1>7, <2>1, FS_EmptySet
  <2>. QED  BY <2>2 DEF ExactAccounting, ArenaInit
<1>10. SummaryFresh
  BY DEF SummaryFresh, ArenaInit
<1>11. Aligned
  BY <1>7 DEF Aligned
<1>. QED  BY <1>3, <1>4, <1>5, <1>6, <1>8, <1>9, <1>10, <1>11 DEF IInv

\* allocate: the new region joins the live ones, apart from all of them.
LEMMA AllocateStep ==
    ASSUME IInv, NEW id \in AllocIds, NEW bytes \in WordValues, NEW align \in WordValues,
           NEW mov \in Movability, Allocate(id, 1, bytes, align, mov)
    PROVE  /\ IInv'
           /\ \E off \in Bytes :
                 LET m == LiveRegion(off, align_up(bytes, align), id, 1, align, mov)
                 IN  /\ Live' = Live \cup {m} /\ RegionSound(m)
                     /\ alloc_offset'[id] = off
                     /\ \A q \in Live : Apart(q, m) /\ q.alloc_id # id
<1>. DEFINE need == align_up(bytes, align)
<1>1. bytes \in Nat /\ align \in 1 .. WordSize - 1 /\ is_pow2(align)
  BY WordAssumption DEF Allocate, ValidRequest, is_pow2, WordValues
<1>2. need \in 1 .. Capacity
  <2>1. need \in Int
    BY <1>1, AlignUpInt, WordAssumption
  <2>. QED  BY <1>1, <2>1, CapacityAssumption DEF Allocate, ValidRequest
<1>3. PICK s \in free_slots : Fits(s, need, align) /\ CommitSlot(s, id, 1, need, align, mov)
  BY DEF Allocate, BestFit, FitSlots
<1>. HIDE DEF need
<1>4. Shape(regions, free_slots)
  BY LiveFacts
<1>5. s.offset \in Bytes /\ s.size \in 1 .. Capacity /\ s.offset + s.size <= Capacity
  BY <1>4 DEF Shape, Layout, RegionSound, RegionType, SlotsOf, Slot, EndOf
<1>. DEFINE front == Front(s, align)
            off == s.offset + front
            tail == s.size - front - need
            m == LiveRegion(off, need, id, 1, align, mov)
<1>6. front \in Nat /\ front + need <= s.size /\ off % align = 0
  BY <1>1, <1>2, <1>3, <1>5, FrontAligned
<1>7. /\ regions' = {r \in regions : r.offset # s.offset} \cup FreePiece(s.offset, front)
                       \cup {m} \cup FreePiece(off + need, tail)
      /\ free_slots' = (free_slots \ {s}) \cup SlotPiece(s.offset, front)
                                          \cup SlotPiece(off + need, tail)
      /\ alloc_offset' = [alloc_offset EXCEPT ![id] = off]
  BY <1>3 DEF CommitSlot, IndexAt
<1>. HIDE DEF front
<1>8. off \in Bytes /\ off + need <= Capacity /\ off # Absent
  BY <1>2, <1>5, <1>6, CapacityAssumption DEF Bytes, Absent
<1>9. /\ m.offset = off /\ m.size = need /\ m.live /\ m.alloc_id = id /\ m.alignment = align
      /\ RegionSound(m)
  BY <1>1, <1>2, <1>8, BoundAssumption
  DEF LiveRegion, RegionSound, RegionType, EndOf
<1>. HIDE DEF m, off, tail
<1>10. /\ Shape(regions', free_slots')
       /\ {q \in regions' : q.live} = {q \in regions : q.live} \cup {m}
       /\ \A q \in regions : q.live => Apart(q, m)
  <2>1. m.offset = s.offset + front /\ tail = s.size - front - need
    BY <1>9 DEF off, tail
  <2>2. /\ front \in Nat /\ RegionSound(m) /\ m.live
        /\ m.offset = s.offset + front /\ front + m.size <= s.size
    BY <1>6, <1>9, <2>1
  <2>3. /\ Shape(SplitRegions(regions, s, front, m), SplitSlots(free_slots, s, front, m))
        /\ {q \in SplitRegions(regions, s, front, m) : q.live} = {q \in regions : q.live} \cup {m}
        /\ \A q \in regions : q.live => Apart(q, m)
    BY <1>4, <2>2, AllocateShape
  <2>4. /\ regions' = SplitRegions(regions, s, front, m)
        /\ free_slots' = SplitSlots(free_slots, s, front, m)
    BY <1>7, <1>9, <2>1 DEF SplitRegions, SplitSlots
  <2>. QED  BY <2>3, <2>4, Zenon
<1>11. Live' = Live \cup {m} /\ \A q \in Live : Apart(q, m)
  BY <1>10 DEF Live
<1>12. \A q \in Live : q.alloc_id # id /\ q.alloc_id \in AllocIds
  <2>1. alloc_offset[id] = Absent
    BY DEF Allocate
  <2>2. \A q \in Live : q.offset \in Bytes /\ q.alloc_id \in AllocIds
    BY LiveFacts DEF RegionSound, RegionType
  <2>. QED  BY <2>1, <2>2, CapacityAssumption DEF IInv, AllocIndexExact, Absent, Bytes
<1>13. alloc_offset' \in [AllocIds -> Bytes \cup {Absent}]
  BY <1>7, <1>8 DEF IInv, TypeOK
<1>14. AllocIndexExact'
  <2>0. alloc_offset \in [AllocIds -> Bytes \cup {Absent}]
    BY DEF IInv, TypeOK
  <2>1. \A q \in Live' : alloc_offset'[q.alloc_id] = q.offset
    BY <1>7, <1>9, <1>11, <1>12, <2>0 DEF IInv, AllocIndexExact
  <2>2. \A i \in AllocIds : alloc_offset'[i] # Absent =>
            \E q \in Live' : q.alloc_id = i /\ q.offset = alloc_offset'[i]
    BY <1>7, <1>9, <1>11, <2>0 DEF IInv, AllocIndexExact
  <2>. QED  BY <2>1, <2>2 DEF AllocIndexExact
<1>15. live_bytes' = live_bytes + need /\ live_count' = live_count + 1
       /\ summary_dirty' = TRUE /\ free_count' = free_count /\ largest_free' = largest_free
  BY DEF Allocate, InvalidateSummary, need
<1>16. ExactAccounting'
  <2>1. m \notin Live
    BY <1>9, <1>12
  <2>2. Cardinality(Live \cup {m}) = Cardinality(Live) + 1
    BY <2>1, LiveFacts, FS_AddElement
  <2>3. Cardinality(OccupiedBy(Live \cup {m})) = Cardinality(OccupiedBy(Live)) + need
    BY <1>9, <1>11, LiveFacts, OccupiedAdd
  <2>4. Cardinality(Live') = Cardinality(Live \cup {m})
    BY <1>11, Zenon
  <2>5. Cardinality(Occupied') = Cardinality(OccupiedBy(Live \cup {m}))
        /\ Cardinality(Occupied) = Cardinality(OccupiedBy(Live))
    BY <1>11, OccupiedIs, Zenon
  <2>. QED  BY <1>15, <2>2, <2>3, <2>4, <2>5 DEF IInv, ExactAccounting
<1>17. SummaryFresh'
  BY <1>15 DEF SummaryFresh
<1>18. Aligned'
  <2>1. off % align = 0
    BY <1>6 DEF off
  <2>2. \A q \in Live' : is_pow2(q.alignment) /\ q.offset % q.alignment = 0
    BY <1>1, <1>9, <1>11, <2>1 DEF IInv, Aligned
  <2>. QED  BY <2>2 DEF Aligned, is_pow2
<1>19. TypeOK'
  <2>1. /\ live_bytes' \in Int /\ live_count' \in Int /\ summary_dirty' \in BOOLEAN
        /\ free_count' \in Nat /\ largest_free' \in 0 .. Capacity
    BY <1>2, <1>15 DEF IInv, TypeOK
  <2>. QED  BY <1>10, <1>13, <2>1, TypeOfShape
<1>20. IInv'
  BY <1>10, <1>14, <1>16, <1>17, <1>18, <1>19, StateOfShape DEF IInv
<1>21. alloc_offset'[id] = off
  BY <1>7 DEF IInv, TypeOK
<1>22. m = LiveRegion(off, need, id, 1, align, mov)
  BY DEF m
<1>. QED  BY <1>8, <1>9, <1>11, <1>12, <1>20, <1>21, <1>22 DEF need

\* free: the region leaves the live ones and joins its free neighbours.
LEMMA FreeStep ==
    ASSUME IInv, NEW id \in AllocIds, NEW gen, Free(id, gen)
    PROVE  /\ IInv'
           /\ \E r \in Live : /\ r.alloc_id = id /\ r.generation = gen
                              /\ Live' = Live \ {r} /\ live_bytes' = live_bytes - r.size
<1>1. PICK r \in regions :
        /\ Named(r, id, gen)
        /\ regions' = canonicalize_regions(regions \ {r}, r.offset, r.size)
        /\ free_slots' = canonicalize_slots(regions \ {r}, free_slots, r.offset, r.size)
        /\ alloc_offset' = [alloc_offset EXCEPT ![id] = Absent]
        /\ live_bytes' = live_bytes - r.size
        /\ live_count' = live_count - 1
  BY DEF Free, IndexAt
<1>2. summary_dirty' = TRUE /\ free_count' = free_count /\ largest_free' = largest_free
  BY DEF Free, InvalidateSummary
<1>3. /\ r \in Live /\ r.alloc_id = id /\ r.generation = gen /\ alloc_offset[id] = r.offset
      /\ r.offset \in Bytes /\ r.size \in 1 .. Capacity
  BY <1>1, NamedFacts
<1>4. Shape(regions, free_slots) /\ r.live
  BY <1>3, LiveFacts
<1>5. /\ Shape(regions', free_slots')
      /\ {q \in regions' : q.live} = {q \in regions : q.live} \ {r}
  BY <1>1, <1>4, FreeShape
<1>6. Live' = Live \ {r}
  BY <1>5 DEF Live
<1>7. alloc_offset \in [AllocIds -> Bytes \cup {Absent}]
      /\ alloc_offset' \in [AllocIds -> Bytes \cup {Absent}]
  BY <1>1 DEF IInv, TypeOK
<1>8. AllocIndexExact'
  <2>0. \A q \in Live \ {r} : q.alloc_id # id /\ q.alloc_id \in AllocIds
    BY <1>3, LiveFacts DEF RegionSound
  <2>1. \A q \in Live' : alloc_offset'[q.alloc_id] = q.offset
    BY <1>1, <1>6, <1>7, <2>0 DEF IInv, AllocIndexExact
  <2>2. \A i \in AllocIds : alloc_offset'[i] # Absent =>
            \E q \in Live' : q.alloc_id = i /\ q.offset = alloc_offset'[i]
    BY <1>1, <1>3, <1>6, <1>7 DEF IInv, AllocIndexExact
  <2>. QED  BY <2>1, <2>2 DEF AllocIndexExact
<1>9. ExactAccounting'
  <2>1. Cardinality(Live \ {r}) = Cardinality(Live) - 1
    BY <1>3, LiveFacts, FS_RemoveElement
  <2>2. Cardinality(OccupiedBy(Live \ {r})) = Cardinality(OccupiedBy(Live)) - r.size
    BY <1>3, LiveFacts, OccupiedRemove
  <2>3. Cardinality(Live') = Cardinality(Live \ {r})
    BY <1>6, Zenon
  <2>4. Cardinality(Occupied') = Cardinality(OccupiedBy(Live \ {r}))
        /\ Cardinality(Occupied) = Cardinality(OccupiedBy(Live))
    BY <1>6, OccupiedIs, Zenon
  <2>. QED  BY <1>1, <2>1, <2>2, <2>3, <2>4 DEF IInv, ExactAccounting
<1>10. SummaryFresh'
  BY <1>2 DEF SummaryFresh
<1>11. Aligned'
  <2>1. \A q \in Live' : is_pow2(q.alignment) /\ q.offset % q.alignment = 0
    BY <1>6 DEF IInv, Aligned
  <2>. QED  BY <2>1 DEF Aligned, is_pow2
<1>12. TypeOK'
  <2>1. /\ live_bytes' \in Int /\ live_count' \in Int /\ summary_dirty' \in BOOLEAN
        /\ free_count' \in Nat /\ largest_free' \in 0 .. Capacity
    BY <1>1, <1>2, <1>3 DEF IInv, TypeOK
  <2>. QED  BY <1>5, <1>7, <2>1, TypeOfShape
<1>13. IInv'
  BY <1>5, <1>8, <1>9, <1>10, <1>11, <1>12, StateOfShape DEF IInv
<1>. QED  BY <1>1, <1>3, <1>6, <1>13

\* relocate: the region changes place, size, alignment and generation.
LEMMA RelocateStep ==
    ASSUME IInv, NEW id \in AllocIds, NEW gen \in 1 .. MaxGeneration, NEW lo \in 0 .. Capacity,
           NEW n \in WordValues, NEW align \in WordValues, Relocate(id, gen, lo, n, align)
    PROVE  /\ IInv'
           /\ lo \in Bytes /\ n \in 1 .. Capacity /\ lo + n <= Capacity /\ gen < MaxGeneration
           /\ \A q \in Live : ~Overlaps(q, lo, lo + n)
           /\ \E r \in Live :
                 LET m == Moved(r, lo, n, align)
                 IN  /\ r.alloc_id = id /\ r.generation = gen
                     /\ Live' = (Live \ {r}) \cup {m} /\ RegionSound(m)
                     /\ \A q \in Live \ {r} : Apart(q, m)
                     /\ live_bytes' = live_bytes + n - r.size
<1>1. PICK r \in regions :
        /\ Named(r, id, gen)
        /\ gen < MaxGeneration
        /\ ValidTarget(r, lo, n, align)
        /\ LET K == carve_regions(regions \ {r}, lo, lo + n)
               S == carve_slots(regions \ {r}, free_slots, lo, lo + n)
           IN  /\ regions' = canonicalize_regions(K, r.offset, r.size)
                               \cup {Moved(r, lo, n, align)}
               /\ free_slots' = canonicalize_slots(K, S, r.offset, r.size)
        /\ alloc_offset' = [alloc_offset EXCEPT ![id] = lo]
        /\ live_bytes' = live_bytes + n - r.size
  BY DEF Relocate, IndexAt, Resized
<1>. DEFINE m == Moved(r, lo, n, align)
<1>2. summary_dirty' = TRUE /\ free_count' = free_count /\ largest_free' = largest_free
      /\ live_count' = live_count
  BY DEF Relocate, InvalidateSummary
<1>3. /\ r \in Live /\ r.alloc_id = id /\ r.generation = gen /\ RegionSound(r)
      /\ r.offset \in Bytes /\ r.size \in 1 .. Capacity
  BY <1>1, NamedFacts
<1>4. Shape(regions, free_slots) /\ r.live
  BY <1>3, LiveFacts
<1>5. /\ lo \in Bytes /\ n \in 1 .. Capacity /\ lo + n <= Capacity
      /\ align \in 1 .. WordSize - 1 /\ is_pow2(align) /\ lo % align = 0
  BY <1>1, WordAssumption, CapacityAssumption DEF ValidTarget, is_pow2, Bytes, WordValues
<1>6. \A q \in regions : q.live => ~Overlaps(q, lo, lo + n)
  BY <1>1 DEF ValidTarget
<1>7. /\ RegionSound(m) /\ m.live /\ m.offset = lo /\ m.size = n /\ m.alloc_id = id
      /\ m.alignment = align
  <2>1. r \in RegionType
    BY <1>3 DEF RegionSound
  <2>2. /\ m.live = r.live /\ m.offset = lo /\ m.size = n /\ m.alloc_id = r.alloc_id
        /\ m.alignment = align /\ m.generation = r.generation + 1
    BY <2>1 DEF Moved, RegionType
  <2>3. r.generation + 1 \in 0 .. MaxGeneration
    BY <1>1, <1>3, BoundAssumption
  <2>4. m \in RegionType
    BY <2>1, <2>3, <1>5 DEF Moved, RegionType
  <2>. QED  BY <1>3, <1>4, <1>5, <2>2, <2>4, BoundAssumption DEF RegionSound, EndOf
<1>. HIDE DEF m
<1>8. /\ Shape(regions', free_slots')
      /\ {q \in regions' : q.live} = ({q \in regions : q.live} \ {r}) \cup {m}
      /\ \A q \in {p \in regions : p.live} \ {r} : Apart(q, m)
  <2>0. \A q \in regions : q.live => ~Overlaps(q, m.offset, m.offset + m.size)
    BY <1>6, <1>7
  <2>. DEFINE N == RelocatedRegions(regions, r, m)
              S == RelocatedSlots(regions, free_slots, r, m)
  <2>1. /\ Shape(N, S)
        /\ {q \in N : q.live} = ({q \in regions : q.live} \ {r}) \cup {m}
        /\ \A q \in {p \in regions : p.live} \ {r} : Apart(q, m)
    BY <1>4, <1>7, <2>0, RelocateShape
  <2>2. regions' = N /\ free_slots' = S
    <3>1. Moved(r, lo, n, align) = m
      BY DEF m
    <3>. QED  BY <1>1, <1>7, <3>1 DEF RelocatedRegions, RelocatedSlots
  <2>. QED  BY <2>1, <2>2, Zenon
<1>9. Live' = (Live \ {r}) \cup {m} /\ \A q \in Live \ {r} : Apart(q, m)
  BY <1>8 DEF Live
<1>10. alloc_offset' = [alloc_offset EXCEPT ![r.alloc_id] = m.offset]
  BY <1>1, <1>3, <1>7
<1>11. /\ AllocIndexExact'
       /\ Cardinality(Live') = Cardinality(Live)
       /\ Cardinality(Occupied') = Cardinality(Occupied) - r.size + m.size
       /\ Aligned'
       /\ alloc_offset' \in [AllocIds -> Bytes \cup {Absent}]
  <2>1. is_pow2(m.alignment) /\ m.offset % m.alignment = 0 /\ m.alloc_id = r.alloc_id
    BY <1>3, <1>5, <1>7
  <2>. QED  BY <1>3, <1>7, <1>9, <1>10, <2>1, Replaced
<1>12. ExactAccounting'
  BY <1>1, <1>2, <1>3, <1>5, <1>7, <1>11, LiveFacts DEF IInv, ExactAccounting
<1>13. SummaryFresh'
  BY <1>2 DEF SummaryFresh
<1>14. TypeOK'
  <2>1. /\ live_bytes' \in Int /\ live_count' \in Int /\ summary_dirty' \in BOOLEAN
        /\ free_count' \in Nat /\ largest_free' \in 0 .. Capacity
    BY <1>1, <1>2, <1>3, <1>5 DEF IInv, TypeOK
  <2>. QED  BY <1>8, <1>11, <2>1, TypeOfShape
<1>15. IInv'
  BY <1>8, <1>11, <1>12, <1>13, <1>14, StateOfShape DEF IInv
<1>16. \A q \in Live : ~Overlaps(q, lo, lo + n)
  BY <1>6 DEF Live
<1>17. m = Moved(r, lo, n, align)
  BY DEF m
<1>. QED  BY <1>1, <1>3, <1>5, <1>7, <1>9, <1>15, <1>16, <1>17

(***************************************************************************)
(* pin and unpin: a change in place, which leaves the free space, and so   *)
(* a clean summary, alone.                                                 *)
(***************************************************************************)
LEMMA InPlaceStep ==
    ASSUME IInv, NEW r \in Live, NEW m, RegionSound(m), m.live, m.alloc_id = r.alloc_id,
           m.offset = r.offset, m.size = r.size, m.alignment = r.alignment,
           regions' = (regions \ {r}) \cup {m},
           UNCHANGED <<alloc_offset, free_slots, live_bytes, live_count, summary>>
    PROVE  IInv' /\ Live' = (Live \ {r}) \cup {m}
<1>0. /\ alloc_offset' = alloc_offset /\ free_slots' = free_slots
      /\ live_bytes' = live_bytes /\ live_count' = live_count
      /\ summary_dirty' = summary_dirty /\ free_count' = free_count
      /\ largest_free' = largest_free
  BY DEF summary
<1>1. Shape(regions, free_slots) /\ r \in regions /\ r.live
  BY LiveFacts
<1>2. /\ Shape(regions', free_slots')
      /\ {q \in regions' : q.live} = ({q \in regions : q.live} \ {r}) \cup {m}
  BY <1>0, <1>1, InPlaceShape
<1>3. Live' = (Live \ {r}) \cup {m}
  BY <1>2 DEF Live
<1>4. \A q \in Live \ {r} : Apart(q, m)
  BY LiveFacts DEF Apart, EndOf
<1>5. alloc_offset' = [alloc_offset EXCEPT ![r.alloc_id] = m.offset]
  <2>1. alloc_offset[r.alloc_id] = r.offset /\ alloc_offset \in [AllocIds -> Bytes \cup {Absent}]
    BY DEF IInv, AllocIndexExact, TypeOK
  <2>. QED  BY <1>0, <2>1
<1>6. is_pow2(m.alignment) /\ m.offset % m.alignment = 0
  BY DEF IInv, Aligned
<1>7. /\ AllocIndexExact'
      /\ Cardinality(Live') = Cardinality(Live)
      /\ Cardinality(Occupied') = Cardinality(Occupied) - r.size + m.size
      /\ Aligned'
      /\ alloc_offset' \in [AllocIds -> Bytes \cup {Absent}]
  BY <1>3, <1>4, <1>5, <1>6, Replaced
<1>8. ExactAccounting'
  <2>1. r.size \in Int
    BY LiveFacts DEF RegionSound, RegionType
  <2>. QED  BY <1>0, <1>7, <2>1, LiveFacts DEF IInv, ExactAccounting
<1>9. SummaryFresh'
  <2>1. FreeRegions' = FreeRegions
    BY <1>1 DEF FreeRegions
  <2>2. SummaryFresh
    BY DEF IInv
  <2>. QED  BY <1>0, <2>1, <2>2, Zenon DEF SummaryFresh, IsLargest
<1>10. TypeOK'
  BY <1>0, <1>2, <1>7, TypeOfShape DEF IInv, TypeOK
<1>. QED  BY <1>2, <1>3, <1>7, <1>8, <1>9, <1>10, StateOfShape DEF IInv

\* pin counts one more holder, up to the bound.
LEMMA PinStep ==
    ASSUME IInv, NEW id \in AllocIds, NEW gen, Pin(id, gen)
    PROVE  /\ IInv'
           /\ \E r \in Live : /\ r.alloc_id = id /\ r.generation = gen /\ r.pin_count < MaxPins
                              /\ Live' = (Live \ {r}) \cup {Pinned(r)} /\ RegionSound(Pinned(r))
           /\ live_bytes' = live_bytes /\ alloc_offset' = alloc_offset
<1>1. PICK r \in regions :
        /\ Named(r, id, gen)
        /\ r.pin_count < MaxPins
        /\ regions' = (regions \ {r}) \cup {Pinned(r)}
        /\ UNCHANGED <<alloc_offset, free_slots, live_bytes, live_count, summary>>
  BY DEF Pin
<1>2. r \in Live /\ RegionSound(r) /\ r.live /\ r.alloc_id = id /\ r.generation = gen
  BY <1>1, NamedFacts DEF Live
<1>. DEFINE m == Pinned(r)
<1>3. /\ RegionSound(m) /\ m.live /\ m.alloc_id = r.alloc_id
      /\ m.offset = r.offset /\ m.size = r.size /\ m.alignment = r.alignment
  <2>1. r \in RegionType
    BY <1>2 DEF RegionSound
  <2>2. /\ m.live = r.live /\ m.alloc_id = r.alloc_id /\ m.generation = r.generation
        /\ m.offset = r.offset /\ m.size = r.size /\ m.alignment = r.alignment
    BY <2>1 DEF Pinned, RegionType
  <2>3. r.pin_count + 1 \in 0 .. MaxPins
    BY <1>1, <2>1, BoundAssumption DEF RegionType
  <2>4. m \in RegionType
    BY <2>1, <2>3 DEF Pinned, RegionType, Movability
  <2>. QED  BY <1>2, <2>2, <2>4 DEF RegionSound, EndOf
<1>. HIDE DEF m
<1>4. regions' = (regions \ {r}) \cup {m}
  BY <1>1 DEF m
<1>5. IInv' /\ Live' = (Live \ {r}) \cup {m}
  BY <1>1, <1>2, <1>3, <1>4, InPlaceStep
<1>6. m = Pinned(r)
  BY DEF m
<1>. QED  BY <1>1, <1>2, <1>3, <1>5, <1>6

\* unpin counts one holder less, and never below none.
LEMMA UnpinStep ==
    ASSUME IInv, NEW id \in AllocIds, NEW gen, Unpin(id, gen)
    PROVE  /\ IInv'
           /\ \E r \in Live : /\ r.alloc_id = id /\ r.generation = gen /\ r.pin_count # 0
                              /\ Live' = (Live \ {r}) \cup {Unpinned(r)} /\ RegionSound(Unpinned(r))
           /\ live_bytes' = live_bytes /\ alloc_offset' = alloc_offset
<1>1. PICK r \in regions :
        /\ Named(r, id, gen)
        /\ r.pin_count # 0
        /\ regions' = (regions \ {r}) \cup {Unpinned(r)}
        /\ UNCHANGED <<alloc_offset, free_slots, live_bytes, live_count, summary>>
  BY DEF Unpin, HasPin
<1>2. r \in Live /\ RegionSound(r) /\ r.live /\ r.alloc_id = id /\ r.generation = gen
  BY <1>1, NamedFacts DEF Live
<1>. DEFINE m == Unpinned(r)
<1>3. /\ RegionSound(m) /\ m.live /\ m.alloc_id = r.alloc_id
      /\ m.offset = r.offset /\ m.size = r.size /\ m.alignment = r.alignment
  <2>1. r \in RegionType
    BY <1>2 DEF RegionSound
  <2>2. /\ m.live = r.live /\ m.alloc_id = r.alloc_id /\ m.generation = r.generation
        /\ m.offset = r.offset /\ m.size = r.size /\ m.alignment = r.alignment
    BY <2>1 DEF Unpinned, RegionType
  <2>3. r.pin_count - 1 \in 0 .. MaxPins
    BY <1>1, <2>1, BoundAssumption DEF RegionType
  <2>4. m \in RegionType
    BY <2>1, <2>3 DEF Unpinned, RegionType, Movability
  <2>. QED  BY <1>2, <2>2, <2>4 DEF RegionSound, EndOf
<1>. HIDE DEF m
<1>4. regions' = (regions \ {r}) \cup {m}
  BY <1>1 DEF m
<1>5. IInv' /\ Live' = (Live \ {r}) \cup {m}
  BY <1>1, <1>2, <1>3, <1>4, InPlaceStep
<1>6. m = Unpinned(r)
  BY DEF m
<1>. QED  BY <1>1, <1>2, <1>3, <1>5, <1>6

\* ensure_summary: the index it reads has one slot for each free region.
LEMMA SummaryStep ==
    ASSUME IInv, ensure_summary
    PROVE  IInv' /\ Live' = Live /\ live_bytes' = live_bytes
<1>1. /\ regions' = regions /\ alloc_offset' = alloc_offset /\ free_slots' = free_slots
      /\ live_bytes' = live_bytes /\ live_count' = live_count
      /\ summary_dirty' = FALSE /\ free_count' = Cardinality(free_slots)
      /\ IsLargest(largest_free', free_slots)
  BY DEF ensure_summary
<1>2. Shape(regions, free_slots)
  BY LiveFacts
<1>3. free_slots = SlotsOf(regions) /\ Layout(regions)
  BY <1>2 DEF Shape
<1>4. IsFiniteSet(free_slots) /\ Cardinality(free_slots) = Cardinality(FreeRegions)
  BY <1>3, SlotCount DEF FreeRegions
<1>5. Cardinality(free_slots) \in Nat
  BY <1>4, FS_CardinalityType
<1>6. IsLargest(largest_free', FreeRegions)
  <2>1. \A x \in free_slots : \E q \in FreeRegions : q.size = x.size
    BY <1>3 DEF SlotsOf, FreeRegions, Slot
  <2>2. \A q \in FreeRegions : \E x \in free_slots : q.size = x.size
    <3>. TAKE q \in FreeRegions
    <3>1. Slot(q.offset, q.size) \in free_slots
      BY <1>3 DEF SlotsOf, FreeRegions
    <3>2. Slot(q.offset, q.size).size = q.size
      BY DEF Slot
    <3>. QED  BY <3>1, <3>2
  <2>. QED  BY <1>1, <2>1, <2>2 DEF IsLargest
<1>7. SummaryFresh'
  BY <1>1, <1>4, <1>6 DEF SummaryFresh, FreeRegions, IsLargest
<1>8. largest_free' \in 0 .. Capacity
  BY <1>1, <1>3, SlotTypes, CapacityAssumption DEF IsLargest
<1>9. TypeOK'
  BY <1>1, <1>2, <1>5, <1>8, TypeOfShape DEF IInv, TypeOK
<1>10. AllocIndexExact' /\ ExactAccounting' /\ Aligned'
  BY <1>1 DEF IInv, AllocIndexExact, ExactAccounting, Aligned, Live, Occupied, Covers, EndOf
<1>11. Live' = Live
  BY <1>1 DEF Live
<1>. QED  BY <1>1, <1>2, <1>7, <1>9, <1>10, <1>11, StateOfShape DEF IInv

\* A call that does not touch the arena.
LEMMA UnchangedStep ==
    ASSUME IInv, UNCHANGED arena
    PROVE  IInv' /\ Live' = Live
<1>1. /\ regions' = regions /\ alloc_offset' = alloc_offset /\ free_slots' = free_slots
      /\ live_bytes' = live_bytes /\ live_count' = live_count
      /\ summary_dirty' = summary_dirty /\ free_count' = free_count
      /\ largest_free' = largest_free
  BY DEF arena, summary
<1>2. Live' = Live /\ FreeRegions' = FreeRegions /\ Occupied' = Occupied
  BY <1>1 DEF Live, FreeRegions, Occupied, Covers, EndOf
<1>3. TypeOK' /\ Tiling' /\ Coalesced' /\ FreeIndexExact'
  BY <1>1, <1>2 DEF IInv, TypeOK, Tiling, NoOverlap, Covered, Covers, EndOf,
                    Coalesced, FreeIndexExact
<1>4. AllocIndexExact' /\ ExactAccounting' /\ Aligned'
  BY <1>1, <1>2 DEF IInv, AllocIndexExact, ExactAccounting, Aligned
<1>5. SummaryFresh'
  BY <1>1, <1>2, Zenon DEF IInv, SummaryFresh, IsLargest
<1>. QED  BY <1>2, <1>3, <1>4, <1>5 DEF IInv

-----------------------------------------------------------------------------
(***************************************************************************)
(* The invariant holds in every state the methods can produce.             *)
(***************************************************************************)
THEOREM ArenaInvariant == ArenaSpec => []IInv
<1>1. ArenaInit => IInv
  BY InitStep
<1>2. IInv /\ [ArenaNext]_arena => IInv'
  <2>. SUFFICES ASSUME IInv, [ArenaNext]_arena PROVE IInv'
    OBVIOUS
  <2>1. ASSUME NEW id \in AllocIds, NEW bytes \in RequestBytes, NEW align \in Alignments,
               NEW mov \in Movabilities, Allocate(id, 1, bytes, align, mov)
        PROVE  IInv'
    BY <2>1, RequestAssumption, AllocateStep DEF WordValues
  <2>2. ASSUME NEW id \in AllocIds, NEW gen \in 1 .. MaxGeneration, Free(id, gen)
        PROVE  IInv'
    BY <2>2, FreeStep
  <2>3. ASSUME NEW id \in AllocIds, NEW gen \in 1 .. MaxGeneration, NEW lo \in 0 .. Capacity,
               NEW n \in RequestBytes, NEW align \in Alignments, Relocate(id, gen, lo, n, align)
        PROVE  IInv'
    BY <2>3, RequestAssumption, RelocateStep DEF WordValues
  <2>4. ASSUME NEW id \in AllocIds, NEW gen \in 1 .. MaxGeneration, Pin(id, gen)
        PROVE  IInv'
    BY <2>4, PinStep
  <2>5. ASSUME NEW id \in AllocIds, NEW gen \in 1 .. MaxGeneration, Unpin(id, gen)
        PROVE  IInv'
    BY <2>5, UnpinStep
  <2>6. CASE ensure_summary
    BY <2>6, SummaryStep
  <2>7. CASE UNCHANGED arena
    BY <2>7, UnchangedStep
  <2>. QED  BY <2>1, <2>2, <2>3, <2>4, <2>5, <2>6, <2>7 DEF ArenaNext
<1>. QED  BY <1>1, <1>2, PTL DEF ArenaSpec

(* The arena's state keeps its types whatever is called in whatever order. *)
THEOREM TypeCorrect == ArenaSpec => []TypeOK
<1>1. IInv => TypeOK
  BY DEF IInv
<1>. QED  BY <1>1, ArenaInvariant, PTL

(***************************************************************************)
(* Live and free regions partition the managed bytes: no two allocations   *)
(* ever share a byte and no byte is lost, for every sequence of allocate,  *)
(* free, relocate, pin and unpin calls.                                    *)
(***************************************************************************)
THEOREM TilingCorrect == ArenaSpec => []Tiling
<1>1. IInv => Tiling
  BY DEF IInv
<1>. QED  BY <1>1, ArenaInvariant, PTL

(* Free space is always merged: no hole hides in two pieces. *)
THEOREM CoalescingCorrect == ArenaSpec => []Coalesced
<1>1. IInv => Coalesced
  BY DEF IInv
<1>. QED  BY <1>1, ArenaInvariant, PTL

(* The size index that allocate() searches lists exactly the free regions. *)
THEOREM SizeIndexCorrect == ArenaSpec => []FreeIndexExact
<1>1. IInv => FreeIndexExact
  BY DEF IInv
<1>. QED  BY <1>1, ArenaInvariant, PTL

(* The id index that free(), relocate(), pin() and unpin() go through      *)
(* names exactly the live regions.                                         *)
THEOREM IdIndexCorrect == ArenaSpec => []AllocIndexExact
<1>1. IInv => AllocIndexExact
  BY DEF IInv
<1>. QED  BY <1>1, ArenaInvariant, PTL

(***************************************************************************)
(* The incremental byte and region counters equal a recount, also across   *)
(* relocations that change a region's size.                                *)
(***************************************************************************)
THEOREM AccountingCorrect == ArenaSpec => []ExactAccounting
<1>1. IInv => ExactAccounting
  BY DEF IInv
<1>. QED  BY <1>1, ArenaInvariant, PTL

(***************************************************************************)
(* Every live region starts at a multiple of its alignment, for every word *)
(* size above the capacity: the wrap of align_up() never misplaces one.    *)
(***************************************************************************)
THEOREM AlignmentCorrect == ArenaSpec => []Aligned
<1>1. IInv => Aligned
  BY DEF IInv
<1>. QED  BY <1>1, ArenaInvariant, PTL

(* A clean cached summary is the summary of the present layout. *)
THEOREM SummaryCorrect == ArenaSpec => []SummaryFresh
<1>1. IInv => SummaryFresh
  BY DEF IInv
<1>. QED  BY <1>1, ArenaInvariant, PTL
==============================================================================
