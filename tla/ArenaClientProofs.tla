--------------------------- MODULE ArenaClientProofs ---------------------------
(***************************************************************************)
(* What the clients of an arena may rely on, proved for every value of the *)
(* constants: the arena implements the byte ledger, and allocate() refuses *)
(* a well-formed request only when there really is no room for it.         *)
(***************************************************************************)
EXTENDS RegionAllocatorProofs

-----------------------------------------------------------------------------
(* The refinement mapping, as an operator of the set of live regions.      *)

OwnerMap(L) ==
    [b \in Bytes |->
        IF \E r \in L : Covers(r, b)
        THEN LET r == CHOOSE q \in L : Covers(q, b) IN <<r.alloc_id, r.generation>>
        ELSE <<NoOne, 0>>]

\* Well-formed live regions without overlap, one for each allocation id.
Disjoint(L) ==
    /\ \A r \in L : RegionSound(r) /\ r.live
    /\ \A p, q \in L : p = q \/ Apart(p, q)
    /\ \A p, q \in L : p.alloc_id = q.alloc_id => p = q

\* The mapping before and after a step.
LEMMA OwnerIs == owner = OwnerMap(Live) /\ owner' = OwnerMap(Live')
  BY DEF owner, OwnerMap

\* The live regions of the arena are disjoint, before and after a step.
LEMMA LiveDisjoint ==
    /\ IInv => Disjoint(Live)
    /\ IInv' => Disjoint(Live')
<1>1. IInv => Disjoint(Live)
  BY LiveFacts DEF Disjoint
<1>2. IInv' => Disjoint(Live)'
  BY <1>1, PTL
<1>3. Disjoint(Live)' => Disjoint(Live')
  BY DEF Disjoint
<1>. QED  BY <1>1, <1>2, <1>3

\* Of disjoint regions at most one covers a byte, and it is the byte's owner.
LEMMA OwnerValue ==
    ASSUME NEW L, Disjoint(L), NEW b \in Bytes
    PROVE  /\ \A r \in L : Covers(r, b) => OwnerMap(L)[b] = <<r.alloc_id, r.generation>>
           /\ (~ \E r \in L : Covers(r, b)) => OwnerMap(L)[b] = <<NoOne, 0>>
           /\ \A p, q \in L : Covers(p, b) /\ Covers(q, b) => p = q
<1>1. ASSUME NEW p \in L, NEW q \in L, Covers(p, b), Covers(q, b)
      PROVE  p = q
  BY <1>1, CapacityAssumption
  DEF Disjoint, RegionSound, RegionType, Apart, Covers, EndOf, Bytes
<1>2. ASSUME NEW r \in L, Covers(r, b)
      PROVE  OwnerMap(L)[b] = <<r.alloc_id, r.generation>>
  <2>. DEFINE c == CHOOSE q \in L : Covers(q, b)
  <2>1. c \in L /\ Covers(c, b)
    BY <1>2
  <2>2. OwnerMap(L)[b] = <<c.alloc_id, c.generation>>
    BY <1>2 DEF OwnerMap
  <2>. HIDE DEF c
  <2>. QED  BY <1>1, <1>2, <2>1, <2>2
<1>3. ASSUME ~ \E r \in L : Covers(r, b)
      PROVE  OwnerMap(L)[b] = <<NoOne, 0>>
  BY <1>3 DEF OwnerMap
<1>. QED  BY <1>1, <1>2, <1>3

\* A byte has the owner <<id, gen>> exactly when the region of id covers it.
LEMMA OwnedBy ==
    ASSUME NEW L, Disjoint(L), NEW r \in L, NEW b \in Bytes
    PROVE  /\ OwnerMap(L)[b] = <<r.alloc_id, r.generation>> <=> Covers(r, b)
           /\ OwnerMap(L)[b][1] = r.alloc_id <=> Covers(r, b)
           /\ OwnerMap(L \ {r})[b] = IF Covers(r, b) THEN <<NoOne, 0>> ELSE OwnerMap(L)[b]
<1>1. r.alloc_id \in AllocIds /\ r.alloc_id # NoOne
  BY IdAssumption DEF Disjoint, RegionSound
<1>2. CASE \E q \in L : Covers(q, b)
  <2>1. PICK q \in L : Covers(q, b)
    BY <1>2
  <2>2. OwnerMap(L)[b] = <<q.alloc_id, q.generation>>
    BY <2>1, OwnerValue
  <2>3. q = r <=> Covers(r, b)
    BY <2>1, OwnerValue
  <2>4. q = r <=> q.alloc_id = r.alloc_id
    BY DEF Disjoint
  <2>5. Disjoint(L \ {r})
    BY DEF Disjoint
  <2>6. OwnerMap(L \ {r})[b] = IF Covers(r, b) THEN <<NoOne, 0>> ELSE OwnerMap(L)[b]
    <3>1. CASE q = r
      <4>1. ~ \E p \in L \ {r} : Covers(p, b)
        BY <2>1, <3>1, OwnerValue
      <4>. QED  BY <2>3, <2>5, <3>1, <4>1, OwnerValue
    <3>2. CASE q # r
      <4>1. q \in L \ {r}
        BY <3>2
      <4>2. OwnerMap(L \ {r})[b] = <<q.alloc_id, q.generation>>
        BY <2>1, <2>5, <4>1, OwnerValue
      <4>. QED  BY <2>2, <2>3, <3>2, <4>2
    <3>. QED  BY <3>1, <3>2
  <2>. QED  BY <2>2, <2>3, <2>4, <2>6
<1>3. CASE ~ \E q \in L : Covers(q, b)
  <2>1. OwnerMap(L)[b] = <<NoOne, 0>> /\ ~Covers(r, b)
    BY <1>3, OwnerValue
  <2>2. OwnerMap(L \ {r})[b] = <<NoOne, 0>>
    BY <1>3 DEF OwnerMap
  <2>. QED  BY <1>1, <2>1, <2>2
<1>. QED  BY <1>2, <1>3

\* A region added to others: its bytes are its own, the rest keep theirs.
LEMMA OwnerAdded ==
    ASSUME NEW L, NEW m, Disjoint(L \cup {m}), m \notin L, NEW b \in Bytes
    PROVE  /\ Covers(m, b) => OwnerMap(L)[b] = <<NoOne, 0>>
           /\ OwnerMap(L \cup {m})[b] = IF Covers(m, b) THEN <<m.alloc_id, m.generation>>
                                                        ELSE OwnerMap(L)[b]
<1>1. (L \cup {m}) \ {m} = L
  OBVIOUS
<1>2. OwnerMap(L)[b] = IF Covers(m, b) THEN <<NoOne, 0>> ELSE OwnerMap(L \cup {m})[b]
  BY <1>1, OwnedBy
<1>3. Covers(m, b) => OwnerMap(L \cup {m})[b] = <<m.alloc_id, m.generation>>
  BY OwnerValue
<1>. QED  BY <1>2, <1>3

\* The interval of a well-formed region, as the ledger writes it.
LEMMA IntervalCovers ==
    ASSUME NEW r, RegionSound(r)
    PROVE  /\ Ledger!Interval(r.offset, r.size) \subseteq Bytes
           /\ \A b \in Bytes : b \in Ledger!Interval(r.offset, r.size) <=> Covers(r, b)
           /\ Covers(r, r.offset) /\ r.offset \in Bytes /\ r.size \in 1 .. Capacity
  BY CapacityAssumption DEF Ledger!Interval, RegionSound, RegionType, Covers, EndOf, Bytes

-----------------------------------------------------------------------------
(* The effect of each method on the live regions is a step of the ledger.  *)

\* A region added under a new id grants its bytes.
LEMMA GrantStep ==
    ASSUME IInv, IInv', NEW m, Live' = Live \cup {m}, RegionSound(m),
           m.alloc_id \in AllocIds, m.generation = 1,
           \A q \in Live : q.alloc_id # m.alloc_id
    PROVE  Ledger!Next
<1>. DEFINE id == m.alloc_id
            I == Ledger!Interval(m.offset, m.size)
<1>1. Disjoint(Live) /\ Disjoint(Live \cup {m}) /\ m \notin Live
  BY LiveDisjoint
<1>2. owner = OwnerMap(Live) /\ owner' = OwnerMap(Live \cup {m})
  BY OwnerIs
<1>. DEFINE Q == Live \cup {m}
<1>a. ASSUME NEW b \in Bytes
      PROVE  /\ Covers(m, b) => OwnerMap(Live)[b] = <<NoOne, 0>>
             /\ OwnerMap(Q)[b] = IF Covers(m, b) THEN <<id, 1>> ELSE OwnerMap(Live)[b]
  BY <1>1, OwnerAdded
<1>b. owner' = OwnerMap(Q)
  BY <1>2
<1>. HIDE DEF Q
<1>3. \A b \in Bytes : /\ b \in I => owner[b] = <<NoOne, 0>> /\ owner'[b] = <<id, 1>>
                       /\ b \notin I => owner'[b] = owner[b]
  BY <1>2, <1>a, <1>b, IntervalCovers
<1>4. DOMAIN owner' = Bytes
  BY DEF owner
<1>5. Ledger!Holding(id) = {}
  <2>. SUFFICES ASSUME NEW b \in Bytes, owner[b][1] = id PROVE FALSE
    BY DEF Ledger!Holding, Ledger!Bytes, Bytes
  <2>1. ~Covers(m, b)
    <3>. SUFFICES ASSUME Covers(m, b) PROVE FALSE
      OBVIOUS
    <3>1. owner[b] = <<NoOne, 0>>
      BY <1>1, <1>2, OwnerAdded
    <3>. QED  BY <3>1, IdAssumption
  <2>2. owner'[b] = owner[b]
    BY <2>1, <1>2, <1>a, <1>b
  <2>3. OwnerMap(Q)[b][1] = id <=> Covers(m, b)
    BY <1>1, OwnedBy DEF Q
  <2>. QED  BY <1>b, <2>1, <2>2, <2>3
<1>6. m.offset \in Bytes /\ m.size \in 1 .. Capacity /\ I \subseteq Bytes
  BY IntervalCovers
<1>7. Ledger!Grant(id, m.offset, m.size)
  BY <1>3, <1>6 DEF Ledger!Grant, Ledger!Passes, Ledger!Keeps, Ledger!Bytes, Bytes,
                    Ledger!Nobody, NoOne
<1>8. owner' # owner
  <2>1. m.offset \in I
    BY IntervalCovers
  <2>. QED  BY <1>3, <1>6, <2>1
<1>. QED  BY <1>4, <1>5, <1>6, <1>7, <1>8 DEF Ledger!Next, Ledger!Bytes, Bytes

\* The bytes held under a handle are those of the region it names.
LEMMA HoldingIs ==
    ASSUME IInv, NEW r \in Live
    PROVE  LET H == Ledger!HoldingUnder(r.alloc_id, r.generation)
           IN  /\ H = {b \in Bytes : Covers(r, b)}
               /\ H # {}
               /\ \A b \in H : owner[b] = <<r.alloc_id, r.generation>>
               /\ r.alloc_id \in AllocIds /\ r.generation \in 1 .. MaxGeneration
<1>1. Disjoint(Live)
  BY LiveDisjoint
<1>2. \A b \in Bytes : owner[b] = <<r.alloc_id, r.generation>> <=> Covers(r, b)
  BY <1>1, OwnerIs, OwnedBy
<1>3. RegionSound(r) /\ r.live
  BY <1>1 DEF Disjoint
<1>4. Covers(r, r.offset) /\ r.offset \in Bytes
  BY <1>3, IntervalCovers
<1>5. r.alloc_id \in AllocIds /\ r.generation \in 1 .. MaxGeneration
  BY <1>3, BoundAssumption DEF RegionSound, RegionType
<1>. QED  BY <1>2, <1>4, <1>5 DEF Ledger!HoldingUnder, Ledger!Bytes, Bytes

\* A region taken away releases its bytes.
LEMMA ReleaseStep ==
    ASSUME IInv, IInv', NEW r \in Live, Live' = Live \ {r}
    PROVE  Ledger!Next
<1>. DEFINE id == r.alloc_id
            gen == r.generation
            H == Ledger!HoldingUnder(id, gen)
<1>1. Disjoint(Live)
  BY LiveDisjoint
<1>2. owner = OwnerMap(Live) /\ owner' = OwnerMap(Live \ {r})
  BY OwnerIs
<1>3. /\ H = {b \in Bytes : Covers(r, b)} /\ H # {}
      /\ \A b \in H : owner[b] = <<id, gen>>
      /\ id \in AllocIds /\ gen \in 1 .. MaxGeneration
  BY HoldingIs
<1>4. \A b \in Bytes : owner'[b] = IF b \in H THEN <<NoOne, 0>> ELSE owner[b]
  BY <1>1, <1>2, <1>3, OwnedBy
<1>5. DOMAIN owner' = Bytes
  BY DEF owner
<1>6. Ledger!Release(id, gen)
  BY <1>3, <1>4 DEF Ledger!Release, Ledger!Passes, Ledger!Keeps, Ledger!Bytes, Bytes,
                    Ledger!Nobody, NoOne
<1>7. owner' # owner
  BY <1>3, <1>4
<1>. QED  BY <1>3, <1>5, <1>6, <1>7 DEF Ledger!Next, Ledger!Bytes, Bytes, Ledger!Generations

\* A region replaced by its moved self passes to vacant bytes under the next
\* generation.
LEMMA MoveStep ==
    ASSUME IInv, IInv', NEW r \in Live, NEW m, Live' = (Live \ {r}) \cup {m},
           RegionSound(m), m.alloc_id = r.alloc_id, m.generation = r.generation + 1,
           \A q \in Live : ~Overlaps(q, m.offset, EndOf(m))
    PROVE  Ledger!Next
<1>. DEFINE id == r.alloc_id
            gen == r.generation
            H == Ledger!HoldingUnder(id, gen)
            I == Ledger!Interval(m.offset, m.size)
            K == Live \ {r}
<1>1. Disjoint(Live) /\ Disjoint(K \cup {m}) /\ m \notin K
  <2>1. Disjoint(Live) /\ Disjoint(K \cup {m})
    BY LiveDisjoint
  <2>2. \A q \in K : q.alloc_id # m.alloc_id
    BY <2>1 DEF Disjoint
  <2>. QED  BY <2>1, <2>2
<1>2. owner = OwnerMap(Live) /\ owner' = OwnerMap(K \cup {m})
  BY OwnerIs
<1>3. /\ H = {b \in Bytes : Covers(r, b)} /\ H # {}
      /\ \A b \in H : owner[b] = <<id, gen>>
      /\ id \in AllocIds /\ gen \in 1 .. MaxGeneration
  BY HoldingIs
<1>4. \A b \in Bytes : OwnerMap(K)[b] = IF b \in H THEN <<NoOne, 0>> ELSE owner[b]
  BY <1>1, <1>2, <1>3, OwnedBy
<1>5. /\ I \subseteq Bytes /\ \A b \in Bytes : b \in I <=> Covers(m, b)
      /\ m.offset \in Bytes /\ m.size \in 1 .. Capacity
  BY IntervalCovers
<1>6. \A b \in Bytes :
         owner'[b] = IF b \in I THEN <<id, gen + 1>> ELSE OwnerMap(K)[b]
  <2>. DEFINE Q == K \cup {m}
  <2>. TAKE b \in Bytes
  <2>. HIDE DEF K
  <2>1. OwnerMap(Q)[b] = IF Covers(m, b) THEN <<id, gen + 1>> ELSE OwnerMap(K)[b]
    BY <1>1, OwnerAdded
  <2>2. owner' = OwnerMap(Q)
    BY <1>2
  <2>. HIDE DEF Q
  <2>. QED  BY <1>5, <2>1, <2>2
<1>7. \A b \in I : owner[b] = <<NoOne, 0>> /\ b \notin H
  <2>. TAKE b \in I
  <2>1. b \in Bytes /\ Covers(m, b)
    BY <1>5
  <2>2. ~ \E q \in Live : Covers(q, b)
    <3>. SUFFICES ASSUME NEW q \in Live, Covers(q, b) PROVE FALSE
      OBVIOUS
    <3>1. ~Overlaps(q, m.offset, EndOf(m)) /\ q.offset \in Int /\ EndOf(q) \in Int
      BY <1>1 DEF Disjoint, RegionSound, RegionType, EndOf, Bytes
    <3>2. m.offset \in Int /\ EndOf(m) \in Int /\ b \in Int
      BY <2>1 DEF RegionSound, RegionType, EndOf, Bytes
    <3>. QED  BY <2>1, <3>1, <3>2 DEF Covers, Overlaps
  <2>. QED  BY <1>1, <1>2, <1>3, <2>1, <2>2, OwnerValue
<1>8. gen + 1 \in 1 .. MaxGeneration
  BY <1>3, BoundAssumption DEF RegionSound, RegionType
<1>9. DOMAIN owner' = Bytes
  BY DEF owner
<1>. HIDE DEF H, I
<1>10. Ledger!Passes(I, <<NoOne, 0>>, <<id, gen + 1>>)
  BY <1>5, <1>6, <1>7 DEF Ledger!Passes
<1>11. Ledger!Passes(H, <<id, gen>>, <<NoOne, 0>>)
  BY <1>3, <1>4, <1>6, <1>7 DEF Ledger!Passes
<1>12. Ledger!Keeps(Bytes \ (I \cup H))
  BY <1>4, <1>6 DEF Ledger!Keeps
<1>13. Ledger!Move(id, gen, m.offset, m.size)
  BY <1>5, <1>8, <1>10, <1>11, <1>12
  DEF Ledger!Move, Ledger!Generations, Ledger!Bytes, Bytes, Ledger!Nobody, NoOne, H, I
<1>14. owner' # owner
  BY <1>3, <1>11 DEF Ledger!Passes, H
<1>. QED  BY <1>3, <1>5, <1>9, <1>13, <1>14 DEF Ledger!Next, Ledger!Bytes, Bytes, Ledger!Generations, H

\* A region replaced by one with the same place and handle changes no owner.
LEMMA SameStep ==
    ASSUME IInv, IInv', NEW r \in Live, NEW m, Live' = (Live \ {r}) \cup {m},
           m.offset = r.offset, m.size = r.size,
           m.alloc_id = r.alloc_id, m.generation = r.generation
    PROVE  owner' = owner
<1>. DEFINE K == Live \ {r}
<1>1. Disjoint(Live) /\ Disjoint(K \cup {m}) /\ m \notin K
  <2>1. Disjoint(Live) /\ Disjoint(K \cup {m})
    BY LiveDisjoint
  <2>2. \A q \in K : q.alloc_id # m.alloc_id
    BY <2>1 DEF Disjoint
  <2>. QED  BY <2>1, <2>2
<1>2. owner = OwnerMap(Live) /\ owner' = OwnerMap(K \cup {m})
  BY OwnerIs
<1>3. \A b \in Bytes : Covers(m, b) <=> Covers(r, b)
  BY DEF Covers, EndOf
<1>4. ASSUME NEW b \in Bytes PROVE owner'[b] = owner[b]
  <2>1. owner[b] = IF Covers(r, b) THEN <<r.alloc_id, r.generation>> ELSE OwnerMap(K)[b]
    BY <1>1, <1>2, OwnedBy
  <2>2. owner'[b] = IF Covers(m, b) THEN <<m.alloc_id, m.generation>> ELSE OwnerMap(K)[b]
    <3>. DEFINE Q == K \cup {m}
    <3>. HIDE DEF K
    <3>1. OwnerMap(Q)[b] = IF Covers(m, b) THEN <<m.alloc_id, m.generation>> ELSE OwnerMap(K)[b]
      BY <1>1, OwnerAdded
    <3>2. owner' = OwnerMap(Q)
      BY <1>2
    <3>. HIDE DEF Q
    <3>. QED  BY <3>1, <3>2
  <2>. QED  BY <1>3, <2>1, <2>2
<1>. QED  BY <1>2, <1>4 DEF OwnerMap

\* allocate grants, free releases, relocate moves.
LEMMA AllocateGrants ==
    ASSUME IInv, NEW id \in AllocIds, NEW bytes \in WordValues, NEW align \in WordValues,
           NEW mov \in Movability, Allocate(id, 1, bytes, align, mov)
    PROVE  Ledger!Next
<1>1. IInv' /\ \E off \in Bytes :
         LET m == LiveRegion(off, align_up(bytes, align), id, 1, align, mov)
         IN  /\ Live' = Live \cup {m} /\ RegionSound(m)
             /\ \A q \in Live : q.alloc_id # id
  BY AllocateStep
<1>2. PICK off \in Bytes :
         LET m == LiveRegion(off, align_up(bytes, align), id, 1, align, mov)
         IN  /\ Live' = Live \cup {m} /\ RegionSound(m)
             /\ \A q \in Live : q.alloc_id # id
  BY <1>1
<1>. DEFINE m == LiveRegion(off, align_up(bytes, align), id, 1, align, mov)
<1>3. m.alloc_id = id /\ m.generation = 1
  BY DEF LiveRegion
<1>4. Live' = Live \cup {m} /\ RegionSound(m) /\ \A q \in Live : q.alloc_id # id
  BY <1>2
<1>. HIDE DEF m
<1>. QED  BY <1>1, <1>3, <1>4, GrantStep

LEMMA FreeReleases ==
    ASSUME IInv, NEW id \in AllocIds, NEW gen, Free(id, gen)
    PROVE  Ledger!Next
  BY FreeStep, ReleaseStep

LEMMA RelocateMoves ==
    ASSUME IInv, NEW id \in AllocIds, NEW gen \in 1 .. MaxGeneration, NEW lo \in 0 .. Capacity,
           NEW n \in WordValues, NEW align \in WordValues, Relocate(id, gen, lo, n, align)
    PROVE  Ledger!Next
<1>1. /\ IInv' /\ \A q \in Live : ~Overlaps(q, lo, lo + n)
      /\ \E r \in Live : LET m == Moved(r, lo, n, align)
                         IN  Live' = (Live \ {r}) \cup {m} /\ RegionSound(m)
  BY RelocateStep
<1>2. PICK r \in Live : LET m == Moved(r, lo, n, align)
                        IN  Live' = (Live \ {r}) \cup {m} /\ RegionSound(m)
  BY <1>1
<1>. DEFINE m == Moved(r, lo, n, align)
<1>3. /\ m.alloc_id = r.alloc_id /\ m.generation = r.generation + 1
      /\ m.offset = lo /\ EndOf(m) = lo + n
  <2>1. r \in RegionType
    BY LiveFacts DEF RegionSound
  <2>. QED  BY <2>1 DEF Moved, RegionType, EndOf
<1>4. Live' = (Live \ {r}) \cup {m} /\ RegionSound(m)
  BY <1>2
<1>. HIDE DEF m
<1>. QED  BY <1>1, <1>3, <1>4, MoveStep

\* Pins and queries change no owner.
LEMMA PinChangesNoHands ==
    ASSUME IInv, NEW id \in AllocIds, NEW gen, Pin(id, gen) \/ Unpin(id, gen)
    PROVE  owner' = owner
<1>1. IInv' /\ \E r \in Live : \/ Live' = (Live \ {r}) \cup {Pinned(r)}
                               \/ Live' = (Live \ {r}) \cup {Unpinned(r)}
  BY PinStep, UnpinStep
<1>2. PICK r \in Live : \/ Live' = (Live \ {r}) \cup {Pinned(r)}
                        \/ Live' = (Live \ {r}) \cup {Unpinned(r)}
  BY <1>1
<1>3. r \in RegionType
  BY LiveFacts DEF RegionSound
<1>4. \A m \in {Pinned(r), Unpinned(r)} :
         /\ m.offset = r.offset /\ m.size = r.size
         /\ m.alloc_id = r.alloc_id /\ m.generation = r.generation
  BY <1>3 DEF Pinned, Unpinned, RegionType
<1>5. PICK m \in {Pinned(r), Unpinned(r)} : Live' = (Live \ {r}) \cup {m}
  BY <1>2
<1>. QED  BY <1>1, <1>4, <1>5, SameStep

LEMMA QueryChangesNoHands ==
    ASSUME IInv, ensure_summary \/ UNCHANGED arena
    PROVE  owner' = owner
<1>1. Live' = Live
  BY SummaryStep, UnchangedStep
<1>. QED  BY <1>1, OwnerIs

\* In an empty arena nobody owns anything.
LEMMA LedgerBegins == ArenaInit => Ledger!Init
<1>. SUFFICES ASSUME ArenaInit PROVE Ledger!Init
  OBVIOUS
<1>1. Live = {}
  BY DEF ArenaInit, Live, FreeRegion
<1>. QED  BY <1>1 DEF owner, Ledger!Init, Ledger!Bytes, Bytes, Ledger!Nobody, NoOne

-----------------------------------------------------------------------------
(***************************************************************************)
(* The arena implements the byte ledger (ImplementsLedger): whatever       *)
(* allocate, free, relocate, pin and unpin do to the layout, each call     *)
(* grants vacant bytes, releases all bytes of a current handle, moves an   *)
(* allocation as a whole to vacant bytes under its next generation, or     *)
(* leaves every owner alone.                                               *)
(***************************************************************************)
THEOREM ArenaImplementsLedger == ArenaSpec => ImplementsLedger
<1>1. IInv /\ [ArenaNext]_arena => [Ledger!Next]_owner
  <2>. SUFFICES ASSUME IInv, [ArenaNext]_arena
                PROVE  Ledger!Next \/ owner' = owner
    OBVIOUS
  <2>1. ASSUME NEW id \in AllocIds, NEW bytes \in RequestBytes, NEW align \in Alignments,
               NEW mov \in Movabilities, Allocate(id, 1, bytes, align, mov)
        PROVE  Ledger!Next
    <3>1. bytes \in WordValues /\ align \in WordValues /\ mov \in Movability
      BY RequestAssumption DEF WordValues
    <3>. QED  BY <2>1, <3>1, AllocateGrants
  <2>2. ASSUME NEW id \in AllocIds, NEW gen \in 1 .. MaxGeneration, Free(id, gen)
        PROVE  Ledger!Next
    BY <2>2, FreeReleases
  <2>3. ASSUME NEW id \in AllocIds, NEW gen \in 1 .. MaxGeneration, NEW lo \in 0 .. Capacity,
               NEW n \in RequestBytes, NEW align \in Alignments, Relocate(id, gen, lo, n, align)
        PROVE  Ledger!Next
    <3>1. n \in WordValues /\ align \in WordValues
      BY RequestAssumption DEF WordValues
    <3>. QED  BY <2>3, <3>1, RelocateMoves
  <2>4. ASSUME NEW id \in AllocIds, NEW gen \in 1 .. MaxGeneration,
               Pin(id, gen) \/ Unpin(id, gen)
        PROVE  owner' = owner
    BY <2>4, PinChangesNoHands
  <2>5. ASSUME ensure_summary \/ UNCHANGED arena
        PROVE  owner' = owner
    BY <2>5, QueryChangesNoHands
  <2>. QED  BY <2>1, <2>2, <2>3, <2>4, <2>5 DEF ArenaNext
<1>. QED  BY <1>1, LedgerBegins, ArenaInvariant, PTL DEF ArenaSpec, ImplementsLedger, Ledger!Spec

-----------------------------------------------------------------------------
(* No false refusals. *)

\* allocate() skips no further than the first aligned byte of a slot.
LEMMA FrontReaches ==
    ASSUME NEW s, s.offset \in Bytes, NEW align \in Nat \ {0}, NEW lo \in Bytes,
           lo % align = 0, s.offset <= lo, lo + align < WordSize
    PROVE  Front(s, align) \in Nat /\ s.offset + Front(s, align) <= lo
<1>. DEFINE o == s.offset
            x == o + (align - 1)
            y == x - (x % align)
<1>1. o \in Nat /\ WordSize \in Nat \ {0} /\ x \in Nat /\ x < WordSize /\ o <= x /\ lo \in Nat
  BY WordAssumption, CapacityAssumption DEF Bytes
<1>2. x % WordSize = x
  BY <1>1, WordMod
<1>3. align_up(o, align) = y
  BY <1>1, <1>2 DEF align_up
<1>4. y \in Nat /\ y % align = 0 /\ y <= x /\ x < y + align
  BY <1>1, RoundDown
<1>. HIDE DEF y
<1>5. y <= lo
  <2>1. y < lo + align
    BY <1>1, <1>4
  <2>. HIDE DEF x
  <2>. QED  BY <1>1, <1>4, <2>1, MultiplesOrdered
<1>6. y - o \in Nat /\ y - o < WordSize
  BY <1>1, <1>4
<1>7. Front(s, align) = (y - o) % WordSize
  BY <1>3 DEF Front
<1>8. Front(s, align) = y - o
  BY <1>1, <1>6, <1>7, WordMod
<1>. QED  BY <1>1, <1>4, <1>5, <1>6, <1>8

\* A run of bytes that no live region touches lies inside one free region.
LEMMA RunInOneRegion ==
    ASSUME IInv, NEW lo \in Bytes, NEW n \in 1 .. Capacity, lo + n <= Capacity,
           \A r \in Live : ~Overlaps(r, lo, lo + n)
    PROVE  \E f \in FreeRegions : f.offset <= lo /\ lo + n <= EndOf(f)
<1>1. \A r \in regions : /\ r.offset \in Bytes /\ r.size \in 1 .. Capacity
                         /\ EndOf(r) = r.offset + r.size /\ EndOf(r) <= Capacity
  BY DEF IInv, TypeOK, RegionType, EndOf
<1>2. PICK f \in regions : Covers(f, lo)
  BY DEF IInv, Tiling, Covered
<1>3. \A r \in regions : Overlaps(r, lo, lo + n) => r \in FreeRegions
  BY DEF Live, FreeRegions
<1>4. f \in FreeRegions /\ f.offset <= lo /\ lo < EndOf(f)
  BY <1>1, <1>2, <1>3, CapacityAssumption DEF Covers, Overlaps, Bytes
<1>5. lo + n <= EndOf(f)
  <2>. SUFFICES ASSUME EndOf(f) < lo + n PROVE FALSE
    BY <1>1, CapacityAssumption DEF Bytes
  <2>1. EndOf(f) \in Bytes
    BY <1>1, <1>4, CapacityAssumption DEF Bytes
  <2>2. PICK g \in regions : Covers(g, EndOf(f))
    BY <2>1 DEF IInv, Tiling, Covered
  <2>3. g # f
    BY <1>1, <2>2, CapacityAssumption DEF Covers, Bytes
  <2>4. EndOf(g) <= f.offset \/ EndOf(f) <= g.offset
    BY <2>3 DEF IInv, Tiling, NoOverlap
  <2>5. g.offset = EndOf(f)
    BY <1>1, <2>2, <2>4, CapacityAssumption DEF Covers, Bytes
  <2>6. Overlaps(g, lo, lo + n)
    BY <1>1, <1>4, <2>5, CapacityAssumption DEF Overlaps, Bytes
  <2>7. g \in FreeRegions
    BY <1>3, <2>6
  <2>. QED  BY <1>4, <2>5, <2>7 DEF IInv, Coalesced
<1>. QED  BY <1>4, <1>5

(***************************************************************************)
(* allocate() never runs out of memory that is there (NoFalseOOM): if an   *)
(* aligned run of the rounded size is free of live regions, some slot of   *)
(* the size index fits. It takes the merged free regions, the exact size   *)
(* index and the rounding of align_up() together.                          *)
(***************************************************************************)
THEOREM NoFalseRefusal == ArenaSpec => []NoFalseOOM
<1>1. IInv => NoFalseOOM
  <2>. SUFFICES ASSUME IInv, NEW bytes \in RequestBytes, NEW align \in Alignments,
                       ValidRequest(bytes, align),
                       NEW lo \in 0 .. Capacity - align_up(bytes, align), lo % align = 0,
                       \A r \in Live : ~Overlaps(r, lo, lo + align_up(bytes, align))
                PROVE  CanAllocate(bytes, align)
    BY DEF NoFalseOOM
  <2>. DEFINE need == align_up(bytes, align)
  <2>1. bytes \in WordValues /\ align \in WordValues
    BY RequestAssumption DEF WordValues
  <2>2. align \in Nat \ {0} /\ need \in 1 .. Capacity /\ align <= need
    BY <2>1, RoundedSize
  <2>. HIDE DEF need
  <2>3. lo \in Bytes /\ lo + need <= Capacity /\ lo + align < WordSize
    BY <2>2, CapacityAssumption, WordAssumption DEF Bytes, need
  <2>4. PICK f \in FreeRegions : f.offset <= lo /\ lo + need <= EndOf(f)
    BY <2>2, <2>3, RunInOneRegion DEF need
  <2>5. /\ f.offset \in Bytes /\ f.size \in 1 .. Capacity /\ EndOf(f) = f.offset + f.size
    BY DEF IInv, TypeOK, RegionType, EndOf, FreeRegions
  <2>. DEFINE s == Slot(f.offset, f.size)
  <2>6. s \in free_slots
    BY DEF IInv, FreeIndexExact
  <2>7. s.offset = f.offset /\ s.size = f.size
    BY DEF Slot
  <2>. HIDE DEF s
  <2>8. Front(s, align) \in Nat /\ s.offset + Front(s, align) <= lo
    BY <2>2, <2>3, <2>4, <2>5, <2>7, FrontReaches
  <2>9. Fits(s, need, align)
    BY <2>2, <2>3, <2>4, <2>5, <2>7, <2>8 DEF Fits, Bytes
  <2>. QED  BY <2>6, <2>9 DEF CanAllocate, FitSlots, need
<1>. QED  BY <1>1, ArenaInvariant, PTL
==============================================================================
