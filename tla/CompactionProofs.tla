--------------------------- MODULE CompactionProofs ---------------------------
(***************************************************************************)
(* Proofs about GovernorPins and Compaction: clients that pin, a compactor *)
(* whose plan, copy and relocation are three calls, and a reclaimer whose  *)
(* choice and releases are separate calls, in every interleaving and for   *)
(* every arena, set of ids and set of requests.                            *)
(***************************************************************************)
EXTENDS Compaction, GovernorProofs

-----------------------------------------------------------------------------
(* The inductive invariants. *)

\* No request asks for its pin itself (run RequestedPin shows what happens
\* when one does).
PinsExplicit == \A req \in Requests : ~req.requires_pin

\* Arena, record and clients count the same pins on every allocation.
PinsExact ==
    /\ pins_held \in [AllocIds -> Nat]
    /\ \A id \in AllocIds : pins_held[id] = records[id].pin_count
    /\ \A r \in Live : r.pin_count = records[r.alloc_id].pin_count

(* A plan under way is about an allocation that was granted before it. As  *)
(* long as the handle in the plan is good, what the plan says of the place *)
(* is true: only a relocation changes it, and that changes the generation. *)
PlanTrue ==
    /\ stage \in {"idle", "planned", "copied"}
    /\ stage # "idle" =>
          /\ plan.id \in AllocIds /\ plan.id < next_alloc_id
          /\ plan.generation \in 1 .. MaxGeneration /\ plan.new_offset \in Nat
          /\ Holds(plan.id, plan.generation) =>
                /\ records[plan.id].offset = plan.old_offset
                /\ records[plan.id].region_size = plan.size

\* What no call changes in the record of an allocation that is current.
Consents(rec) ==
    /\ rec.reclaimability \notin {"NEVER_RECLAIM", "UNKNOWN"}
    /\ requires_backing(rec.reclaimability) => rec.backing_ref # "none"
    /\ rec.pin_count = 0 => rec.movability = "MOVABLE"

\* A candidate stays a candidate until it is released, but for pins.
VictimsConsent ==
    \A id \in victims : /\ id \in AllocIds /\ id < next_alloc_id
                        /\ id \in Current => Consents(records[id])

BInv == GInv /\ PlanTrue /\ VictimsConsent

(* With clients that leave a compaction under way alone: its target is in  *)
(* bounds and no allocation's, and once the bytes are copied it holds what *)
(* the allocation holds.                                                   *)
TargetClear ==
    stage # "idle" =>
        /\ plan.old_offset \in Nat /\ plan.size \in Nat
        /\ plan.old_offset + plan.size <= Capacity /\ plan.new_offset + plan.size <= Capacity
        /\ \A id \in Current, b \in Bytes :
              b \in SpanOf(id) => b \notin Span(plan.new_offset, plan.size)

CopyMade ==
    stage = "copied" /\ Holds(plan.id, plan.generation) /\ plan.id \in written =>
        \A b \in Bytes : b \in Span(plan.new_offset, plan.size) => content[b] = plan.id

KInv == written \subseteq Current /\ TargetClear /\ CopyMade /\ ContentsKept

-----------------------------------------------------------------------------
(* Records, spans and their primes. *)

\* Two current allocations share no byte, and both lie in the arena.
LEMMA SpanFacts ==
    ASSUME GInv
    PROVE  /\ \A id \in Current :
                 /\ records[id].offset \in Nat /\ records[id].region_size \in Nat
                 /\ records[id].offset + records[id].region_size <= Capacity
                 /\ SpanOf(id) \subseteq Bytes
           /\ \A i, j \in Current : i # j => \A b \in SpanOf(i) : b \notin SpanOf(j)
<1>1. ASSUME NEW id \in Current
      PROVE  \E r \in Live : /\ r.alloc_id = id
                             /\ records[id].offset = r.offset /\ records[id].region_size = r.size
                             /\ r.offset \in Nat /\ r.size \in Nat /\ r.offset + r.size <= Capacity
                             /\ EndOf(r) = r.offset + r.size
  <2>1. PICK r \in Live : r.alloc_id = id /\ Mirrors(records[id], r) /\ RegionSound(r)
    BY Counterpart
  <2>2. r.offset \in Nat /\ r.size \in Nat /\ r.offset + r.size <= Capacity
    BY <2>1, CapacityAssumption DEF RegionSound, RegionType, EndOf, Bytes
  <2>. QED  BY <2>1, <2>2 DEF Mirrors, EndOf
<1>2. ASSUME NEW id \in Current
      PROVE  /\ records[id].offset \in Nat /\ records[id].region_size \in Nat
             /\ records[id].offset + records[id].region_size <= Capacity
             /\ SpanOf(id) \subseteq Bytes
  BY <1>1, CapacityAssumption DEF SpanOf, Span, Bytes
<1>3. ASSUME NEW i \in Current, NEW j \in Current, i # j, NEW b \in SpanOf(i), b \in SpanOf(j)
      PROVE  FALSE
  <2>1. PICK p \in Live : /\ p.alloc_id = i
                          /\ records[i].offset = p.offset /\ records[i].region_size = p.size
                          /\ p.offset \in Nat /\ p.size \in Nat /\ EndOf(p) = p.offset + p.size
    BY <1>1
  <2>2. PICK q \in Live : /\ q.alloc_id = j
                          /\ records[j].offset = q.offset /\ records[j].region_size = q.size
                          /\ q.offset \in Nat /\ q.size \in Nat /\ EndOf(q) = q.offset + q.size
    BY <1>1
  <2>3. p # q
    BY <1>3, <2>1, <2>2
  <2>4. Apart(p, q)
    BY <2>3, LiveFacts DEF GInv
  <2>. QED  BY <1>3, <2>1, <2>2, <2>4 DEF Apart, SpanOf, Span
<1>. QED  BY <1>2, <1>3

\* After a step that keeps the governor's invariant.
LEMMA NextFacts ==
    GInv' =>
        /\ \A r \in Live' : r.alloc_id \in Current' /\ Mirrors(records'[r.alloc_id], r)
        /\ records' \in [AllocIds -> RecordType]
        /\ \A id \in Current' : id < next_alloc_id'
        /\ \A id \in Current' :
              /\ records'[id].offset \in Nat /\ records'[id].region_size \in Nat
              /\ records'[id].offset + records'[id].region_size <= Capacity
<1>1. GInv => /\ \A r \in Live : r.alloc_id \in Current /\ Mirrors(records[r.alloc_id], r)
              /\ records \in [AllocIds -> RecordType]
              /\ \A id \in Current : id < next_alloc_id
              /\ \A id \in Current :
                    /\ records[id].offset \in Nat /\ records[id].region_size \in Nat
                    /\ records[id].offset + records[id].region_size <= Capacity
  <2>1. GInv => \A r \in Live : r.alloc_id \in Current /\ Mirrors(records[r.alloc_id], r)
    BY Counterpart
  <2>2. GInv => \A id \in Current : id < next_alloc_id
    BY DEF GInv, IdsFresh
  <2>3. GInv => records \in [AllocIds -> RecordType]
    BY DEF GInv, GovernorTypeOK
  <2>. QED  BY <2>1, <2>2, <2>3, SpanFacts
<1>2. GInv' => (/\ \A r \in Live : r.alloc_id \in Current /\ Mirrors(records[r.alloc_id], r)
                /\ records \in [AllocIds -> RecordType]
                /\ \A id \in Current : id < next_alloc_id
                /\ \A id \in Current :
                      /\ records[id].offset \in Nat /\ records[id].region_size \in Nat
                      /\ records[id].offset + records[id].region_size <= Capacity)'
  BY <1>1, PTL
<1>. HAVE GInv'
<1>3. /\ records' \in [AllocIds -> RecordType]
      /\ \A id \in Current' : id < next_alloc_id'
      /\ \A id \in Current' :
            /\ records'[id].offset \in Nat /\ records'[id].region_size \in Nat
            /\ records'[id].offset + records'[id].region_size <= Capacity
  BY <1>2
<1>4. \A r \in Live' : r.alloc_id \in Current' /\ Mirrors(records'[r.alloc_id], r)
  BY <1>2, Zenon DEF Mirrors
<1>. QED  BY <1>3, <1>4

\* What the invariant says of ids.
LEMMA IdFacts ==
    ASSUME GInv
    PROVE  /\ next_alloc_id \in Nat /\ AllocIds \subseteq Nat /\ next_alloc_id \notin Current
           /\ \A id \in AllocIds : id \notin Current => records[id] = NoRecord
           /\ \A id \in Current : id \in AllocIds /\ id < next_alloc_id
           /\ records \in [AllocIds -> RecordType]
<1>1. next_alloc_id \in Nat /\ records \in [AllocIds -> RecordType]
  BY DEF GInv, GovernorTypeOK
<1>2. \A id \in Current : id \in AllocIds /\ id < next_alloc_id
  BY DEF GInv, IdsFresh, Current
<1>. QED  BY <1>1, <1>2, GovernorIdAssumption DEF Current

-----------------------------------------------------------------------------
(* What the calls of clients and of the reclaimer do to records. *)

(* No allocation that was granted before moves or changes its handle, and  *)
(* none comes back.                                                        *)
Steady ==
    \A j \in AllocIds : j < next_alloc_id /\ j \in Current' =>
        /\ j \in Current
        /\ records'[j].generation = records[j].generation
        /\ records'[j].offset = records[j].offset
        /\ records'[j].region_size = records[j].region_size
        /\ Consents(records[j]) => Consents(records'[j])

\* A request adds at most the record of the id it consumes.
LEMMA RequestSteady ==
    ASSUME GInv, NEW req \in Requests, request_locked(req)
    PROVE  /\ GInv' /\ Steady /\ next_alloc_id' = next_alloc_id + 1
           /\ Current \subseteq Current' /\ Current' \subseteq Current \cup {next_alloc_id}
           /\ \A j \in Current : records'[j] = records[j]
<1>1. /\ next_alloc_id' = next_alloc_id + 1 /\ next_alloc_id \in AllocIds
      /\ Granted(next_alloc_id, req) \/ Refused(req)
  BY DEF request_locked, ConsumeId
<1>2. /\ next_alloc_id \in Nat /\ AllocIds \subseteq Nat /\ next_alloc_id \notin Current
      /\ \A id \in Current : id \in AllocIds /\ id < next_alloc_id
      /\ records \in [AllocIds -> RecordType]
  BY IdFacts
<1>3. CASE Granted(next_alloc_id, req)
  <2>1. /\ GInv' /\ Current' = Current \cup {next_alloc_id}
        /\ \E off \in Bytes : records' = [records EXCEPT ![next_alloc_id] = NewRecord(req, off)]
    BY <1>3, GrantedStep
  <2>2. \A j \in AllocIds : j # next_alloc_id => records'[j] = records[j]
    BY <1>2, <2>1
  <2>. QED  BY <1>1, <1>2, <2>1, <2>2 DEF Steady
<1>4. CASE Refused(req)
  <2>1. GInv' /\ records' = records /\ Current' = Current
    BY <1>4, RefusedStep
  <2>. QED  BY <1>1, <1>2, <2>1 DEF Steady
<1>. QED  BY <1>1, <1>3, <1>4

\* A pin moves nothing, renames nothing and withdraws no consent.
LEMMA PinSteady ==
    ASSUME GInv, NEW id \in AllocIds, NEW gen \in 1 .. MaxGeneration, pin_locked(id, gen)
    PROVE  GInv' /\ Steady /\ next_alloc_id' = next_alloc_id /\ Current' = Current
<1>1. /\ GInv' /\ Current' = Current /\ id \in Current
      /\ \E r \in Live :
            /\ r.pin_count \in Nat
            /\ records' = [records EXCEPT ![id] = PinCopy(@, Pinned(r))]
            /\ Pinned(r).pin_count = r.pin_count + 1
  BY PinLockedStep
<1>. PICK r \in Live : /\ r.pin_count \in Nat
                       /\ records' = [records EXCEPT ![id] = PinCopy(@, Pinned(r))]
                       /\ Pinned(r).pin_count = r.pin_count + 1
  BY <1>1
<1>. DEFINE m == Pinned(r)
<1>2. /\ records' = [records EXCEPT ![id] = PinCopy(@, m)]
      /\ m.pin_count \in Nat /\ m.pin_count > 0
  OBVIOUS
<1>. HIDE DEF m
<1>3. records \in [AllocIds -> RecordType]
  BY IdFacts
<1>4. /\ \A j \in AllocIds : j # id => records'[j] = records[j]
      /\ records'[id] = PinCopy(records[id], m) /\ records[id] \in RecordType
  BY <1>2, <1>3
<1>5. /\ PinCopy(records[id], m).generation = records[id].generation
      /\ PinCopy(records[id], m).offset = records[id].offset
      /\ PinCopy(records[id], m).region_size = records[id].region_size
      /\ PinCopy(records[id], m).reclaimability = records[id].reclaimability
      /\ PinCopy(records[id], m).pin_count = m.pin_count
  BY <1>4 DEF PinCopy, RecordType
<1>6. PinCopy(records[id], m).backing_ref = records[id].backing_ref
  BY <1>4 DEF PinCopy, RecordType
<1>7. Consents(records[id]) => Consents(records'[id])
  BY <1>2, <1>4, <1>5, <1>6 DEF Consents
<1>8. next_alloc_id' = next_alloc_id
  BY DEF pin_locked
<1>. QED  BY <1>1, <1>4, <1>5, <1>7, <1>8 DEF Steady

\* Nor does an unpin.
LEMMA UnpinSteady ==
    ASSUME GInv, NEW id \in AllocIds, NEW gen \in 1 .. MaxGeneration, unpin_locked(id, gen)
    PROVE  GInv' /\ Steady /\ next_alloc_id' = next_alloc_id /\ Current' = Current
<1>1. /\ GInv' /\ Current' = Current /\ id \in Current
      /\ \E r \in Live :
            /\ r.pin_count \in Nat \ {0}
            /\ records' = [records EXCEPT ![id] = UnpinCopy(@, Unpinned(r))]
            /\ Unpinned(r).pin_count = r.pin_count - 1
            /\ r.pin_count = 1 => Unpinned(r).movability = "MOVABLE"
  BY UnpinLockedStep
<1>. PICK r \in Live : /\ r.pin_count \in Nat \ {0}
                       /\ records' = [records EXCEPT ![id] = UnpinCopy(@, Unpinned(r))]
                       /\ Unpinned(r).pin_count = r.pin_count - 1
                       /\ r.pin_count = 1 => Unpinned(r).movability = "MOVABLE"
  BY <1>1
<1>. DEFINE m == Unpinned(r)
<1>2. /\ records' = [records EXCEPT ![id] = UnpinCopy(@, m)]
      /\ m.pin_count = 0 => m.movability = "MOVABLE"
  OBVIOUS
<1>. HIDE DEF m
<1>3. records \in [AllocIds -> RecordType]
  BY IdFacts
<1>4. /\ \A j \in AllocIds : j # id => records'[j] = records[j]
      /\ records'[id] = UnpinCopy(records[id], m) /\ records[id] \in RecordType
  BY <1>2, <1>3
<1>5. /\ UnpinCopy(records[id], m).generation = records[id].generation
      /\ UnpinCopy(records[id], m).offset = records[id].offset
      /\ UnpinCopy(records[id], m).region_size = records[id].region_size
      /\ UnpinCopy(records[id], m).reclaimability = records[id].reclaimability
      /\ UnpinCopy(records[id], m).pin_count = m.pin_count
      /\ UnpinCopy(records[id], m).movability = m.movability
  BY <1>4 DEF UnpinCopy, RecordType
<1>6. UnpinCopy(records[id], m).backing_ref = records[id].backing_ref
  BY <1>4 DEF UnpinCopy, RecordType
<1>7. Consents(records[id]) => Consents(records'[id])
  BY <1>2, <1>4, <1>5, <1>6 DEF Consents
<1>8. next_alloc_id' = next_alloc_id
  BY DEF unpin_locked
<1>. QED  BY <1>1, <1>4, <1>5, <1>7, <1>8 DEF Steady

\* A release takes one record away and leaves the others as they are.
LEMMA ReleaseSteady ==
    ASSUME GInv, NEW id \in AllocIds, NEW gen \in 1 .. MaxGeneration,
           release_locked(id, gen, Unset, Unset)
    PROVE  /\ GInv' /\ Steady /\ next_alloc_id' = next_alloc_id /\ Current' = Current \ {id}
           /\ id \in Current /\ Unheld(id)
           /\ \A j \in Current' : records'[j] = records[j]
<1>1. /\ GInv' /\ records' = [records EXCEPT ![id] = NoRecord]
      /\ Current' = Current \ {id} /\ id \in Current /\ Unheld(id)
  BY ReleaseLockedStep
<1>2. records \in [AllocIds -> RecordType] /\ \A j \in Current : j \in AllocIds
  BY IdFacts
<1>3. \A j \in AllocIds : j # id => records'[j] = records[j]
  BY <1>1, <1>2
<1>4. next_alloc_id' = next_alloc_id
  BY DEF release_locked
<1>. QED  BY <1>1, <1>2, <1>3, <1>4 DEF Steady

\* A query, or nothing at all.
LEMMA QuerySteady ==
    ASSUME GInv, initialize \/ summary_locked \/ plan_query \/ UNCHANGED governor
    PROVE  /\ GInv' /\ Steady /\ next_alloc_id' = next_alloc_id /\ Current' = Current
           /\ records' = records /\ Live' = Live
<1>1. GInv' /\ records' = records /\ Current' = Current /\ Live' = Live
  BY QueryStep
<1>2. next_alloc_id' = next_alloc_id
  BY DEF initialize, summary_locked, plan_query, governor
<1>. QED  BY <1>1, <1>2 DEF Steady

-----------------------------------------------------------------------------
(* Plans and candidates stay true through everybody's calls. *)

\* The compactor gives its plan up, keeps it, or goes on to the copy.
PlanKept ==
    \/ stage' = "idle"
    \/ stage' \in {stage, "copied"} /\ stage # "idle" /\ plan' = plan

\* Calls that leave records steady, beside a compactor that keeps its plan.
LEMMA BooksSteady ==
    ASSUME BInv, GInv', Steady, next_alloc_id' \in Nat, next_alloc_id <= next_alloc_id',
           PlanKept, victims' \subseteq victims
    PROVE  BInv'
<1>1. next_alloc_id \in Nat /\ AllocIds \subseteq Nat
  BY IdFacts DEF BInv
<1>2. PlanTrue'
  <2>. SUFFICES ASSUME stage' # "idle"
                PROVE  PlanTrue'
    BY DEF PlanTrue
  <2>1. plan' = plan /\ stage # "idle" /\ stage' \in {"planned", "copied"}
    BY DEF PlanKept, BInv, PlanTrue
  <2>2. /\ plan.id \in AllocIds /\ plan.id < next_alloc_id
        /\ plan.generation \in 1 .. MaxGeneration /\ plan.new_offset \in Nat
        /\ Holds(plan.id, plan.generation) =>
              /\ records[plan.id].offset = plan.old_offset
              /\ records[plan.id].region_size = plan.size
    BY <2>1 DEF BInv, PlanTrue
  <2>3. plan.id < next_alloc_id'
    <3>1. plan.id \in Nat /\ plan.id < next_alloc_id
      BY <1>1, <2>2
    <3>. QED  BY <1>1, <3>1
  <2>4. ASSUME plan.id \in Current', records'[plan.id].generation = plan.generation
        PROVE  /\ records'[plan.id].offset = plan.old_offset
               /\ records'[plan.id].region_size = plan.size
    <3>1. Holds(plan.id, plan.generation)
      BY <2>2, <2>4 DEF Steady, Holds
    <3>. QED  BY <2>2, <2>4, <3>1 DEF Steady
  <2>. QED  BY <2>1, <2>2, <2>3, <2>4 DEF PlanTrue, Holds
<1>3. VictimsConsent'
  <2>. SUFFICES ASSUME NEW id \in victims
                PROVE  /\ id \in AllocIds /\ id < next_alloc_id'
                       /\ id \in Current' => Consents(records'[id])
    BY DEF VictimsConsent, Consents
  <2>1. id \in AllocIds /\ id < next_alloc_id /\ (id \in Current => Consents(records[id]))
    BY DEF BInv, VictimsConsent
  <2>2. id < next_alloc_id'
    BY <1>1, <2>1
  <2>3. id \in Current' => Consents(records'[id])
    BY <2>1 DEF Steady
  <2>. QED  BY <2>1, <2>2, <2>3
<1>. QED  BY <1>2, <1>3 DEF BInv

\* A step of a caller that calls the governor for nothing, or for a query.
LEMMA IdleSteady ==
    ASSUME BInv, initialize \/ summary_locked \/ plan_query \/ UNCHANGED governor,
           PlanKept, victims' \subseteq victims
    PROVE  BInv'
<1>1. GInv' /\ Steady /\ next_alloc_id' = next_alloc_id
  BY QuerySteady DEF BInv
<1>2. next_alloc_id \in Nat
  BY IdFacts DEF BInv
<1>. QED  BY <1>1, <1>2, BooksSteady

\* The compactor's plan is unchanged.
LEMMA SamePlan ==
    ASSUME BInv, stage' = stage, plan' = plan
    PROVE  PlanKept
  BY DEF PlanKept

-----------------------------------------------------------------------------
(* The steps of the compactor. *)

\* align_up() of naturals is a natural number, wrapped or not.
LEMMA AlignUpNat ==
    ASSUME NEW v \in Nat, NEW align \in Nat \ {0}
    PROVE  align_up(v, align) \in Nat
<1>. DEFINE r == (v + (align - 1)) % WordSize
            y == r - (r % align)
<1>1. WordSize \in Nat \ {0} /\ v + (align - 1) \in Nat
  BY WordAssumption, CapacityAssumption
<1>2. r \in Nat
  BY <1>1
<1>3. align_up(v, align) = IF r < v THEN 0 ELSE y
  BY DEF align_up
<1>. HIDE DEF r
<1>4. y \in Nat
  BY <1>2, RoundDown
<1>. QED  BY <1>3, <1>4

\* Reading the summary before planning.
LEMMA SummaryRead ==
    ASSUME ReadSummary,
           UNCHANGED <<records, retired, next_alloc_id, history_count, initialized, counters,
                       pressure>>
    PROVE  plan_query \/ UNCHANGED governor
  BY DEF ReadSummary, plan_query, governor

\* What the compactor writes down, of the move it has chosen.
LEMMA PlanMade ==
    ASSUME GInv, PlanMove
    PROVE  \E m \in Live, f \in FreeRegions :
              /\ MayMove(m) /\ Target(m, f)
              /\ plan'.id = m.alloc_id /\ plan'.generation = m.generation
              /\ plan'.old_offset = m.offset /\ plan'.size = m.size
              /\ plan'.new_offset = NewOffset(m, f)
              /\ plan'.before = LargestFree
              /\ plan'.after = PredictedLargest(m, f, LargestFree)
              /\ m.generation \in 1 .. MaxGeneration
              /\ NewOffset(m, f) \in Nat
<1>1. PICK x \in plan_compaction :
         /\ x[1].generation < MaxGeneration
         /\ plan' = [id |-> x[1].alloc_id, generation |-> x[1].generation,
                     old_offset |-> x[1].offset, new_offset |-> NewOffset(x[1], x[2]),
                     size |-> x[1].size, before |-> LargestFree,
                     after |-> PredictedLargest(x[1], x[2], LargestFree)]
  BY DEF PlanMove
<1>2. x[1] \in Live /\ x[2] \in FreeRegions /\ MayMove(x[1]) /\ Target(x[1], x[2])
  BY <1>1 DEF plan_compaction, Moves
<1>3. /\ x[1].generation \in 1 .. MaxGeneration /\ x[1].alignment \in Nat \ {0}
  BY <1>2, LiveFacts, BoundAssumption DEF GInv, RegionSound, RegionType
<1>4. x[2].offset \in Nat
  BY <1>2 DEF GInv, IInv, TypeOK, RegionType, FreeRegions, Bytes
<1>5. NewOffset(x[1], x[2]) \in Nat
  BY <1>3, <1>4, AlignUpNat DEF NewOffset
<1>. QED  BY <1>1, <1>2, <1>3, <1>5

\* Planning: the step names a record as it is now.
LEMMA PlanMoveStep ==
    ASSUME BInv, PlanMove
    PROVE  BInv'
<1>1. /\ ReadSummary /\ records' = records /\ next_alloc_id' = next_alloc_id
      /\ UNCHANGED <<records, retired, next_alloc_id, history_count, initialized, counters,
                     pressure>>
      /\ stage' = "planned" /\ victims' = victims
  BY DEF PlanMove
<1>2. plan_query \/ UNCHANGED governor
  BY <1>1, SummaryRead
<1>3. GInv' /\ Current' = Current
  BY <1>2, QuerySteady DEF BInv
<1>4. PICK m \in Live, f \in FreeRegions :
         /\ plan'.id = m.alloc_id /\ plan'.generation = m.generation
         /\ plan'.old_offset = m.offset /\ plan'.size = m.size
         /\ plan'.new_offset = NewOffset(m, f)
         /\ m.generation \in 1 .. MaxGeneration
         /\ NewOffset(m, f) \in Nat
  BY PlanMade DEF BInv
<1>5. /\ m.alloc_id \in Current /\ m.alloc_id \in AllocIds /\ m.alloc_id < next_alloc_id
      /\ records[m.alloc_id].offset = m.offset /\ records[m.alloc_id].region_size = m.size
  BY Counterpart, IdFacts DEF BInv, Mirrors
<1>6. PlanTrue'
  BY <1>1, <1>4, <1>5 DEF PlanTrue, Holds
<1>7. VictimsConsent'
  BY <1>1, <1>3 DEF BInv, VictimsConsent
<1>. QED  BY <1>3, <1>6, <1>7 DEF BInv

\* What applying a relocation does: the plan was true of the allocation.
LEMMA Applied ==
    ASSUME BInv, stage = "copied",
           apply_relocation(plan.id, plan.generation, plan.new_offset, plan.size)
    PROVE  /\ GInv' /\ Current' = Current /\ plan.id \in Current /\ Unheld(plan.id)
           /\ records[plan.id].generation = plan.generation
           /\ records[plan.id].offset = plan.old_offset
           /\ records[plan.id].region_size = plan.size
           /\ records' = [records EXCEPT ![plan.id] = MovedRecord(@, plan.new_offset, plan.size)]
           /\ OthersKept(plan.id) /\ next_alloc_id' = next_alloc_id
<1>1. /\ plan.id \in AllocIds /\ plan.generation \in 1 .. MaxGeneration
      /\ plan.new_offset \in Nat
      /\ Holds(plan.id, plan.generation) =>
            /\ records[plan.id].offset = plan.old_offset
            /\ records[plan.id].region_size = plan.size
  BY DEF BInv, PlanTrue
<1>2. /\ Holds(plan.id, plan.generation) /\ next_alloc_id' = next_alloc_id
      /\ Relocate(plan.id, plan.generation, plan.new_offset, plan.size,
                  records[plan.id].alignment)
  BY DEF apply_relocation
<1>3. plan.new_offset <= Capacity
  BY <1>2 DEF Relocate, ValidTarget
<1>4. plan.new_offset \in 0 .. Capacity /\ plan.size \in RelocationBytes \cup {records[plan.id].region_size}
  BY <1>1, <1>2, <1>3, CapacityAssumption
<1>5. /\ GInv' /\ Current' = Current /\ plan.id \in Current /\ Unheld(plan.id)
      /\ records' = [records EXCEPT ![plan.id] = MovedRecord(@, plan.new_offset, plan.size)]
      /\ OthersKept(plan.id) /\ records[plan.id].generation = plan.generation
  BY <1>1, <1>4, RelocationStep DEF BInv
<1>. QED  BY <1>1, <1>2, <1>5

\* Applying a plan keeps the books, whether it is still valid or is refused.
LEMMA ApplyMoveStep ==
    ASSUME BInv, ApplyMove
    PROVE  BInv'
<1>1. stage = "copied" /\ stage' = "idle" /\ victims' = victims
  BY DEF ApplyMove
<1>2. CASE UNCHANGED governor
  BY <1>1, <1>2, IdleSteady DEF PlanKept
<1>3. CASE apply_relocation(plan.id, plan.generation, plan.new_offset, plan.size)
  <2>1. /\ GInv' /\ Current' = Current /\ plan.id \in Current /\ next_alloc_id' = next_alloc_id
        /\ records' = [records EXCEPT ![plan.id] = MovedRecord(@, plan.new_offset, plan.size)]
    BY <1>1, <1>3, Applied
  <2>2. records \in [AllocIds -> RecordType] /\ plan.id \in AllocIds
    BY <2>1, IdFacts DEF BInv
  <2>. DEFINE rec == records[plan.id]
              new == MovedRecord(rec, plan.new_offset, plan.size)
  <2>3. /\ records'[plan.id] = new /\ rec \in RecordType
        /\ \A j \in AllocIds : j # plan.id => records'[j] = records[j]
    BY <2>1, <2>2
  <2>4. /\ new.reclaimability = rec.reclaimability /\ new.movability = rec.movability
        /\ new.pin_count = rec.pin_count
    BY <2>3 DEF MovedRecord, RecordType
  <2>5. new.backing_ref = rec.backing_ref
    BY <2>3 DEF MovedRecord, RecordType
  <2>. HIDE DEF rec, new
  <2>6. Consents(rec) => Consents(new)
    BY <2>4, <2>5 DEF Consents
  <2>7. ASSUME NEW id \in victims
        PROVE  /\ id \in AllocIds /\ id < next_alloc_id'
               /\ id \in Current' => Consents(records'[id])
    <3>1. id \in AllocIds /\ id < next_alloc_id /\ (id \in Current => Consents(records[id]))
      BY DEF BInv, VictimsConsent
    <3>. QED  BY <2>1, <2>3, <2>6, <3>1 DEF rec
  <2>8. VictimsConsent'
    BY <1>1, <2>7 DEF VictimsConsent, Consents
  <2>9. PlanTrue'
    BY <1>1 DEF PlanTrue
  <2>. QED  BY <2>1, <2>8, <2>9 DEF BInv
<1>. QED  BY <1>2, <1>3 DEF ApplyMove

-----------------------------------------------------------------------------
(* The steps of clients and of the reclaimer. *)

\* The handle the reclaimer reads back before it releases a candidate.
LEMMA CurrentGeneration ==
    ASSUME GInv, NEW id \in Current
    PROVE  id \in AllocIds /\ records[id].generation \in 1 .. MaxGeneration
<1>1. id \in AllocIds /\ records[id] \in RecordType
  BY IdFacts
<1>2. records[id].generation >= 1
  BY Counterpart DEF Mirrors
<1>. QED  BY <1>1, <1>2, BoundAssumption DEF RecordType

\* A candidate may be taken back as it is.
LEMMA SelectVictimsStep ==
    ASSUME BInv, SelectVictims
    PROVE  BInv'
<1>1. /\ UNCHANGED governor /\ stage' = stage /\ plan' = plan
      /\ victims' \subseteq Eligible
  BY DEF SelectVictims, pinvars, reclaim_candidates
<1>2. GInv' /\ records' = records /\ Current' = Current /\ next_alloc_id' = next_alloc_id
  BY <1>1, QuerySteady DEF BInv
<1>3. PlanTrue'
  BY <1>1, <1>2 DEF BInv, PlanTrue, Holds
<1>4. \A id \in victims' : id \in Current /\ Consents(records[id])
  BY <1>1 DEF Eligible, Reclaimable, Consents
<1>5. \A id \in victims' : id \in AllocIds /\ id < next_alloc_id
  BY <1>4, IdFacts DEF BInv
<1>6. VictimsConsent'
  BY <1>2, <1>4, <1>5 DEF VictimsConsent
<1>. QED  BY <1>2, <1>3, <1>6 DEF BInv

\* Before anything has been requested.
LEMMA CallersInit == CompactionInit => BInv
<1>. HAVE CompactionInit
<1>1. GInv
  BY GovernorInitStep DEF CompactionInit, PinsInit
<1>. QED  BY <1>1 DEF CompactionInit, BInv, PlanTrue, VictimsConsent

\* One step of anybody.
LEMMA CallersStep ==
    ASSUME BInv, [CompactionNext]_cvars
    PROVE  BInv'
<1>1. CASE UNCHANGED cvars
  <2>1. UNCHANGED governor /\ stage' = stage /\ plan' = plan /\ victims' = victims
    BY <1>1 DEF cvars, pinvars, callers
  <2>. QED  BY <2>1, SamePlan, IdleSteady
<1>2. CASE initialize /\ UNCHANGED <<pins_held, asked, callers>>
  <2>1. initialize /\ stage' = stage /\ plan' = plan /\ victims' = victims
    BY <1>2 DEF callers
  <2>. QED  BY <2>1, SamePlan, IdleSteady
<1>3. ASSUME NEW req \in Requests, ClientRequest(req)
      PROVE  BInv'
  <2>1. request_locked(req) /\ stage' = stage /\ plan' = plan /\ victims' = victims
    BY <1>3 DEF ClientRequest, PinRequest, callers
  <2>2. GInv /\ next_alloc_id \in Nat
    BY IdFacts DEF BInv
  <2>3. GInv' /\ Steady /\ next_alloc_id' = next_alloc_id + 1
    BY <2>1, <2>2, RequestSteady
  <2>. QED  BY <2>1, <2>2, <2>3, SamePlan, BooksSteady
<1>4. ASSUME NEW id \in AllocIds, NEW gen \in 1 .. MaxGeneration, ClientPin(id, gen)
      PROVE  BInv'
  <2>1. /\ pin_locked(id, gen) \/ unpin_locked(id, gen)
        /\ stage' = stage /\ plan' = plan /\ victims' = victims
    BY <1>4 DEF ClientPin, PinClient, UnpinClient, callers
  <2>2. GInv /\ next_alloc_id \in Nat
    BY IdFacts DEF BInv
  <2>3. GInv' /\ Steady /\ next_alloc_id' = next_alloc_id
    BY <2>1, <2>2, PinSteady, UnpinSteady
  <2>. QED  BY <2>1, <2>2, <2>3, SamePlan, BooksSteady
<1>5. ASSUME NEW id \in AllocIds, ClientWrite(id)
      PROVE  BInv'
  <2>1. UNCHANGED governor /\ stage' = stage /\ plan' = plan /\ victims' = victims
    BY <1>5 DEF ClientWrite, pinvars
  <2>. QED  BY <2>1, SamePlan, IdleSteady
<1>6. ASSUME NEW id \in AllocIds, NEW gen \in 1 .. MaxGeneration,
             release_locked(id, gen, Unset, Unset),
             stage' = stage, plan' = plan, victims' \subseteq victims
      PROVE  BInv'
  <2>1. GInv /\ next_alloc_id \in Nat
    BY IdFacts DEF BInv
  <2>2. GInv' /\ Steady /\ next_alloc_id' = next_alloc_id
    BY <1>6, <2>1, ReleaseSteady
  <2>. QED  BY <1>6, <2>1, <2>2, SamePlan, BooksSteady
<1>7. ASSUME NEW id \in AllocIds, NEW gen \in 1 .. MaxGeneration, ClientRelease(id, gen)
      PROVE  BInv'
  BY <1>6, <1>7 DEF ClientRelease
<1>8. CASE PlanMove
  BY <1>8, PlanMoveStep
<1>9. CASE CopyBytes
  <2>1. UNCHANGED governor /\ PlanKept /\ victims' = victims
    BY <1>9 DEF CopyBytes, pinvars, PlanKept
  <2>. QED  BY <2>1, IdleSteady
<1>10. CASE CopyFails
  <2>1. UNCHANGED governor /\ PlanKept /\ victims' = victims
    BY <1>10 DEF CopyFails, pinvars, PlanKept
  <2>. QED  BY <2>1, IdleSteady
<1>11. CASE ApplyMove
  BY <1>11, ApplyMoveStep
<1>12. CASE SelectVictims
  BY <1>12, SelectVictimsStep
<1>13. ASSUME NEW id \in AllocIds, Evict(id)
       PROVE  BInv'
  <2>1. /\ \/ release_locked(id, records[id].generation, Unset, Unset)
           \/ UNCHANGED governor
        /\ stage' = stage /\ plan' = plan /\ victims' \subseteq victims
    BY <1>13 DEF Evict, pinvars
  <2>2. CASE release_locked(id, records[id].generation, Unset, Unset)
    <3>1. id \in Current
      BY <2>2 DEF release_locked, Holds
    <3>. QED  BY <1>6, <2>1, <2>2, <3>1, CurrentGeneration DEF BInv
  <2>3. CASE UNCHANGED governor
    BY <2>1, <2>3, SamePlan, IdleSteady
  <2>. QED  BY <2>1, <2>2, <2>3
<1>. QED  BY <1>1, <1>2, <1>3, <1>4, <1>5, <1>7, <1>8, <1>9, <1>10, <1>11, <1>12, <1>13
     DEF CompactionNext

(***************************************************************************)
(* The books, the plan under way and the candidates chosen agree with each *)
(* other in every interleaving of clients, compactor and reclaimer: while  *)
(* the handle a plan names is good, the allocation is where the plan says  *)
(* and as large, and a candidate that is still there may still be taken    *)
(* back but for its pins.                                                  *)
(***************************************************************************)
THEOREM CallersInvariant == CompactionSpec => []BInv
<1>1. BInv /\ [CompactionNext]_cvars => BInv'
  BY CallersStep
<1>. QED  BY CallersInit, <1>1, PTL DEF CompactionSpec

-----------------------------------------------------------------------------
(* Pins. *)

\* What a step may do to an allocation while a client holds a pin on it.
InPlace ==
    \A id \in AllocIds : pins_held[id] > 0 =>
        /\ id \in Current'
        /\ records'[id].offset = records[id].offset
        /\ records'[id].generation = records[id].generation

\* An id that is not current counts no pin; a current one, what its record says.
LEMMA PinFacts ==
    ASSUME GInv, PinsExact
    PROVE  /\ \A id \in AllocIds : /\ pins_held[id] \in Nat
                                   /\ pins_held[id] = records[id].pin_count
                                   /\ id \notin Current => pins_held[id] = 0
           /\ \A r \in Live : /\ r.alloc_id \in Current
                              /\ r.pin_count = records[r.alloc_id].pin_count
<1>1. \A id \in AllocIds : id \notin Current => records[id] = NoRecord
  BY IdFacts
<1>2. NoRecord.pin_count = 0
  BY DEF NoRecord
<1>3. \A r \in Live : r.alloc_id \in Current
  BY Counterpart
<1>. QED  BY <1>1, <1>2, <1>3 DEF PinsExact

\* A call that leaves records steady and takes back only what nobody holds.
LEMMA HeldStays ==
    ASSUME GInv, PinsExact, Steady, \A j \in Current : j \in Current' \/ Unheld(j)
    PROVE  InPlace
<1>. SUFFICES ASSUME NEW id \in AllocIds, pins_held[id] > 0
              PROVE  /\ id \in Current'
                     /\ records'[id].offset = records[id].offset
                     /\ records'[id].generation = records[id].generation
  BY DEF InPlace
<1>1. id \in Current /\ records[id].pin_count # 0
  BY PinFacts
<1>2. id \in Current'
  BY <1>1 DEF Unheld
<1>3. id < next_alloc_id
  BY <1>1, IdFacts
<1>. QED  BY <1>2, <1>3 DEF Steady

\* A call about one allocation after which all three count it alike.
LEMMA PinsTouched ==
    ASSUME GInv, GInv', PinsExact, NEW id \in AllocIds, OthersKept(id),
           \A j \in AllocIds : j # id => records'[j] = records[j],
           \A q \in Live' : q.alloc_id = id => q.pin_count = records'[id].pin_count,
           pins_held' \in [AllocIds -> Nat],
           \A j \in AllocIds : j # id => pins_held'[j] = pins_held[j],
           pins_held'[id] = records'[id].pin_count
    PROVE  PinsExact'
<1>1. \A j \in AllocIds : pins_held'[j] = records'[j].pin_count
  BY PinFacts
<1>2. ASSUME NEW q \in Live'
      PROVE  q.pin_count = records'[q.alloc_id].pin_count
  <2>1. CASE q.alloc_id = id
    BY <2>1
  <2>2. CASE q.alloc_id # id
    <3>1. q \in Live
      BY <2>2 DEF OthersKept
    <3>2. q.alloc_id \in AllocIds /\ q.pin_count = records[q.alloc_id].pin_count
      BY <3>1, PinFacts, IdFacts
    <3>. QED  BY <2>2, <3>2
  <2>. QED  BY <2>1, <2>2
<1>. QED  BY <1>1, <1>2 DEF PinsExact

\* Nothing about pins changes.
LEMMA PinsSame ==
    ASSUME GInv, PinsExact, initialize \/ summary_locked \/ plan_query \/ UNCHANGED governor,
           pins_held' = pins_held
    PROVE  PinsExact' /\ InPlace
<1>1. records' = records /\ Current' = Current /\ Live' = Live /\ Steady
  BY QuerySteady
<1>2. PinsExact'
  BY <1>1 DEF PinsExact
<1>3. InPlace
  BY <1>1, HeldStays
<1>. QED  BY <1>2, <1>3

\* A region of an allocation whose record counts no pin counts none.
LEMMA UncountedRegion ==
    ASSUME GInv', NEW q \in Live', records'[q.alloc_id].pin_count = 0
    PROVE  q.pin_count = 0
<1>1. Mirrors(records'[q.alloc_id], q)
  BY NextFacts
<1>. QED  BY <1>1 DEF Mirrors

\* A request without a pin leaves the counted pins and all places alone.
LEMMA RequestPins ==
    ASSUME GInv, PinsExact, NEW req \in Requests, ~req.requires_pin, PinRequest(req)
    PROVE  PinsExact' /\ InPlace
<1>. DEFINE id == next_alloc_id
<1>1. /\ request_locked(req)
      /\ pins_held' = [pins_held EXCEPT ![id] = IF id \in Current' /\ req.requires_pin THEN 1 ELSE 0]
  BY DEF PinRequest
<1>2. id \in AllocIds /\ (Granted(id, req) \/ Refused(req))
  BY <1>1 DEF request_locked
<1>3. pins_held \in [AllocIds -> Nat]
  BY DEF PinsExact
<1>4. /\ pins_held' \in [AllocIds -> Nat] /\ pins_held'[id] = 0
      /\ \A j \in AllocIds : j # id => pins_held'[j] = pins_held[j]
  BY <1>1, <1>2, <1>3
<1>5. GInv' /\ Steady /\ Current \subseteq Current' /\ id \notin Current
  BY <1>1, RequestSteady, IdFacts
<1>6. InPlace
  BY <1>5, HeldStays
<1>7. CASE Granted(id, req)
  <2>1. PICK off \in Bytes : records' = [records EXCEPT ![id] = NewRecord(req, off)]
    BY <1>1, <1>7, GrantedStep
  <2>2. OthersKept(id)
    BY <1>1, <1>7, GrantedStep
  <2>3. records \in [AllocIds -> RecordType]
    BY IdFacts
  <2>4. /\ records'[id] = NewRecord(req, off)
        /\ \A j \in AllocIds : j # id => records'[j] = records[j]
    BY <1>2, <2>1, <2>3
  <2>5. NewRecord(req, off).pin_count = 0
    BY DEF NewRecord
  <2>6. records'[id].pin_count = 0
    BY <2>4, <2>5
  <2>. HIDE DEF id
  <2>7. \A q \in Live' : q.alloc_id = id => q.pin_count = 0
    BY <1>5, <2>6, UncountedRegion
  <2>8. PinsExact'
    BY <1>2, <1>4, <1>5, <2>2, <2>4, <2>6, <2>7, PinsTouched
  <2>. QED  BY <1>6, <2>8
<1>8. CASE Refused(req)
  <2>1. records' = records /\ Live' = Live
    BY <1>1, <1>8, RefusedStep
  <2>2. pins_held[id] = 0
    BY <1>2, <1>5, PinFacts
  <2>3. pins_held' = pins_held
    BY <1>3, <1>4, <2>2
  <2>. QED  BY <1>6, <2>1, <2>3 DEF PinsExact
<1>. QED  BY <1>2, <1>7, <1>8

\* A pin is counted by the client and by both books.
LEMMA PinPins ==
    ASSUME GInv, PinsExact, NEW id \in AllocIds, NEW gen \in 1 .. MaxGeneration,
           PinClient(id, gen)
    PROVE  PinsExact' /\ InPlace
<1>1. pin_locked(id, gen) /\ pins_held' = [pins_held EXCEPT ![id] = @ + 1]
  BY DEF PinClient
<1>2. GInv' /\ Steady /\ Current' = Current
  BY <1>1, PinSteady
<1>3. PICK r \in Live :
         /\ r.alloc_id = id /\ r.pin_count \in Nat
         /\ records' = [records EXCEPT ![id] = PinCopy(@, Pinned(r))]
         /\ Pinned(r).pin_count = r.pin_count + 1 /\ Pinned(r).alloc_id = id
         /\ Live' = (Live \ {r}) \cup {Pinned(r)}
  BY <1>1, PinLockedStep
<1>4. records \in [AllocIds -> RecordType] /\ pins_held \in [AllocIds -> Nat]
  BY IdFacts DEF PinsExact
<1>. DEFINE m == Pinned(r)
<1>5. /\ m.pin_count = r.pin_count + 1 /\ m.alloc_id = id
      /\ records' = [records EXCEPT ![id] = PinCopy(@, m)]
      /\ Live' = (Live \ {r}) \cup {m}
  BY <1>3
<1>. HIDE DEF m
<1>6. /\ records'[id] = PinCopy(records[id], m) /\ records[id] \in RecordType
      /\ \A j \in AllocIds : j # id => records'[j] = records[j]
  BY <1>4, <1>5
<1>7. PinCopy(records[id], m).pin_count = m.pin_count
  BY <1>6 DEF PinCopy, RecordType
<1>8. r.pin_count = pins_held[id] /\ pins_held[id] \in Nat
  BY <1>3, PinFacts
<1>9. /\ pins_held' \in [AllocIds -> Nat] /\ pins_held'[id] = records'[id].pin_count
      /\ \A j \in AllocIds : j # id => pins_held'[j] = pins_held[j]
  BY <1>1, <1>4, <1>5, <1>6, <1>7, <1>8
<1>10. \A q \in Live : q.alloc_id = id => q = r
  BY <1>3, LiveFacts DEF GInv
<1>11. /\ OthersKept(id)
       /\ \A q \in Live' : q.alloc_id = id => q.pin_count = records'[id].pin_count
  BY <1>5, <1>6, <1>7, <1>10 DEF OthersKept
<1>12. PinsExact'
  BY <1>2, <1>6, <1>9, <1>11, PinsTouched
<1>13. InPlace
  BY <1>2, HeldStays
<1>. QED  BY <1>12, <1>13

\* An unpin takes one away from each of them.
LEMMA UnpinPins ==
    ASSUME GInv, PinsExact, NEW id \in AllocIds, NEW gen \in 1 .. MaxGeneration,
           UnpinClient(id, gen)
    PROVE  PinsExact' /\ InPlace
<1>1. unpin_locked(id, gen) /\ pins_held' = [pins_held EXCEPT ![id] = @ - 1]
  BY DEF UnpinClient
<1>2. GInv' /\ Steady /\ Current' = Current
  BY <1>1, UnpinSteady
<1>3. PICK r \in Live :
         /\ r.alloc_id = id /\ r.pin_count \in Nat \ {0}
         /\ records' = [records EXCEPT ![id] = UnpinCopy(@, Unpinned(r))]
         /\ Unpinned(r).pin_count = r.pin_count - 1 /\ Unpinned(r).alloc_id = id
         /\ Live' = (Live \ {r}) \cup {Unpinned(r)}
  BY <1>1, UnpinLockedStep
<1>4. records \in [AllocIds -> RecordType] /\ pins_held \in [AllocIds -> Nat]
  BY IdFacts DEF PinsExact
<1>. DEFINE m == Unpinned(r)
<1>5. /\ m.pin_count = r.pin_count - 1 /\ m.alloc_id = id
      /\ records' = [records EXCEPT ![id] = UnpinCopy(@, m)]
      /\ Live' = (Live \ {r}) \cup {m}
  BY <1>3
<1>. HIDE DEF m
<1>6. /\ records'[id] = UnpinCopy(records[id], m) /\ records[id] \in RecordType
      /\ \A j \in AllocIds : j # id => records'[j] = records[j]
  BY <1>4, <1>5
<1>7. UnpinCopy(records[id], m).pin_count = m.pin_count
  BY <1>6 DEF UnpinCopy, RecordType
<1>8. r.pin_count = pins_held[id] /\ pins_held[id] \in Nat \ {0}
  BY <1>3, PinFacts
<1>9. /\ pins_held' \in [AllocIds -> Nat] /\ pins_held'[id] = records'[id].pin_count
      /\ \A j \in AllocIds : j # id => pins_held'[j] = pins_held[j]
  BY <1>1, <1>4, <1>5, <1>6, <1>7, <1>8
<1>10. \A q \in Live : q.alloc_id = id => q = r
  BY <1>3, LiveFacts DEF GInv
<1>11. /\ OthersKept(id)
       /\ \A q \in Live' : q.alloc_id = id => q.pin_count = records'[id].pin_count
  BY <1>5, <1>6, <1>7, <1>10 DEF OthersKept
<1>12. PinsExact'
  BY <1>2, <1>6, <1>9, <1>11, PinsTouched
<1>13. InPlace
  BY <1>2, HeldStays
<1>. QED  BY <1>12, <1>13

\* A release ends what was held, which was nothing.
LEMMA ReleasePins ==
    ASSUME GInv, PinsExact, NEW id \in AllocIds, NEW gen \in 1 .. MaxGeneration,
           release_locked(id, gen, Unset, Unset),
           pins_held' \in [AllocIds -> Nat], pins_held'[id] = 0,
           \A j \in AllocIds : j # id => pins_held'[j] = pins_held[j]
    PROVE  PinsExact' /\ InPlace
<1>1. /\ GInv' /\ Steady /\ Current' = Current \ {id} /\ Unheld(id)
  BY ReleaseSteady
<1>2. records' = [records EXCEPT ![id] = NoRecord] /\ OthersKept(id)
  BY ReleaseLockedStep
<1>3. records \in [AllocIds -> RecordType]
  BY IdFacts
<1>4. /\ records'[id] = NoRecord
      /\ \A j \in AllocIds : j # id => records'[j] = records[j]
  BY <1>2, <1>3
<1>5. NoRecord.pin_count = 0
  BY DEF NoRecord
<1>6. \A q \in Live' : q.alloc_id \in Current'
  BY <1>1, NextFacts
<1>7. \A q \in Live' : q.alloc_id # id
  BY <1>1, <1>6
<1>8. PinsExact'
  BY <1>1, <1>2, <1>4, <1>5, <1>7, PinsTouched
<1>9. InPlace
  BY <1>1, HeldStays
<1>. QED  BY <1>8, <1>9

\* A relocation moves what nobody holds.
LEMMA MovePins ==
    ASSUME GInv, GInv', PinsExact, NEW id \in Current, NEW lo, NEW n, Unheld(id),
           OthersKept(id), Current' = Current, pins_held' = pins_held,
           records' = [records EXCEPT ![id] = MovedRecord(@, lo, n)]
    PROVE  PinsExact' /\ InPlace
<1>1. id \in AllocIds /\ records \in [AllocIds -> RecordType]
  BY IdFacts
<1>2. /\ records'[id] = MovedRecord(records[id], lo, n) /\ records[id] \in RecordType
      /\ \A j \in AllocIds : j # id => records'[j] = records[j]
  BY <1>1
<1>3. MovedRecord(records[id], lo, n).pin_count = records[id].pin_count
  BY <1>2 DEF MovedRecord, RecordType
<1>4. records'[id].pin_count = 0 /\ pins_held[id] = 0
  BY <1>1, <1>2, <1>3, PinFacts DEF Unheld
<1>5. \A q \in Live' : q.alloc_id = id => q.pin_count = 0
  BY <1>4, UncountedRegion
<1>6. pins_held' \in [AllocIds -> Nat]
  BY DEF PinsExact
<1>7. PinsExact'
  BY <1>1, <1>2, <1>4, <1>5, <1>6, PinsTouched
<1>8. ASSUME NEW j \in AllocIds, pins_held[j] > 0
      PROVE  j \in Current' /\ records'[j] = records[j]
  <2>1. j \in Current /\ j # id
    BY <1>4, <1>8, PinFacts
  <2>. QED  BY <1>2, <2>1
<1>9. InPlace
  BY <1>8 DEF InPlace
<1>. QED  BY <1>7, <1>9

\* Any other call to the governor, in the specification of pinning clients.
LEMMA OtherPins ==
    ASSUME GInv, PinsExact, OtherCall
    PROVE  GInv' /\ PinsExact' /\ InPlace
<1>1. pins_held' = [j \in AllocIds |-> IF j \in Current' THEN pins_held[j] ELSE 0]
  BY DEF OtherCall
<1>2. \A j \in AllocIds : pins_held[j] \in Nat /\ (j \notin Current => pins_held[j] = 0)
  BY PinFacts
<1>3. pins_held \in [AllocIds -> Nat]
  BY DEF PinsExact
<1>4. /\ pins_held' \in [AllocIds -> Nat]
      /\ Current' = Current => pins_held' = pins_held
  BY <1>1, <1>2, <1>3
<1>5. CASE initialize \/ summary_locked
  <2>1. GInv' /\ Current' = Current
    BY <1>5, QuerySteady
  <2>. QED  BY <1>4, <1>5, <2>1, PinsSame
<1>6. ASSUME NEW id \in AllocIds, NEW gen \in 1 .. MaxGeneration,
             release_locked(id, gen, Unset, Unset)
      PROVE  GInv' /\ PinsExact' /\ InPlace
  <2>1. GInv' /\ Current' = Current \ {id}
    BY <1>6, ReleaseSteady
  <2>2. /\ pins_held'[id] = 0
        /\ \A j \in AllocIds : j # id => pins_held'[j] = pins_held[j]
    BY <1>1, <1>2, <2>1
  <2>. QED  BY <1>4, <1>6, <2>1, <2>2, ReleasePins
<1>7. ASSUME NEW id \in AllocIds, NEW gen \in 1 .. MaxGeneration, NEW lo \in 0 .. Capacity,
             apply_relocation(id, gen, lo, records[id].region_size)
      PROVE  GInv' /\ PinsExact' /\ InPlace
  <2>. DEFINE n == records[id].region_size
  <2>1. n \in RelocationBytes \cup {records[id].region_size}
    OBVIOUS
  <2>. HIDE DEF n
  <2>2. apply_relocation(id, gen, lo, n)
    BY <1>7 DEF n
  <2>3. /\ GInv' /\ Current' = Current /\ id \in Current /\ Unheld(id) /\ OthersKept(id)
        /\ records' = [records EXCEPT ![id] = MovedRecord(@, lo, n)]
    BY <2>1, <2>2, RelocationStep
  <2>. QED  BY <1>4, <2>3, MovePins
<1>. QED  BY <1>5, <1>6, <1>7 DEF OtherCall

-----------------------------------------------------------------------------
(* What pinning clients may rely on. *)

\* At first nobody holds a pin.
LEMMA PinsInitStep == PinsInit => GInv /\ PinsExact
<1>. HAVE PinsInit
<1>1. GInv
  BY GovernorInitStep DEF PinsInit
<1>2. Live = {}
  BY DEF PinsInit, Init, ArenaInit, Live, FreeRegion
<1>3. \A id \in AllocIds : records[id] = NoRecord /\ pins_held[id] = 0
  BY DEF PinsInit, Init
<1>4. pins_held \in [AllocIds -> Nat]
  BY DEF PinsInit
<1>5. NoRecord.pin_count = 0
  BY DEF NoRecord
<1>. QED  BY <1>1, <1>2, <1>3, <1>4, <1>5 DEF PinsExact

\* Every call keeps the three counts of pins together, and held allocations in place.
LEMMA PinsStep ==
    ASSUME PinsExplicit, GInv, PinsExact, [PinsNext]_pinvars
    PROVE  GInv' /\ PinsExact' /\ InPlace
<1>1. CASE UNCHANGED pinvars
  <2>1. UNCHANGED governor /\ pins_held' = pins_held
    BY <1>1 DEF pinvars
  <2>. QED  BY <2>1, QuerySteady, PinsSame
<1>2. ASSUME NEW req \in Requests, PinRequest(req)
      PROVE  GInv' /\ PinsExact' /\ InPlace
  <2>1. request_locked(req) /\ ~req.requires_pin
    BY <1>2 DEF PinRequest, PinsExplicit
  <2>. QED  BY <1>2, <2>1, RequestSteady, RequestPins
<1>3. ASSUME NEW id \in AllocIds, NEW gen \in 1 .. MaxGeneration, PinClient(id, gen)
      PROVE  GInv' /\ PinsExact' /\ InPlace
  BY <1>3, PinSteady, PinPins DEF PinClient
<1>4. ASSUME NEW id \in AllocIds, NEW gen \in 1 .. MaxGeneration, UnpinClient(id, gen)
      PROVE  GInv' /\ PinsExact' /\ InPlace
  BY <1>4, UnpinSteady, UnpinPins DEF UnpinClient
<1>5. CASE OtherCall
  BY <1>5, OtherPins
<1>. QED  BY <1>1, <1>2, <1>3, <1>4, <1>5 DEF PinsNext

(***************************************************************************)
(* No call of anyone releases, moves or makes stale an allocation that a   *)
(* client has pinned with pin(), however many clients pin and unpin it.    *)
(* The induction needs that the arena counts what the record counts: unpin *)
(* copies the arena's count back, and a record that had counted more than  *)
(* the arena, as one granted with requires_pin does, would lose a pin.     *)
(***************************************************************************)
THEOREM PinsHold ==
    ASSUME PinsExplicit
    PROVE  PinsSpec => HeldInPlace
<1>1. GInv /\ PinsExact /\ [PinsNext]_pinvars => (GInv /\ PinsExact)'
  BY PinsStep
<1>2. GInv /\ PinsExact /\ [PinsNext]_pinvars => [InPlace]_pinvars
  BY PinsStep
<1>3. PinsSpec => [][InPlace]_pinvars
  BY PinsInitStep, <1>1, <1>2, PTL DEF PinsSpec
<1>4. [InPlace]_pinvars =>
         [\A id \in AllocIds : pins_held[id] > 0 =>
             /\ id \in Current'
             /\ records'[id].offset = records[id].offset
             /\ records'[id].generation = records[id].generation]_pinvars
  BY DEF InPlace
<1>. QED  BY <1>3, <1>4, PTL DEF HeldInPlace

\* A step of clients, compactor or reclaimer.
LEMMA CallersPins ==
    ASSUME PinsExplicit, BInv, PinsExact, [CompactionNext]_cvars
    PROVE  PinsExact' /\ InPlace
<1>1. GInv /\ pins_held \in [AllocIds -> Nat]
  BY DEF BInv, PinsExact
<1>2. ASSUME UNCHANGED governor, pins_held' = pins_held
      PROVE  PinsExact' /\ InPlace
  BY <1>1, <1>2, PinsSame
<1>3. CASE UNCHANGED cvars \/ CopyBytes \/ CopyFails \/ SelectVictims
  BY <1>2, <1>3 DEF cvars, pinvars, CopyBytes, CopyFails, SelectVictims
<1>4. CASE initialize /\ UNCHANGED <<pins_held, asked, callers>>
  BY <1>1, <1>4, PinsSame
<1>5. ASSUME NEW req \in Requests, ClientRequest(req)
      PROVE  PinsExact' /\ InPlace
  <2>1. PinRequest(req) /\ ~req.requires_pin
    BY <1>5 DEF ClientRequest, PinsExplicit
  <2>. QED  BY <1>1, <2>1, RequestPins
<1>6. ASSUME NEW id \in AllocIds, NEW gen \in 1 .. MaxGeneration, ClientPin(id, gen)
      PROVE  PinsExact' /\ InPlace
  BY <1>1, <1>6, PinPins, UnpinPins DEF ClientPin
<1>7. ASSUME NEW id \in AllocIds, ClientWrite(id)
      PROVE  PinsExact' /\ InPlace
  BY <1>2, <1>7 DEF ClientWrite, pinvars
<1>8. ASSUME NEW id \in AllocIds, NEW gen \in 1 .. MaxGeneration,
             release_locked(id, gen, Unset, Unset), Vacate(id)
      PROVE  PinsExact' /\ InPlace
  <2>1. pins_held' = [pins_held EXCEPT ![id] = 0]
    BY <1>8 DEF Vacate
  <2>2. /\ pins_held' \in [AllocIds -> Nat] /\ pins_held'[id] = 0
        /\ \A j \in AllocIds : j # id => pins_held'[j] = pins_held[j]
    BY <1>1, <2>1
  <2>. QED  BY <1>1, <1>8, <2>2, ReleasePins
<1>9. ASSUME NEW id \in AllocIds, NEW gen \in 1 .. MaxGeneration, ClientRelease(id, gen)
      PROVE  PinsExact' /\ InPlace
  BY <1>8, <1>9 DEF ClientRelease
<1>10. CASE PlanMove
  <2>1. plan_query \/ UNCHANGED governor
    BY <1>10, SummaryRead DEF PlanMove
  <2>2. pins_held' = pins_held
    BY <1>10 DEF PlanMove
  <2>. QED  BY <1>1, <2>1, <2>2, PinsSame
<1>11. CASE ApplyMove
  <2>1. pins_held' = pins_held /\ stage = "copied"
    BY <1>11 DEF ApplyMove
  <2>2. CASE apply_relocation(plan.id, plan.generation, plan.new_offset, plan.size)
    <3>1. /\ GInv' /\ Current' = Current /\ plan.id \in Current /\ Unheld(plan.id)
          /\ records' = [records EXCEPT ![plan.id] = MovedRecord(@, plan.new_offset, plan.size)]
          /\ OthersKept(plan.id)
      BY <2>1, <2>2, Applied
    <3>. QED  BY <1>1, <2>1, <3>1, MovePins
  <2>. QED  BY <1>2, <1>11, <2>1, <2>2 DEF ApplyMove
<1>12. ASSUME NEW id \in AllocIds, Evict(id)
       PROVE  PinsExact' /\ InPlace
  <2>1. CASE release_locked(id, records[id].generation, Unset, Unset) /\ Vacate(id)
    <3>1. id \in Current
      BY <2>1 DEF release_locked, Holds
    <3>. QED  BY <1>1, <1>8, <2>1, <3>1, CurrentGeneration
  <2>2. CASE UNCHANGED pinvars
    BY <1>2, <2>2 DEF pinvars
  <2>. QED  BY <1>12, <2>1, <2>2 DEF Evict
<1>. QED  BY <1>3, <1>4, <1>5, <1>6, <1>7, <1>9, <1>10, <1>11, <1>12 DEF CompactionNext

\* The two inductions together.
LEMMA PinnedCallers ==
    ASSUME PinsExplicit
    PROVE  CompactionSpec => [](BInv /\ PinsExact)
<1>1. CompactionInit => BInv /\ PinsExact
  BY CallersInit, PinsInitStep DEF CompactionInit
<1>2. BInv /\ PinsExact /\ [CompactionNext]_cvars => (BInv /\ PinsExact)'
  BY CallersStep, CallersPins
<1>. QED  BY <1>1, <1>2, PTL DEF CompactionSpec

(***************************************************************************)
(* The governor's count of an allocation's pins is the number its clients  *)
(* hold, while a compactor and a reclaimer work beside them.               *)
(***************************************************************************)
THEOREM PinCountCorrect ==
    ASSUME PinsExplicit
    PROVE  CompactionSpec => []PinsCounted
<1>1. BInv /\ PinsExact => PinsCounted
  BY DEF PinsExact, PinsCounted, Current
<1>. QED  BY <1>1, PinnedCallers, PTL

(***************************************************************************)
(* What a client has pinned stays where it is and keeps its handle: a plan *)
(* made before the pin is refused by apply_relocation(), and a candidate   *)
(* chosen before it is refused by release().                               *)
(***************************************************************************)
THEOREM HeldInPlaceCorrect ==
    ASSUME PinsExplicit
    PROVE  CompactionSpec => HeldInPlace
<1>1. BInv /\ PinsExact /\ [CompactionNext]_cvars => InPlace
  BY CallersPins
<1>2. InPlace =>
         [\A id \in AllocIds : pins_held[id] > 0 =>
             /\ id \in Current'
             /\ records'[id].offset = records[id].offset
             /\ records'[id].generation = records[id].generation]_pinvars
  BY DEF InPlace
<1>. QED  BY <1>1, <1>2, PinnedCallers, PTL DEF CompactionSpec, HeldInPlace

\* A candidate leaves the list released, or left alone.
LEMMA EvictionStep ==
    ASSUME BInv, PinsExact, [CompactionNext]_cvars,
           NEW id \in victims, id \notin victims', id \in Current, id \notin Current'
    PROVE  id \in Eligible /\ pins_held[id] = 0
<1>1. Evict(id)
  <2>1. ASSUME NEW j \in AllocIds, Evict(j)
        PROVE  j = id
    BY <2>1 DEF Evict
  <2>. QED
    BY <2>1 DEF CompactionNext, cvars, pinvars, callers, ClientRequest, ClientPin, ClientWrite,
       ClientRelease, PlanMove, CopyBytes, CopyFails, ApplyMove, SelectVictims
<1>2. Unheld(id)
  <2>1. CASE release_locked(id, records[id].generation, Unset, Unset)
    BY <2>1 DEF release_locked
  <2>2. CASE UNCHANGED pinvars
    <3>1. Current' = Current
      BY <2>2, QuerySteady DEF pinvars, BInv
    <3>. QED  BY <3>1
  <2>. QED  BY <1>1, <2>1, <2>2 DEF Evict
<1>3. Consents(records[id]) /\ id \in AllocIds
  BY DEF BInv, VictimsConsent
<1>4. id \in Eligible
  BY <1>2, <1>3 DEF Eligible, Reclaimable, Consents, Unheld
<1>5. pins_held[id] = 0
  BY <1>2, <1>3 DEF PinsExact, Unheld
<1>. QED  BY <1>4, <1>5

(***************************************************************************)
(* A candidate that is taken back is reclaimable when it is taken, though  *)
(* reclaim_candidates() returns ids without generations and the allocation *)
(* may have been pinned, moved, written or released since.                 *)
(***************************************************************************)
THEOREM EvictionCorrect ==
    ASSUME PinsExplicit
    PROVE  CompactionSpec => EvictsReclaimable
<1>1. BInv /\ PinsExact /\ [CompactionNext]_cvars =>
         [\A id \in victims \ victims' : id \in Current /\ id \notin Current'
             => id \in Eligible /\ pins_held[id] = 0]_cvars
  BY EvictionStep
<1>. QED  BY <1>1, PinnedCallers, PTL DEF CompactionSpec, EvictsReclaimable

-----------------------------------------------------------------------------
(* What the bytes hold. *)

\* The target of a move lies in the arena, and no allocation is under it.
LEMMA TargetOfPlan ==
    ASSUME RelocationBytes = {} \/ 2 * Capacity <= WordSize, GInv, PlanMove
    PROVE  /\ plan'.old_offset \in Nat /\ plan'.size \in Nat /\ plan'.new_offset \in Nat
           /\ plan'.old_offset + plan'.size <= Capacity
           /\ plan'.new_offset + plan'.size <= Capacity
           /\ \A id \in Current, b \in Bytes :
                 b \in SpanOf(id) => b \notin Span(plan'.new_offset, plan'.size)
<1>1. PICK m \in Live, f \in FreeRegions :
         /\ MayMove(m) /\ Target(m, f)
         /\ plan'.old_offset = m.offset /\ plan'.size = m.size
         /\ plan'.new_offset = NewOffset(m, f) /\ NewOffset(m, f) \in Nat
  BY PlanMade
<1>. DEFINE lo == NewOffset(m, f)
<1>2. ValidTarget(m, lo, m.size, records[m.alloc_id].alignment) /\ lo \in Nat
  BY <1>1, PlannedMove
<1>. HIDE DEF lo
<1>3. lo <= Capacity /\ m.size <= Capacity - lo /\ \A q \in regions : q.live => ~Overlaps(q, lo, lo + m.size)
  BY <1>2 DEF ValidTarget
<1>4. m.offset \in Nat /\ m.size \in Nat /\ m.offset + m.size <= Capacity
  BY LiveFacts, CapacityAssumption DEF GInv, RegionSound, RegionType, EndOf, Bytes
<1>5. ASSUME NEW id \in Current, NEW b \in Bytes, b \in SpanOf(id), b \in Span(lo, m.size)
      PROVE  FALSE
  <2>1. PICK q \in Live : Mirrors(records[id], q) /\ q.live /\ RegionSound(q)
    BY Counterpart
  <2>2. ~Overlaps(q, lo, lo + m.size) /\ EndOf(q) = q.offset + q.size
        /\ records[id].offset = q.offset /\ records[id].region_size = q.size
    BY <1>3, <2>1 DEF Live, Mirrors, EndOf
  <2>3. q.offset \in Nat /\ q.size \in Nat
    BY <2>1, CapacityAssumption DEF RegionSound, RegionType, Bytes
  <2>. QED  BY <1>2, <1>4, <1>5, <2>2, <2>3, CapacityAssumption DEF Overlaps, SpanOf, Span, Bytes
<1>6. lo + m.size <= Capacity
  BY <1>2, <1>3, <1>4, CapacityAssumption
<1>7. plan'.new_offset = lo
  BY <1>1 DEF lo
<1>. QED  BY <1>1, <1>2, <1>4, <1>5, <1>6, <1>7

\* What is current after a step that leaves records steady is where it was.
LEMMA SteadySpan ==
    ASSUME GInv, Steady, NEW id \in Current
    PROVE  id \in Current' => SpanOf(id)' = SpanOf(id)
  BY IdFacts DEF Steady, SpanOf

\* A call that moves nothing and grants nothing, beside a plan that is kept,
\* and the bytes of one allocation at most written over.
LEMMA ContentsSteady ==
    ASSUME BInv, KInv, Steady, Current' \subseteq Current, written' \subseteq Current',
           written' \subseteq written,
           (stage' = stage /\ plan' = plan) \/ stage' = "idle",
           NEW hit, \/ hit \in Current \ written'
                    \/ hit = NoOne,
           \A b \in Bytes : (hit \in Current => b \notin SpanOf(hit)) => content'[b] = content[b]
    PROVE  KInv'
<1>1. /\ \A id \in Current' : id \in Current /\ SpanOf(id)' = SpanOf(id)
      /\ \A id \in Current : SpanOf(id) \subseteq Bytes
      /\ \A i, j \in Current : i # j => \A b \in SpanOf(i) : b \notin SpanOf(j)
  BY SteadySpan, SpanFacts DEF BInv
<1>2. TargetClear'
  <2>. SUFFICES ASSUME stage' # "idle"  PROVE TargetClear'
    BY DEF TargetClear
  <2>1. stage' = stage /\ plan' = plan /\ stage # "idle"
    OBVIOUS
  <2>2. /\ plan.old_offset \in Nat /\ plan.size \in Nat
        /\ plan.old_offset + plan.size <= Capacity /\ plan.new_offset + plan.size <= Capacity
        /\ \A id \in Current, b \in Bytes :
              b \in SpanOf(id) => b \notin Span(plan.new_offset, plan.size)
    BY <2>1 DEF KInv, TargetClear
  <2>3. \A id \in Current', b \in Bytes :
           b \in SpanOf(id)' => b \notin Span(plan.new_offset, plan.size)
    BY <1>1, <2>2
  <2>4. Span(plan.new_offset, plan.size)' = Span(plan.new_offset, plan.size)
    BY <2>1 DEF Span
  <2>. QED  BY <2>1, <2>2, <2>3, <2>4 DEF TargetClear
<1>3. CopyMade'
  <2>. SUFFICES ASSUME stage' = "copied", Holds(plan.id, plan.generation)', plan'.id \in written',
                       NEW b \in Bytes, b \in Span(plan.new_offset, plan.size)'
                PROVE  content'[b] = plan'.id
    BY DEF CopyMade
  <2>1. stage = "copied" /\ plan' = plan /\ stage # "idle"
    OBVIOUS
  <2>2. b \in Span(plan.new_offset, plan.size)
    BY <2>1 DEF Span
  <2>3. plan.id \in AllocIds /\ plan.id < next_alloc_id
    BY <2>1 DEF BInv, PlanTrue
  <2>4. plan.id \in Current' /\ records'[plan.id].generation = plan.generation
    BY <2>1 DEF Holds
  <2>5. Holds(plan.id, plan.generation)
    BY <2>3, <2>4 DEF Steady, Holds
  <2>6. content[b] = plan.id
    BY <2>1, <2>2, <2>5 DEF KInv, CopyMade
  <2>7. hit \in Current => b \notin SpanOf(hit)
    BY <2>1, <2>2 DEF KInv, TargetClear
  <2>. QED  BY <2>1, <2>6, <2>7
<1>4. ContentsKept'
  <2>. SUFFICES ASSUME NEW id \in Current', id \in written', NEW b \in SpanOf(id)'
                PROVE  content'[b] = id
    BY DEF ContentsKept
  <2>1. id \in Current /\ id \in written /\ b \in SpanOf(id) /\ b \in Bytes
    BY <1>1
  <2>2. content[b] = id
    BY <2>1 DEF KInv, ContentsKept
  <2>3. hit \in Current => b \notin SpanOf(hit)
    <3>1. hit \in Current => hit # id
      BY IdFacts, IdAssumption DEF BInv
    <3>. QED  BY <1>1, <2>1, <3>1
  <2>. QED  BY <2>1, <2>2, <2>3
<1>. QED  BY <1>2, <1>3, <1>4 DEF KInv

\* A call that moves nothing, grants nothing and writes no byte.
LEMMA ContentsSame ==
    ASSUME BInv, KInv, Steady, Current' = Current, content' = content, written' = written,
           (stage' = stage /\ plan' = plan) \/ stage' = "idle"
    PROVE  KInv'
<1>1. written' \subseteq Current' /\ written' \subseteq written /\ Current' \subseteq Current
  BY DEF KInv
<1>. QED  BY <1>1, ContentsSteady

\* A release: the bytes it gives back are under no other allocation or target.
LEMMA ReleaseContents ==
    ASSUME BInv, KInv, NEW id \in AllocIds, NEW gen \in 1 .. MaxGeneration,
           release_locked(id, gen, Unset, Unset), Vacate(id), stage' = stage, plan' = plan
    PROVE  KInv'
<1>1. Steady /\ Current' = Current \ {id} /\ id \in Current
  BY ReleaseSteady DEF BInv
<1>2. /\ content' = [b \in Bytes |-> IF b \in SpanOf(id) THEN NoOne ELSE content[b]]
      /\ written' = written \ {id}
  BY DEF Vacate
<1>3. \A b \in Bytes : (id \in Current => b \notin SpanOf(id)) => content'[b] = content[b]
  BY <1>1, <1>2
<1>4. /\ written' \subseteq Current' /\ written' \subseteq written /\ Current' \subseteq Current
      /\ id \in Current \ written'
  BY <1>1, <1>2 DEF KInv
<1>. QED  BY <1>1, <1>3, <1>4, ContentsSteady

\* A request while no compaction is under way.
LEMMA RequestContents ==
    ASSUME BInv, KInv, NEW req \in Requests, request_locked(req), stage = "idle",
           stage' = stage, content' = content, written' = written
    PROVE  KInv'
<1>1. Current \subseteq Current' /\ \A j \in Current : records'[j] = records[j]
  BY RequestSteady DEF BInv
<1>2. ASSUME NEW id \in written', NEW b \in SpanOf(id)'
      PROVE  content'[b] = id
  <2>1. id \in Current /\ id \in written /\ b \in SpanOf(id)
    BY <1>1, <1>2 DEF KInv, SpanOf
  <2>. QED  BY <2>1 DEF KInv, ContentsKept
<1>3. ContentsKept'
  BY <1>2 DEF ContentsKept
<1>. QED  BY <1>1, <1>3 DEF KInv, TargetClear, CopyMade

\* A client writes an allocation that is not the one being moved.
LEMMA WriteContents ==
    ASSUME BInv, KInv, NEW id \in AllocIds, ClientWrite(id), stage = "idle" \/ plan.id # id
    PROVE  KInv'
<1>1. /\ id \in Current /\ written' = written \cup {id}
      /\ content' = [b \in Bytes |-> IF b \in SpanOf(id) THEN id ELSE content[b]]
      /\ stage' = stage /\ plan' = plan /\ UNCHANGED governor
  BY DEF ClientWrite, pinvars
<1>2. records' = records /\ Current' = Current
  BY <1>1, QuerySteady DEF BInv
<1>3. /\ \A i \in Current : SpanOf(i) \subseteq Bytes /\ SpanOf(i)' = SpanOf(i)
      /\ \A i, j \in Current : i # j => \A b \in SpanOf(i) : b \notin SpanOf(j)
  BY <1>2, SpanFacts DEF BInv, SpanOf
<1>4. written' \subseteq Current'
  BY <1>1, <1>2 DEF KInv
<1>5. TargetClear'
  BY <1>1, <1>2 DEF KInv, TargetClear, SpanOf, Span
<1>6. CopyMade'
  <2>. SUFFICES ASSUME stage = "copied", Holds(plan.id, plan.generation), plan.id \in written',
                       NEW b \in Bytes, b \in Span(plan.new_offset, plan.size)
                PROVE  content'[b] = plan.id
    BY <1>1, <1>2 DEF CopyMade, Holds, Span
  <2>1. plan.id \in written
    BY <1>1
  <2>2. content[b] = plan.id
    BY <2>1 DEF KInv, CopyMade
  <2>3. b \notin SpanOf(id)
    BY <1>1 DEF KInv, TargetClear
  <2>. QED  BY <1>1, <2>2, <2>3
<1>7. ASSUME NEW i \in Current, i \in written', NEW b \in SpanOf(i)
      PROVE  content'[b] = i
  <2>1. CASE i = id
    BY <1>1, <1>3, <2>1
  <2>2. CASE i # id
    <3>1. content[b] = i
      BY <1>1, <1>7, <2>2 DEF KInv, ContentsKept
    <3>. QED  BY <1>1, <1>3, <2>2, <3>1
  <2>. QED  BY <2>1, <2>2
<1>8. ContentsKept'
  BY <1>2, <1>3, <1>7 DEF ContentsKept
<1>. QED  BY <1>4, <1>5, <1>6, <1>8 DEF KInv

\* The copy touches the target only, and puts there what the allocation holds.
LEMMA CopyContents ==
    ASSUME BInv, KInv, CopyBytes
    PROVE  KInv'
<1>1. /\ stage = "planned" /\ stage' = "copied" /\ plan' = plan /\ written' = written
      /\ content' = Copied(plan) /\ UNCHANGED governor
  BY DEF CopyBytes, pinvars
<1>2. records' = records /\ Current' = Current
  BY <1>1, QuerySteady DEF BInv
<1>3. /\ plan.old_offset \in Nat /\ plan.size \in Nat /\ plan.new_offset \in Nat
      /\ plan.old_offset + plan.size <= Capacity /\ plan.new_offset + plan.size <= Capacity
      /\ \A id \in Current, b \in Bytes :
            b \in SpanOf(id) => b \notin Span(plan.new_offset, plan.size)
  BY <1>1 DEF KInv, TargetClear, BInv, PlanTrue
<1>4. TargetClear'
  BY <1>1, <1>2, <1>3 DEF TargetClear, SpanOf, Span
<1>5. \A b \in Bytes :
         content'[b] = IF b \in Span(plan.new_offset, plan.size)
                       THEN content[plan.old_offset + (b - plan.new_offset)] ELSE content[b]
  BY <1>1 DEF Copied
<1>6. CopyMade'
  <2>. SUFFICES ASSUME Holds(plan.id, plan.generation), plan.id \in written,
                       NEW b \in Bytes, b \in Span(plan.new_offset, plan.size)
                PROVE  content'[b] = plan.id
    BY <1>1, <1>2 DEF CopyMade, Holds, Span
  <2>1. /\ records[plan.id].offset = plan.old_offset /\ records[plan.id].region_size = plan.size
    BY <1>1 DEF BInv, PlanTrue
  <2>. DEFINE c == plan.old_offset + (b - plan.new_offset)
  <2>2. c \in Span(plan.old_offset, plan.size)
    BY <1>3 DEF Span, Bytes
  <2>3. c \in SpanOf(plan.id)
    BY <2>1, <2>2 DEF SpanOf
  <2>4. plan.id \in Current \cap written
    BY DEF Holds
  <2>5. content[c] = plan.id
    BY <2>3, <2>4 DEF KInv, ContentsKept
  <2>. QED  BY <1>5, <2>5
<1>7. ASSUME NEW id \in Current \cap written, NEW b \in SpanOf(id)
      PROVE  content'[b] = id
  <2>1. b \in Bytes /\ content[b] = id
    BY SpanFacts DEF BInv, KInv, ContentsKept
  <2>. QED  BY <1>3, <1>5, <2>1
<1>8. ContentsKept'
  BY <1>1, <1>2, <1>7 DEF ContentsKept, SpanOf
<1>. QED  BY <1>1, <1>2, <1>4, <1>6, <1>8 DEF KInv

\* The move becomes current: its target already holds the allocation's bytes.
LEMMA ApplyContents ==
    ASSUME BInv, KInv, ApplyMove
    PROVE  KInv'
<1>1. stage = "copied" /\ stage' = "idle" /\ content' = content /\ written' = written
  BY DEF ApplyMove
<1>2. CASE UNCHANGED governor
  <2>1. Steady /\ Current' = Current
    BY <1>2, QuerySteady DEF BInv
  <2>. QED  BY <1>1, <2>1, ContentsSame
<1>3. CASE apply_relocation(plan.id, plan.generation, plan.new_offset, plan.size)
  <2>1. /\ Current' = Current /\ plan.id \in Current
        /\ records[plan.id].generation = plan.generation
        /\ records' = [records EXCEPT ![plan.id] = MovedRecord(@, plan.new_offset, plan.size)]
    BY <1>1, <1>3, Applied
  <2>2. records \in [AllocIds -> RecordType] /\ Current \subseteq AllocIds
    BY IdFacts DEF BInv
  <2>3. /\ records'[plan.id] = MovedRecord(records[plan.id], plan.new_offset, plan.size)
        /\ records[plan.id] \in RecordType
        /\ \A j \in Current : j # plan.id => records'[j] = records[j]
    BY <2>1, <2>2
  <2>4. /\ records'[plan.id].offset = plan.new_offset
        /\ records'[plan.id].region_size = plan.size
    BY <2>3 DEF MovedRecord, RecordType
  <2>5. /\ plan.new_offset \in Nat /\ plan.size \in Nat
        /\ plan.new_offset + plan.size <= Capacity
    BY <1>1 DEF KInv, TargetClear, BInv, PlanTrue
  <2>6. ASSUME NEW id \in Current', id \in written', NEW b \in SpanOf(id)'
        PROVE  content'[b] = id
    <3>1. CASE id = plan.id
      <4>1. b \in Span(plan.new_offset, plan.size)
        BY <2>4, <2>6, <3>1 DEF SpanOf, Span
      <4>2. b \in Bytes
        BY <2>5, <4>1, CapacityAssumption DEF Span, Bytes
      <4>3. Holds(plan.id, plan.generation) /\ plan.id \in written
        BY <1>1, <2>1, <2>6, <3>1 DEF Holds
      <4>. QED  BY <1>1, <3>1, <4>1, <4>2, <4>3 DEF KInv, CopyMade
    <3>2. CASE id # plan.id
      <4>1. id \in Current \cap written /\ b \in SpanOf(id)
        BY <1>1, <2>1, <2>3, <2>6, <3>2 DEF SpanOf
      <4>. QED  BY <1>1, <4>1 DEF KInv, ContentsKept
    <3>. QED  BY <3>1, <3>2
  <2>7. ContentsKept'
    BY <2>6 DEF ContentsKept
  <2>. QED  BY <1>1, <2>1, <2>7 DEF KInv, TargetClear, CopyMade
<1>. QED  BY <1>2, <1>3 DEF ApplyMove

\* One step of anybody, with clients that leave a compaction under way alone.
LEMMA ContentsStep ==
    ASSUME Quiet, RelocationBytes = {} \/ 2 * Capacity <= WordSize,
           BInv, KInv, [CompactionNext]_cvars
    PROVE  KInv'
<1>1. ASSUME initialize \/ summary_locked \/ plan_query \/ UNCHANGED governor,
             content' = content, written' = written,
             (stage' = stage /\ plan' = plan) \/ stage' = "idle"
      PROVE  KInv'
  <2>1. Steady /\ Current' = Current
    BY <1>1, QuerySteady DEF BInv
  <2>. QED  BY <1>1, <2>1, ContentsSame
<1>2. CASE UNCHANGED cvars \/ CopyFails \/ SelectVictims
  BY <1>1, <1>2 DEF cvars, pinvars, callers, CopyFails, SelectVictims
<1>3. CASE initialize /\ UNCHANGED <<pins_held, asked, callers>>
  BY <1>1, <1>3 DEF callers
<1>4. ASSUME NEW req \in Requests, ClientRequest(req)
      PROVE  KInv'
  <2>1. /\ request_locked(req) /\ stage = "idle" /\ stage' = stage
        /\ content' = content /\ written' = written
    BY <1>4 DEF ClientRequest, PinRequest, callers
  <2>. QED  BY <2>1, RequestContents
<1>5. ASSUME NEW id \in AllocIds, NEW gen \in 1 .. MaxGeneration, ClientPin(id, gen)
      PROVE  KInv'
  <2>1. /\ pin_locked(id, gen) \/ unpin_locked(id, gen)
        /\ content' = content /\ written' = written /\ stage' = stage /\ plan' = plan
    BY <1>5 DEF ClientPin, PinClient, UnpinClient, callers
  <2>2. Steady /\ Current' = Current
    BY <2>1, PinSteady, UnpinSteady DEF BInv
  <2>. QED  BY <2>1, <2>2, ContentsSame
<1>6. ASSUME NEW id \in AllocIds, ClientWrite(id)
      PROVE  KInv'
  BY <1>6, WriteContents DEF ClientWrite
<1>7. ASSUME NEW id \in AllocIds, NEW gen \in 1 .. MaxGeneration, ClientRelease(id, gen)
      PROVE  KInv'
  BY <1>7, ReleaseContents DEF ClientRelease
<1>8. CASE PlanMove
  <2>1. /\ ReadSummary /\ stage' = "planned" /\ content' = content /\ written' = written
        /\ UNCHANGED <<records, retired, next_alloc_id, history_count, initialized, counters,
                       pressure>>
        /\ records' = records
    BY <1>8 DEF PlanMove
  <2>2. Current' = Current
    BY <2>1 DEF Current
  <2>3. /\ plan'.old_offset \in Nat /\ plan'.size \in Nat
        /\ plan'.old_offset + plan'.size <= Capacity
        /\ plan'.new_offset + plan'.size <= Capacity
        /\ \A id \in Current, b \in Bytes :
              b \in SpanOf(id) => b \notin Span(plan'.new_offset, plan'.size)
    BY <1>8, TargetOfPlan DEF BInv
  <2>4. TargetClear'
    BY <2>1, <2>2, <2>3 DEF TargetClear, SpanOf, Span
  <2>5. ContentsKept'
    BY <2>1, <2>2 DEF KInv, ContentsKept, SpanOf
  <2>. QED  BY <2>1, <2>2, <2>4, <2>5 DEF KInv, CopyMade
<1>9. CASE CopyBytes
  BY <1>9, CopyContents
<1>10. CASE ApplyMove
  BY <1>10, ApplyContents
<1>11. ASSUME NEW id \in AllocIds, Evict(id)
       PROVE  KInv'
  <2>1. stage' = stage /\ plan' = plan
    BY <1>11 DEF Evict
  <2>2. CASE release_locked(id, records[id].generation, Unset, Unset) /\ Vacate(id)
    <3>1. id \in Current
      BY <2>2 DEF release_locked, Holds
    <3>. QED  BY <2>1, <2>2, <3>1, CurrentGeneration, ReleaseContents DEF BInv
  <2>3. CASE UNCHANGED <<pinvars, content, written>>
    BY <1>1, <2>1, <2>3 DEF pinvars
  <2>. QED  BY <1>11, <2>2, <2>3 DEF Evict
<1>. QED  BY <1>2, <1>3, <1>4, <1>5, <1>6, <1>7, <1>8, <1>9, <1>10, <1>11 DEF CompactionNext

(***************************************************************************)
(* Data survives compaction: through moves, copies that fail, plans gone   *)
(* stale, releases and evictions beside a compaction under way, the bytes  *)
(* of an allocation hold what its client wrote. Clients must request       *)
(* nothing between a plan and its relocation, for nothing reserves the     *)
(* target, and not write what is being moved. The other assumption is that *)
(* of PlanCorrect: the target is then clear when the plan is made.         *)
(***************************************************************************)
THEOREM ContentsCorrect ==
    ASSUME Quiet, RelocationBytes = {} \/ 2 * Capacity <= WordSize
    PROVE  CompactionSpec => []ContentsKept
<1>1. CompactionInit => KInv
  BY DEF CompactionInit, KInv, TargetClear, CopyMade, ContentsKept
<1>2. BInv /\ KInv /\ [CompactionNext]_cvars => KInv'
  BY ContentsStep
<1>3. KInv => ContentsKept
  BY DEF KInv
<1>. QED  BY <1>1, <1>2, <1>3, CallersInvariant, PTL DEF CompactionSpec

-----------------------------------------------------------------------------
(* The gain a plan promises. *)

(* While a plan is under way its handle is good or the allocation is gone, *)
(* and if the plan promises a gain, then a range of bytes of that size     *)
(* holds the allocation, no other one and not the target.                  *)
GainOpen ==
    stage # "idle" =>
        /\ plan.id \in Current => records[plan.id].generation = plan.generation
        /\ plan.id \in Current /\ plan.after > plan.before =>
              \E lo, hi \in 0 .. Capacity :
                 /\ lo < hi /\ plan.after = hi - lo
                 /\ plan.new_offset + plan.size <= lo \/ hi <= plan.new_offset
                 /\ \A id \in Current \ {plan.id} :
                       \/ records[id].offset + records[id].region_size <= lo
                       \/ hi <= records[id].offset

\* The sum of no sizes, and of one.
LEMMA SumOfNone == SumSet({}) = 0
<1>. DEFINE Body(g) == [s \in SUBSET {} |->
                          IF s = {} THEN 0
                          ELSE LET y == CHOOSE y \in s : TRUE IN y + g[s \ {y}]]
            iter == CHOOSE g : g = Body(g)
            w == [s \in SUBSET {} |-> 0]
<1>1. SumSet({}) = iter[{}]
  BY Zenon DEF SumSet, FoldSet, MapThenFoldSet
<1>2. w = Body(w)
  OBVIOUS
<1>3. iter = Body(iter)
  BY <1>2, Zenon
<1>. HIDE DEF iter
<1>4. iter[{}] = 0
  BY <1>3, Zenon
<1>. QED  BY <1>1, <1>4

\* The sum of one number.
LEMMA SumOfOne ==
    ASSUME NEW x \in Int
    PROVE  SumSet({x}) = x
<1>. DEFINE Body(g) == [s \in SUBSET {x} |->
                          IF s = {} THEN 0
                          ELSE LET y == CHOOSE y \in s : TRUE IN y + g[s \ {y}]]
            iter == CHOOSE g : g = Body(g)
            w == [s \in SUBSET {x} |-> IF s = {} THEN 0 ELSE x]
<1>1. SumSet({x}) = iter[{x}]
  BY Zenon DEF SumSet, FoldSet, MapThenFoldSet
<1>2. w = Body(w)
  <2>. SUFFICES ASSUME NEW s \in SUBSET {x} PROVE w[s] = Body(w)[s]
    OBVIOUS
  <2>1. CASE s = {}
    BY <2>1
  <2>2. CASE s # {}
    <3>1. s = {x} /\ (CHOOSE y \in s : TRUE) = x
      BY <2>2
    <3>2. s \ {x} = {} /\ w[{}] = 0 /\ w[s] = x
      BY <2>2, <3>1
    <3>. HIDE DEF w
    <3>3. Body(w)[s] = x + w[{}]
      BY <2>2, <3>1, <3>2, Zenon
    <3>. QED  BY <3>2, <3>3
  <2>. QED  BY <2>1, <2>2
<1>3. iter = Body(iter)
  BY <1>2, Zenon
<1>. HIDE DEF iter
<1>4. iter[{}] = 0
  BY <1>3, Zenon
<1>5. iter[{x}] = x + iter[{}]
  <2>1. (CHOOSE y \in {x} : TRUE) = x /\ {x} \ {x} = {} /\ {x} # {}
    OBVIOUS
  <2>. QED  BY <1>3, <2>1, Zenon
<1>. QED  BY <1>1, <1>4, <1>5

\* The sizes of at most one region.
LEMMA SumOfAtMostOne ==
    ASSUME NEW S, \A f, g \in S : f = g, \A f \in S : f.size \in Int
    PROVE  /\ S = {} => SumSet({f.size : f \in S}) = 0
           /\ \A g \in S : SumSet({f.size : f \in S}) = g.size
<1>1. CASE S = {}
  <2>1. {f.size : f \in S} = {}
    BY <1>1
  <2>. QED  BY <1>1, <2>1, SumOfNone
<1>2. ASSUME NEW g \in S
      PROVE  SumSet({f.size : f \in S}) = g.size
  <2>1. {f.size : f \in S} = {g.size} /\ g.size \in Int
    BY <1>2
  <2>. QED  BY <2>1, SumOfOne
<1>. QED  BY <1>1, <1>2

\* The largest of the numbers a prediction compares.
LEMMA LargestOfFour ==
    ASSUME NEW a \in Int, NEW b \in Int, NEW c \in Int, NEW d \in Int
    PROVE  Max({a, b, c, d}) \in {a, b, c, d}
<1>. DEFINE S == {a, b, c, d}
<1>1. \E x \in S : \A y \in S : x >= y
  <2>1. PICK p \in {a, b} : p >= a /\ p >= b
    OBVIOUS
  <2>2. PICK q \in {c, d} : q >= c /\ q >= d
    OBVIOUS
  <2>3. p \in Int /\ q \in Int /\ (p >= q \/ q >= p)
    OBVIOUS
  <2>4. CASE p >= q
    <3>1. p \in S /\ \A y \in S : p >= y
      BY <2>1, <2>2, <2>3, <2>4
    <3>. QED  BY <3>1
  <2>5. CASE q >= p
    <3>1. q \in S /\ \A y \in S : q >= y
      BY <2>1, <2>2, <2>3, <2>5
    <3>. QED  BY <3>1
  <2>. QED  BY <2>3, <2>4, <2>5
<1>2. Max(S) = CHOOSE x \in S : \A y \in S : x >= y
  BY DEF Max
<1>. HIDE DEF S
<1>3. Max(S) \in S
  BY <1>1, <1>2
<1>. QED  BY <1>3 DEF S

\* No free region is larger than the largest one.
LEMMA LargestIsLargest ==
    ASSUME GInv, ReadSummary
    PROVE  LargestFree \in Nat /\ \A f \in FreeRegions : f.size <= LargestFree
<1>1. \A f \in FreeRegions : f.size \in Nat
  BY DEF GInv, IInv, TypeOK, RegionType, FreeRegions
<1>2. \E n \in {0} \cup {f.size : f \in FreeRegions} : \A f \in FreeRegions : f.size <= n
  <2>1. CASE ~summary_dirty
    BY <2>1 DEF GInv, IInv, SummaryFresh, IsLargest
  <2>2. CASE summary_dirty
    <3>1. PICK n : IsLargest(n, free_slots)
      BY <2>2 DEF ReadSummary, ensure_summary
    <3>2. free_slots = {Slot(r.offset, r.size) : r \in FreeRegions}
      BY DEF GInv, IInv, FreeIndexExact
    <3>3. \A r \in FreeRegions : Slot(r.offset, r.size).size = r.size
      BY DEF Slot
    <3>4. /\ \A f \in FreeRegions : \E s \in free_slots : s.size = f.size
          /\ \A s \in free_slots : \E f \in FreeRegions : s.size = f.size
      BY <3>2, <3>3, Zenon
    <3>5. n \in {0} \cup {f.size : f \in FreeRegions}
      BY <3>1, <3>4 DEF IsLargest
    <3>6. \A f \in FreeRegions : f.size <= n
      BY <3>1, <3>4 DEF IsLargest
    <3>. QED  BY <3>5, <3>6
  <2>. QED  BY <2>1, <2>2
<1>. DEFINE S == {0} \cup {f.size : f \in FreeRegions}
<1>3. S \subseteq Nat /\ 0 \in S /\ \A f \in FreeRegions : f.size \in S
  BY <1>1
<1>4. \E x \in S : \A y \in S : x >= y
  BY <1>1, <1>2
<1>5. LargestFree = CHOOSE x \in S : \A y \in S : x >= y
  BY DEF LargestFree, Max
<1>. HIDE DEF S
<1>6. LargestFree \in S /\ \A y \in S : LargestFree >= y
  BY <1>4, <1>5
<1>. QED  BY <1>1, <1>3, <1>6

\* Facts about the regions as numbers.
LEMMA RegionNumbers ==
    ASSUME GInv
    PROVE  /\ \A r \in regions : /\ r.offset \in Nat /\ r.size \in Nat \ {0}
                                 /\ EndOf(r) = r.offset + r.size /\ EndOf(r) <= Capacity
           /\ \A p, q \in regions : p = q \/ EndOf(p) <= q.offset \/ EndOf(q) <= p.offset
<1>1. \A r \in regions : /\ r.offset \in Nat /\ r.size \in Nat \ {0}
                         /\ EndOf(r) = r.offset + r.size
  BY CapacityAssumption DEF GInv, IInv, TypeOK, RegionType, Bytes, EndOf
<1>2. \A r \in regions : EndOf(r) <= Capacity
  BY DEF GInv, IInv, TypeOK
<1>. QED  BY <1>1, <1>2 DEF GInv, IInv, Tiling, NoOverlap

\* The free neighbour below m, if there is one, and where it starts.
LEMMA RoomBelow ==
    ASSUME GInv, NEW m \in regions
    PROVE  LET L == {g \in FreeRegions : EndOf(g) = m.offset}
           IN  \E lo \in 0 .. Capacity :
                  /\ m.offset - lo = SumSet({f.size : f \in L})
                  /\ \A r \in regions : r = m \/ r \in L \/ EndOf(r) <= lo \/ EndOf(m) <= r.offset
<1>. DEFINE L == {g \in FreeRegions : EndOf(g) = m.offset}
<1>1. /\ \A r \in regions : /\ r.offset \in Nat /\ r.size \in Nat \ {0}
                            /\ EndOf(r) = r.offset + r.size /\ EndOf(r) <= Capacity
      /\ \A p, q \in regions : p = q \/ EndOf(p) <= q.offset \/ EndOf(q) <= p.offset
  BY RegionNumbers
<1>2. L \subseteq regions /\ \A g \in L : EndOf(g) = m.offset
  BY DEF FreeRegions
<1>. HIDE DEF L
<1>3. \A f, g \in L : f = g
  <2>. SUFFICES ASSUME NEW f \in L, NEW g \in L, f # g PROVE FALSE
    OBVIOUS
  <2>1. EndOf(f) <= g.offset \/ EndOf(g) <= f.offset
    BY <1>1, <1>2
  <2>. QED  BY <1>1, <1>2, <2>1
<1>4. /\ L = {} => SumSet({f.size : f \in L}) = 0
      /\ \A g \in L : SumSet({f.size : f \in L}) = g.size
  BY <1>1, <1>2, <1>3, SumOfAtMostOne
<1>5. CASE L = {}
  <2>1. m.offset \in 0 .. Capacity /\ m.offset - m.offset = SumSet({f.size : f \in L})
    BY <1>1, <1>4, <1>5, CapacityAssumption
  <2>2. \A r \in regions : r = m \/ EndOf(r) <= m.offset \/ EndOf(m) <= r.offset
    BY <1>1
  <2>. QED  BY <2>1, <2>2 DEF L
<1>6. ASSUME NEW g \in L
      PROVE  /\ g.offset \in 0 .. Capacity /\ m.offset - g.offset = SumSet({f.size : f \in L})
             /\ \A r \in regions : r = m \/ r \in L \/ EndOf(r) <= g.offset \/ EndOf(m) <= r.offset
  <2>1. g.offset \in 0 .. Capacity /\ m.offset - g.offset = g.size
    BY <1>1, <1>2, CapacityAssumption
  <2>2. ASSUME NEW r \in regions, r # m, r # g
        PROVE  EndOf(r) <= g.offset \/ EndOf(m) <= r.offset
    <3>1. /\ EndOf(r) <= g.offset \/ EndOf(g) <= r.offset
          /\ EndOf(r) <= m.offset \/ EndOf(m) <= r.offset
      BY <1>1, <1>2, <2>2
    <3>. QED  BY <1>1, <1>2, <3>1
  <2>. QED  BY <1>4, <2>1, <2>2
<1>. QED  BY <1>5, <1>6 DEF L

\* The free neighbour above m, if there is one, and where it ends.
LEMMA RoomAbove ==
    ASSUME GInv, NEW m \in regions
    PROVE  LET L == {g \in FreeRegions : g.offset = EndOf(m)}
           IN  \E hi \in 0 .. Capacity :
                  /\ hi - EndOf(m) = SumSet({f.size : f \in L})
                  /\ \A r \in regions : r = m \/ r \in L \/ EndOf(r) <= m.offset \/ hi <= r.offset
<1>. DEFINE L == {g \in FreeRegions : g.offset = EndOf(m)}
<1>1. /\ \A r \in regions : /\ r.offset \in Nat /\ r.size \in Nat \ {0}
                            /\ EndOf(r) = r.offset + r.size /\ EndOf(r) <= Capacity
      /\ \A p, q \in regions : p = q \/ EndOf(p) <= q.offset \/ EndOf(q) <= p.offset
  BY RegionNumbers
<1>2. L \subseteq regions /\ \A g \in L : g.offset = EndOf(m)
  BY DEF FreeRegions
<1>. HIDE DEF L
<1>3. \A f, g \in L : f = g
  <2>. SUFFICES ASSUME NEW f \in L, NEW g \in L, f # g PROVE FALSE
    OBVIOUS
  <2>1. EndOf(f) <= g.offset \/ EndOf(g) <= f.offset
    BY <1>1, <1>2
  <2>. QED  BY <1>1, <1>2, <2>1
<1>4. /\ L = {} => SumSet({f.size : f \in L}) = 0
      /\ \A g \in L : SumSet({f.size : f \in L}) = g.size
  BY <1>1, <1>2, <1>3, SumOfAtMostOne
<1>5. CASE L = {}
  <2>1. EndOf(m) \in 0 .. Capacity /\ EndOf(m) - EndOf(m) = SumSet({f.size : f \in L})
    BY <1>1, <1>4, <1>5, CapacityAssumption
  <2>2. \A r \in regions : r = m \/ EndOf(r) <= m.offset \/ EndOf(m) <= r.offset
    BY <1>1
  <2>. QED  BY <2>1, <2>2 DEF L
<1>6. ASSUME NEW g \in L
      PROVE  /\ EndOf(g) \in 0 .. Capacity /\ EndOf(g) - EndOf(m) = SumSet({f.size : f \in L})
             /\ \A r \in regions : r = m \/ r \in L \/ EndOf(r) <= m.offset \/ EndOf(g) <= r.offset
  <2>1. EndOf(g) \in 0 .. Capacity /\ EndOf(g) - EndOf(m) = g.size
    BY <1>1, <1>2, CapacityAssumption
  <2>2. ASSUME NEW r \in regions, r # m, r # g
        PROVE  EndOf(r) <= m.offset \/ EndOf(g) <= r.offset
    <3>1. /\ EndOf(r) <= g.offset \/ EndOf(g) <= r.offset
          /\ EndOf(r) <= m.offset \/ EndOf(m) <= r.offset
      BY <1>1, <1>2, <2>2
    <3>. QED  BY <1>1, <1>2, <3>1
  <2>. QED  BY <1>4, <2>1, <2>2
<1>. QED  BY <1>5, <1>6 DEF L

\* A plan that promises a gain promises the hole the allocation leaves.
LEMMA GainIsHole ==
    ASSUME RelocationBytes = {} \/ 2 * Capacity <= WordSize, GInv, ReadSummary,
           NEW m \in Live, NEW f \in FreeRegions, MayMove(m), Target(m, f),
           PredictedLargest(m, f, LargestFree) > LargestFree
    PROVE  PredictedLargest(m, f, LargestFree) = AdjoiningFree(m) + m.size
<1>1. f \in regions /\ m \in regions
  BY DEF FreeRegions, Live
<1>2. /\ f.offset \in Nat /\ f.size \in Nat /\ EndOf(f) = f.offset + f.size
      /\ m.size \in Nat /\ m.offset \in Nat /\ EndOf(m) = m.offset + m.size
  BY <1>1, RegionNumbers
<1>3. /\ NewOffset(m, f) \in Nat /\ f.offset <= NewOffset(m, f)
      /\ NewOffset(m, f) + m.size <= EndOf(f)
  BY PlannedMove
<1>4. FrontPad(m, f) = NewOffset(m, f) - f.offset
  BY <1>2, <1>3 DEF FrontPad, sub
<1>5. LargestFree \in Nat /\ f.size <= LargestFree
  BY LargestIsLargest
<1>. DEFINE a == AdjoiningFree(m) + m.size
            p == FrontPad(m, f)
            t == f.size - FrontPad(m, f) - m.size
<1>6. p \in Int /\ t \in Int /\ p <= LargestFree /\ t <= LargestFree
  BY <1>2, <1>3, <1>4, <1>5
<1>7. a \in Int
  <2>1. PICK lo \in 0 .. Capacity :
           m.offset - lo = SumSet({g.size : g \in {g \in FreeRegions : EndOf(g) = m.offset}})
    BY <1>1, RoomBelow
  <2>2. PICK hi \in 0 .. Capacity :
           hi - EndOf(m) = SumSet({g.size : g \in {g \in FreeRegions : g.offset = EndOf(m)}})
    BY <1>1, RoomAbove
  <2>3. AdjoiningFree(m) = (m.offset - lo) + (hi - EndOf(m))
    BY <2>1, <2>2 DEF AdjoiningFree
  <2>. QED  BY <1>2, <2>3
<1>8. PredictedLargest(m, f, LargestFree) = Max({LargestFree, a, p, t})
  BY DEF PredictedLargest
<1>. HIDE DEF a, p, t
<1>9. PredictedLargest(m, f, LargestFree) \in {LargestFree, a, p, t}
  BY <1>5, <1>6, <1>7, <1>8, LargestOfFour
<1>10. PredictedLargest(m, f, LargestFree) = a
  BY <1>5, <1>6, <1>7, <1>9
<1>. QED  BY <1>10 DEF a

\* A fresh plan's promise is what its move would make of the arena.
LEMMA PlanGain ==
    ASSUME RelocationBytes = {} \/ 2 * Capacity <= WordSize, BInv, PlanMove
    PROVE  GainOpen'
<1>1. /\ ReadSummary /\ records' = records /\ stage' = "planned" /\ GInv
  BY DEF PlanMove, BInv
<1>2. Current' = Current
  BY <1>1 DEF Current
<1>3. PICK m \in Live, f \in FreeRegions :
         /\ MayMove(m) /\ Target(m, f)
         /\ plan'.id = m.alloc_id /\ plan'.generation = m.generation
         /\ plan'.old_offset = m.offset /\ plan'.size = m.size
         /\ plan'.new_offset = NewOffset(m, f)
         /\ plan'.before = LargestFree
         /\ plan'.after = PredictedLargest(m, f, LargestFree)
  BY <1>1, PlanMade
<1>4. records[m.alloc_id].generation = m.generation
  BY <1>1, Counterpart DEF Mirrors
<1>5. ASSUME plan'.after > plan'.before
      PROVE  \E lo, hi \in 0 .. Capacity :
                /\ lo < hi /\ plan'.after = hi - lo
                /\ plan'.new_offset + plan'.size <= lo \/ hi <= plan'.new_offset
                /\ \A id \in Current \ {plan'.id} :
                      \/ records[id].offset + records[id].region_size <= lo
                      \/ hi <= records[id].offset
  <2>1. m \in regions /\ f \in regions /\ m.live /\ ~f.live
    BY DEF Live, FreeRegions
  <2>2. /\ \A r \in regions : /\ r.offset \in Nat /\ r.size \in Nat \ {0}
                              /\ EndOf(r) = r.offset + r.size /\ EndOf(r) <= Capacity
    BY <1>1, RegionNumbers
  <2>. DEFINE L == {g \in FreeRegions : EndOf(g) = m.offset}
              R == {g \in FreeRegions : g.offset = EndOf(m)}
  <2>3. PICK lo \in 0 .. Capacity :
           /\ m.offset - lo = SumSet({g.size : g \in L})
           /\ \A r \in regions : r = m \/ r \in L \/ EndOf(r) <= lo \/ EndOf(m) <= r.offset
    BY <1>1, <2>1, RoomBelow
  <2>4. PICK hi \in 0 .. Capacity :
           /\ hi - EndOf(m) = SumSet({g.size : g \in R})
           /\ \A r \in regions : r = m \/ r \in R \/ EndOf(r) <= m.offset \/ hi <= r.offset
    BY <1>1, <2>1, RoomAbove
  <2>5. AdjoiningFree(m) = (m.offset - lo) + (hi - EndOf(m))
    BY <2>3, <2>4 DEF AdjoiningFree
  <2>6. plan'.after = AdjoiningFree(m) + m.size
    BY <1>1, <1>3, <1>5, GainIsHole
  <2>7. plan'.after = hi - lo
    BY <2>1, <2>2, <2>5, <2>6
  <2>8. ASSUME NEW r \in regions, r # m, r \notin L, r \notin R
        PROVE  EndOf(r) <= lo \/ hi <= r.offset
    <3>1. /\ EndOf(r) <= lo \/ EndOf(m) <= r.offset
          /\ EndOf(r) <= m.offset \/ hi <= r.offset
      BY <2>3, <2>4, <2>8
    <3>. QED  BY <2>1, <2>2, <3>1
  <2>9. f # m /\ f \notin L /\ f \notin R
    BY <1>3, <2>1 DEF Target, Neighbours
  <2>10. plan'.new_offset + plan'.size <= lo \/ hi <= plan'.new_offset
    <3>1. /\ NewOffset(m, f) \in Nat /\ f.offset <= NewOffset(m, f)
          /\ NewOffset(m, f) + m.size <= EndOf(f)
      BY <1>1, <1>3, PlannedMove
    <3>2. EndOf(f) <= lo \/ hi <= f.offset
      BY <2>1, <2>8, <2>9
    <3>. QED  BY <1>3, <2>1, <2>2, <3>1, <3>2
  <2>11. ASSUME NEW id \in Current, id # plan'.id
         PROVE  \/ records[id].offset + records[id].region_size <= lo
                \/ hi <= records[id].offset
    <3>1. PICK q \in Live : q.alloc_id = id /\ Mirrors(records[id], q) /\ q.live
      BY <1>1, Counterpart
    <3>2. q \in regions /\ q # m /\ q \notin L /\ q \notin R
      BY <1>3, <2>11, <3>1 DEF Live, FreeRegions
    <3>3. EndOf(q) <= lo \/ hi <= q.offset
      BY <2>8, <3>2
    <3>. QED  BY <2>2, <3>1, <3>2, <3>3 DEF Mirrors
  <2>12. lo < hi
    <3>1. LargestFree \in Nat
      BY <1>1, LargestIsLargest
    <3>. QED  BY <1>3, <1>5, <2>7, <3>1
  <2>. HIDE DEF L, R
  <2>. QED  BY <2>7, <2>10, <2>11, <2>12
<1>. QED  BY <1>1, <1>2, <1>3, <1>4, <1>5 DEF GainOpen

\* Calls that move and grant nothing keep the range open.
LEMMA GainSteady ==
    ASSUME BInv, GainOpen, Steady, Current' \subseteq Current, PlanKept
    PROVE  GainOpen'
<1>. SUFFICES ASSUME stage' # "idle"
              PROVE  GainOpen'
  BY DEF GainOpen
<1>1. stage # "idle" /\ plan' = plan
  BY DEF PlanKept
<1>2. plan.id \in AllocIds /\ plan.id < next_alloc_id
  BY <1>1 DEF BInv, PlanTrue
<1>3. \A id \in Current' : /\ id \in Current
                           /\ records'[id].generation = records[id].generation
                           /\ records'[id].offset = records[id].offset
                           /\ records'[id].region_size = records[id].region_size
  BY IdFacts DEF BInv, Steady
<1>4. plan.id \in Current' => records'[plan.id].generation = plan.generation
  BY <1>1, <1>3 DEF GainOpen
<1>5. ASSUME plan.id \in Current', plan.after > plan.before
      PROVE  \E lo, hi \in 0 .. Capacity :
                /\ lo < hi /\ plan.after = hi - lo
                /\ plan.new_offset + plan.size <= lo \/ hi <= plan.new_offset
                /\ \A id \in Current' \ {plan.id} :
                      \/ records'[id].offset + records'[id].region_size <= lo
                      \/ hi <= records'[id].offset
  <2>1. PICK lo, hi \in 0 .. Capacity :
           /\ lo < hi /\ plan.after = hi - lo
           /\ plan.new_offset + plan.size <= lo \/ hi <= plan.new_offset
           /\ \A id \in Current \ {plan.id} :
                 \/ records[id].offset + records[id].region_size <= lo
                 \/ hi <= records[id].offset
    BY <1>1, <1>3, <1>5 DEF GainOpen
  <2>2. \A id \in Current' \ {plan.id} :
           \/ records'[id].offset + records'[id].region_size <= lo
           \/ hi <= records'[id].offset
    BY <1>3, <2>1
  <2>. QED  BY <2>1, <2>2
<1>. QED  BY <1>1, <1>4, <1>5 DEF GainOpen

\* A range that no allocation reaches into lies in one free region: regions
\* leave no gap, and two free ones never touch.
LEMMA OpenRange ==
    ASSUME GInv, NEW lo \in 0 .. Capacity, NEW hi \in 0 .. Capacity, lo < hi,
           \A id \in Current : \/ records[id].offset + records[id].region_size <= lo
                               \/ hi <= records[id].offset
    PROVE  \E f \in FreeRegions : f.size >= hi - lo
<1>1. /\ \A r \in regions : /\ r.offset \in Nat /\ r.size \in Nat \ {0}
                            /\ EndOf(r) = r.offset + r.size /\ EndOf(r) <= Capacity
      /\ \A p, q \in regions : p = q \/ EndOf(p) <= q.offset \/ EndOf(q) <= p.offset
  BY RegionNumbers
<1>2. ASSUME NEW b \in Nat, lo <= b, b < hi
      PROVE  \E f \in FreeRegions : f.offset <= b /\ b < EndOf(f)
  <2>1. b \in Bytes
    BY <1>2, CapacityAssumption DEF Bytes
  <2>2. PICK f \in regions : f.offset <= b /\ b < EndOf(f)
    BY <2>1 DEF GInv, IInv, Tiling, Covered, Covers
  <2>3. ~f.live
    <3>. SUFFICES ASSUME f.live PROVE FALSE
      OBVIOUS
    <3>1. f.alloc_id \in Current /\ Mirrors(records[f.alloc_id], f)
      BY <2>2, Counterpart DEF Live
    <3>2. EndOf(f) <= lo \/ hi <= f.offset
      BY <1>1, <2>2, <3>1 DEF Mirrors
    <3>. QED  BY <1>1, <1>2, <2>2, <3>2
  <2>. QED  BY <2>2, <2>3 DEF FreeRegions
<1>3. PICK f \in FreeRegions : f.offset <= lo /\ lo < EndOf(f)
  BY <1>2
<1>4. f \in regions
  BY DEF FreeRegions
<1>5. hi <= EndOf(f)
  <2>. SUFFICES ASSUME EndOf(f) < hi PROVE FALSE
    BY <1>1, <1>4
  <2>1. EndOf(f) \in Nat /\ lo <= EndOf(f)
    BY <1>1, <1>3, <1>4
  <2>2. PICK g \in FreeRegions : g.offset <= EndOf(f) /\ EndOf(f) < EndOf(g)
    BY <1>2, <2>1
  <2>3. g \in regions /\ g # f
    BY <1>1, <1>4, <2>2 DEF FreeRegions
  <2>4. EndOf(f) = g.offset
    BY <1>1, <1>4, <2>2, <2>3
  <2>. QED  BY <2>2, <2>4 DEF GInv, IInv, Coalesced
<1>. QED  BY <1>1, <1>3, <1>4, <1>5

\* The same after a step.
LEMMA OpenRangeNext ==
    GInv' => \A lo, hi \in 0 .. Capacity :
                /\ lo < hi
                /\ \A id \in Current' : \/ records'[id].offset + records'[id].region_size <= lo
                                        \/ hi <= records'[id].offset
                => \E f \in FreeRegions' : f.size >= hi - lo
<1>1. GInv => \A lo, hi \in 0 .. Capacity :
                 /\ lo < hi
                 /\ \A id \in Current : \/ records[id].offset + records[id].region_size <= lo
                                        \/ hi <= records[id].offset
                 => \E f \in FreeRegions : f.size >= hi - lo
  BY OpenRange
<1>2. GInv' => (\A lo, hi \in 0 .. Capacity :
                   /\ lo < hi
                   /\ \A id \in Current : \/ records[id].offset + records[id].region_size <= lo
                                          \/ hi <= records[id].offset
                   => \E f \in FreeRegions : f.size >= hi - lo)'
  BY <1>1, PTL
<1>. QED  BY <1>2

\* The move leaves the hole behind.
LEMMA ApplyGain ==
    ASSUME BInv, GainOpen, stage = "copied", plan.after > plan.before,
           apply_relocation(plan.id, plan.generation, plan.new_offset, plan.size)
    PROVE  \E f \in FreeRegions' : f.size >= plan.after
<1>1. /\ GInv' /\ Current' = Current /\ plan.id \in Current
      /\ records' = [records EXCEPT ![plan.id] = MovedRecord(@, plan.new_offset, plan.size)]
  BY Applied
<1>2. records \in [AllocIds -> RecordType] /\ Current \subseteq AllocIds
  BY IdFacts DEF BInv
<1>3. /\ records'[plan.id] = MovedRecord(records[plan.id], plan.new_offset, plan.size)
      /\ records[plan.id] \in RecordType
      /\ \A j \in Current : j # plan.id => records'[j] = records[j]
  BY <1>1, <1>2
<1>4. records'[plan.id].offset = plan.new_offset /\ records'[plan.id].region_size = plan.size
  BY <1>3 DEF MovedRecord, RecordType
<1>5. PICK lo, hi \in 0 .. Capacity :
         /\ lo < hi /\ plan.after = hi - lo
         /\ plan.new_offset + plan.size <= lo \/ hi <= plan.new_offset
         /\ \A id \in Current \ {plan.id} :
               \/ records[id].offset + records[id].region_size <= lo
               \/ hi <= records[id].offset
  BY <1>1 DEF GainOpen
<1>6. \A id \in Current' : \/ records'[id].offset + records'[id].region_size <= lo
                           \/ hi <= records'[id].offset
  BY <1>1, <1>3, <1>4, <1>5
<1>7. PICK f \in FreeRegions' : f.size >= hi - lo
  BY <1>1, <1>5, <1>6, OpenRangeNext
<1>. QED  BY <1>5, <1>7

\* A step after which the planned move has been made leaves what was promised.
GainMade ==
    stage = "copied" /\ records'[plan.id].generation > plan.generation
        /\ plan.after > plan.before
      => \E f \in FreeRegions' : f.size >= plan.after

\* Only apply_relocation() advances a generation.
LEMMA NoGainElsewhere ==
    ASSUME BInv, GainOpen, Steady
    PROVE  GainMade
<1>. SUFFICES ASSUME stage = "copied", records'[plan.id].generation > plan.generation
              PROVE  FALSE
  BY DEF GainMade
<1>1. /\ plan.id \in AllocIds /\ plan.id < next_alloc_id
      /\ plan.generation \in 1 .. MaxGeneration
  BY DEF BInv, PlanTrue
<1>2. plan.generation \in Nat /\ plan.generation >= 1
  BY <1>1
<1>3. CASE plan.id \in Current'
  <2>1. records'[plan.id].generation = plan.generation
    BY <1>1, <1>3 DEF Steady, GainOpen
  <2>. QED  BY <1>2, <2>1
<1>4. CASE plan.id \notin Current'
  <2>1. records'[plan.id] = NoRecord
    BY <1>1, <1>4 DEF Current
  <2>2. records'[plan.id].generation = 0
    BY <2>1, Unrecorded
  <2>. QED  BY <1>2, <2>2
<1>. QED  BY <1>3, <1>4

\* A promise stays good until the move is made, and is then kept.
LEMMA GainStep ==
    ASSUME Quiet, RelocationBytes = {} \/ 2 * Capacity <= WordSize,
           BInv, GainOpen, [CompactionNext]_cvars
    PROVE  GainOpen' /\ GainMade
<1>1. ASSUME Steady, Current' \subseteq Current, PlanKept
      PROVE  GainOpen' /\ GainMade
  BY <1>1, GainSteady, NoGainElsewhere
<1>2. ASSUME initialize \/ summary_locked \/ plan_query \/ UNCHANGED governor, PlanKept
      PROVE  GainOpen' /\ GainMade
  BY <1>1, <1>2, QuerySteady DEF BInv
<1>3. CASE UNCHANGED cvars \/ CopyBytes \/ CopyFails \/ SelectVictims
  <2>1. UNCHANGED governor /\ PlanKept
    BY <1>3 DEF cvars, pinvars, callers, CopyBytes, CopyFails, SelectVictims, PlanKept
  <2>. QED  BY <1>2, <2>1
<1>4. CASE initialize /\ UNCHANGED <<pins_held, asked, callers>>
  <2>1. PlanKept
    BY <1>4, SamePlan DEF callers
  <2>. QED  BY <1>2, <1>4, <2>1
<1>5. ASSUME NEW req \in Requests, ClientRequest(req)
      PROVE  GainOpen' /\ GainMade
  BY <1>5 DEF ClientRequest, callers, GainOpen, GainMade
<1>6. ASSUME NEW id \in AllocIds, NEW gen \in 1 .. MaxGeneration, ClientPin(id, gen)
      PROVE  GainOpen' /\ GainMade
  <2>1. pin_locked(id, gen) \/ unpin_locked(id, gen)
    BY <1>6 DEF ClientPin, PinClient, UnpinClient
  <2>2. PlanKept
    BY <1>6, SamePlan DEF ClientPin, callers
  <2>3. Steady /\ Current' = Current
    BY <2>1, PinSteady, UnpinSteady DEF BInv
  <2>. QED  BY <1>1, <2>2, <2>3
<1>7. ASSUME NEW id \in AllocIds, ClientWrite(id)
      PROVE  GainOpen' /\ GainMade
  <2>1. UNCHANGED governor /\ PlanKept
    BY <1>7, SamePlan DEF ClientWrite, pinvars
  <2>. QED  BY <1>2, <2>1
<1>8. ASSUME NEW id \in AllocIds, NEW gen \in 1 .. MaxGeneration,
             release_locked(id, gen, Unset, Unset), stage' = stage, plan' = plan
      PROVE  GainOpen' /\ GainMade
  <2>1. Steady /\ Current' \subseteq Current
    BY <1>8, ReleaseSteady DEF BInv
  <2>. QED  BY <1>1, <1>8, <2>1, SamePlan
<1>9. ASSUME NEW id \in AllocIds, NEW gen \in 1 .. MaxGeneration, ClientRelease(id, gen)
      PROVE  GainOpen' /\ GainMade
  BY <1>8, <1>9 DEF ClientRelease
<1>10. CASE PlanMove
  BY <1>10, PlanGain DEF PlanMove, GainMade
<1>11. CASE ApplyMove
  <2>1. stage = "copied" /\ stage' = "idle"
    BY <1>11 DEF ApplyMove
  <2>2. GainOpen'
    BY <2>1 DEF GainOpen
  <2>3. CASE apply_relocation(plan.id, plan.generation, plan.new_offset, plan.size)
    BY <2>1, <2>2, <2>3, ApplyGain DEF GainMade
  <2>4. CASE UNCHANGED governor
    BY <1>2, <2>1, <2>4 DEF PlanKept
  <2>. QED  BY <1>11, <2>3, <2>4 DEF ApplyMove
<1>12. ASSUME NEW id \in AllocIds, Evict(id)
       PROVE  GainOpen' /\ GainMade
  <2>1. stage' = stage /\ plan' = plan
    BY <1>12 DEF Evict
  <2>2. CASE release_locked(id, records[id].generation, Unset, Unset)
    <3>1. id \in Current
      BY <2>2 DEF release_locked, Holds
    <3>. QED  BY <1>8, <2>1, <2>2, <3>1, CurrentGeneration DEF BInv
  <2>3. CASE UNCHANGED pinvars
    BY <1>2, <2>1, <2>3, SamePlan DEF pinvars
  <2>. QED  BY <1>12, <2>2, <2>3 DEF Evict
<1>. QED  BY <1>3, <1>4, <1>5, <1>6, <1>7, <1>9, <1>10, <1>11, <1>12 DEF CompactionNext

(***************************************************************************)
(* A plan that promises a larger free region than there is keeps its       *)
(* promise, however many releases, evictions, pins and failed steps come   *)
(* between the plan and the relocation: the gain is always the hole the    *)
(* allocation leaves with its free neighbours, the target is none of them, *)
(* and the arena merges what it frees.                                     *)
(***************************************************************************)
THEOREM PromisedGainCorrect ==
    ASSUME Quiet, RelocationBytes = {} \/ 2 * Capacity <= WordSize
    PROVE  CompactionSpec => PromisedGain
<1>1. CompactionInit => GainOpen
  BY DEF CompactionInit, GainOpen
<1>2. BInv /\ GainOpen /\ [CompactionNext]_cvars => GainOpen'
  BY GainStep
<1>3. BInv /\ GainOpen /\ [CompactionNext]_cvars =>
         [(stage = "copied" /\ records'[plan.id].generation > plan.generation
             /\ plan.after > plan.before)
            => \E f \in FreeRegions' : f.size >= plan.after]_cvars
  BY GainStep DEF GainMade
<1>. QED  BY <1>1, <1>2, <1>3, CallersInvariant, PTL DEF CompactionSpec, PromisedGain
==============================================================================
