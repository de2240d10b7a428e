---------------------------- MODULE GovernorProofs ----------------------------
(***************************************************************************)
(* Proofs about MemoryGovernor, for every capacity, word size, set of ids, *)
(* set of requests and watermarks.                                         *)
(***************************************************************************)
EXTENDS MemoryGovernor, RegionAllocatorProofs, WellFoundedInduction

-----------------------------------------------------------------------------
(* The inductive invariant.                                                *)

\* A record that counts a pin is not movable. The count and the movability
\* are set by different code in request, pin and unpin, and reclaim and
\* planning exclude by either.
PinnedNotMovable ==
    \A id \in Current : records[id].pin_count > 0 => records[id].movability = "PINNED"

\* A request's alignment divides its rounded size, which fits the arena; a
\* relocation to another size keeps only the second.
AlignmentFits ==
    \A id \in Current : /\ records[id].alignment <= Capacity
                        /\ RelocationBytes = {} => records[id].alignment <= records[id].region_size

(***************************************************************************)
(* What every public method finds under the lock and restores before it    *)
(* lets go. The arena's invariant is a part of it: the records and the     *)
(* arena agree only because a handle names one region there, and the       *)
(* counters agree only because the arena's are exact.                      *)
(***************************************************************************)
GInv ==
    /\ IInv
    /\ GovernorTypeOK
    /\ RecordsMirrorArena
    /\ IdsFresh
    /\ PinnedNotMovable
    /\ AlignmentFits
    /\ RelocationBytes = {} => CommittedExact

\* A step of the arena that concerns no allocation but id.
OthersKept(id) == \A q \in Live' : q \in Live \/ q.alloc_id = id

-----------------------------------------------------------------------------
(* Lemmas about records. *)

\* The default record is in neither map; a record with a generation is.
LEMMA Unrecorded ==
    /\ NoRecord.generation = 0
    /\ \A rec \in RecordType : rec.generation >= 1 => rec # NoRecord
  BY DEF NoRecord

\* The region of a current record, and the record of a live region.
LEMMA Counterpart ==
    ASSUME GInv
    PROVE  /\ \A id \in Current : \E r \in Live :
                 /\ r.alloc_id = id /\ Mirrors(records[id], r) /\ RegionSound(r) /\ r.live
                 /\ r.generation >= 1 /\ alloc_offset[id] = r.offset
           /\ \A r \in Live : r.alloc_id \in Current /\ Mirrors(records[r.alloc_id], r)
<1>1. \A r \in Live : r.live /\ RegionSound(r) /\ r.alloc_id \in Current
                      /\ alloc_offset[r.alloc_id] = r.offset /\ r.generation >= 1
  BY LiveFacts DEF GInv, IInv, AllocIndexExact, RecordsMirrorArena, RegionSound
<1>2. \A id \in Current : \E r \in Live : r.alloc_id = id /\ Mirrors(records[id], r)
  BY DEF GInv, RecordsMirrorArena
<1>3. \A p, q \in Live : p.alloc_id = q.alloc_id => p = q
  BY LiveFacts DEF GInv
<1>. QED  BY <1>1, <1>2, <1>3

\* The region an accepted handle names is the record's.
LEMMA HandleRegion ==
    ASSUME GInv, NEW id \in AllocIds, NEW gen, Holds(id, gen),
           NEW r \in Live, r.alloc_id = id
    PROVE  /\ Mirrors(records[id], r) /\ r \in RegionType /\ r.generation = gen
           /\ alloc_offset[id] = r.offset
           /\ records[id] \in RecordType /\ id < next_alloc_id /\ id \notin Retired
           /\ id \in Current /\ records[id].generation = gen /\ gen >= 1 /\ gen \in Nat
<1>1. id \in Current /\ records[id].generation = gen
  BY DEF Holds
<1>2. Mirrors(records[id], r)
  BY Counterpart
<1>3. r \in RegionType /\ r.live /\ r.generation >= 1 /\ alloc_offset[id] = r.offset
  BY LiveFacts DEF GInv, IInv, AllocIndexExact, RegionSound
<1>4. records[id] \in RecordType /\ id < next_alloc_id /\ id \notin Retired
  BY <1>1 DEF GInv, GovernorTypeOK, IdsFresh
<1>5. gen \in Nat
  BY <1>1, <1>4, BoundAssumption DEF RecordType
<1>. QED  BY <1>1, <1>2, <1>3, <1>4, <1>5 DEF Mirrors

(***************************************************************************)
(* One entry of both books changes together: the record of id becomes rec  *)
(* and the arena's region for id becomes m, where id may have had none.    *)
(***************************************************************************)
LEMMA EntryWritten ==
    ASSUME GInv, NEW id \in AllocIds, NEW rec \in RecordType, rec.generation >= 1,
           records' = [records EXCEPT ![id] = rec],
           NEW m, m.alloc_id = id, Mirrors(rec, m),
           NEW K, Live' = K \cup {m}, K \subseteq Live,
           \A q \in Live : q.alloc_id # id => q \in K,
           rec.pin_count > 0 => rec.movability = "PINNED",
           rec.alignment <= Capacity,
           RelocationBytes = {} => rec.alignment <= rec.region_size
    PROVE  /\ RecordsMirrorArena'
           /\ Current' = Current \cup {id}
           /\ records' \in [AllocIds -> RecordType]
           /\ PinnedNotMovable' /\ AlignmentFits'
<1>1. records \in [AllocIds -> RecordType]
  BY DEF GInv, GovernorTypeOK
<1>2. /\ records' \in [AllocIds -> RecordType] /\ records'[id] = rec
      /\ \A j \in AllocIds : j # id => records'[j] = records[j]
  BY <1>1
<1>3. rec # NoRecord
  BY Unrecorded
<1>4. Current' = Current \cup {id}
  BY <1>2, <1>3 DEF Current
<1>5. \A r \in Live' : r.alloc_id \in Current'
  BY <1>4, Counterpart
<1>6. ASSUME NEW j \in Current'
      PROVE  \E r \in Live' : r.alloc_id = j /\ Mirrors(records'[j], r)
  <2>1. CASE j = id
    BY <1>2, <2>1
  <2>2. CASE j # id
    <3>1. j \in Current /\ j \in AllocIds
      BY <1>4, <2>2 DEF Current
    <3>2. PICK r \in Live : r.alloc_id = j /\ Mirrors(records[j], r)
      BY <3>1, Counterpart
    <3>. QED  BY <1>2, <2>2, <3>1, <3>2
  <2>. QED  BY <2>1, <2>2
<1>7. RecordsMirrorArena'
  BY <1>5, <1>6 DEF RecordsMirrorArena, Mirrors
<1>8. PinnedNotMovable' /\ AlignmentFits'
  BY <1>2, <1>4 DEF GInv, PinnedNotMovable, AlignmentFits, Current
<1>. QED  BY <1>2, <1>4, <1>7, <1>8

-----------------------------------------------------------------------------
(* Each public method preserves the invariant. The lemmas also say what it *)
(* does to the records, for the clients above.                             *)

\* The counters of the arena are natural numbers.
LEMMA LiveBytesNat ==
    /\ IInv => live_bytes \in Nat
    /\ IInv' => live_bytes' \in Nat
<1>1. IInv => live_bytes \in Nat
  BY LiveFacts DEF IInv, ExactAccounting
<1>2. IInv' => (live_bytes \in Nat)'
  BY <1>1, PTL
<1>. QED  BY <1>1, <1>2

\* A request a client may issue, once validated.
LEMMA RequestFacts ==
    ASSUME NEW req \in Requests
    PROVE  /\ req.bytes \in WordValues /\ req.alignment \in WordValues
           /\ CommittedMovability(req) \in Movability
           /\ req.reclaimability \in Reclaimability /\ req.requires_pin \in BOOLEAN
           /\ req.worker_boot \in WorkerBoots /\ req.source_boot \in SourceBoots
           /\ req.backing_ref \in BackingRef
<1>1. req \in RequestType /\ req.bytes \in RequestBytes /\ req.alignment \in Alignments
  BY RequestsAssumption
<1>. QED  BY <1>1, RequestAssumption DEF RequestType, CommittedMovability, WordValues, Movability

\* request, granted: a record is entered under the next id.
LEMMA GrantedStep ==
    ASSUME GInv, NEW req \in Requests, request_locked(req), Granted(next_alloc_id, req)
    PROVE  /\ GInv'
           /\ \E off \in Bytes :
                 LET rec == NewRecord(req, off)
                 IN  /\ records' = [records EXCEPT ![next_alloc_id] = rec]
                     /\ rec \in RecordType
           /\ Current' = Current \cup {next_alloc_id} /\ OthersKept(next_alloc_id)
<1>. DEFINE id == next_alloc_id
            mov == CommittedMovability(req)
            need == align_up(req.bytes, req.alignment)
<1>1. /\ id \in AllocIds /\ validate_request(req) /\ next_alloc_id' = id + 1
      /\ Allocate(id, 1, req.bytes, req.alignment, mov)
      /\ records' = [records EXCEPT ![id] = NewRecord(req, alloc_offset'[id])]
      /\ CountGranted(mov, need)
      /\ retired' = retired /\ history_count' = history_count
      /\ initialized' = initialized /\ pressure' = pressure
  BY DEF request_locked, Granted, ConsumeId
<1>2. /\ req.bytes \in WordValues /\ req.alignment \in WordValues /\ mov \in Movability
      /\ req.reclaimability \in Reclaimability /\ req.requires_pin \in BOOLEAN
      /\ req.worker_boot \in WorkerBoots /\ req.source_boot \in SourceBoots
      /\ req.backing_ref \in BackingRef
  BY RequestFacts
<1>3. IInv /\ IInv'
      /\ \E off \in Bytes :
            LET m == LiveRegion(off, need, id, 1, req.alignment, mov)
            IN  /\ Live' = Live \cup {m} /\ RegionSound(m)
                /\ alloc_offset'[id] = off
                /\ \A q \in Live : Apart(q, m) /\ q.alloc_id # id
  BY <1>1, <1>2, AllocateStep DEF GInv
<1>4. PICK off \in Bytes :
            LET m == LiveRegion(off, need, id, 1, req.alignment, mov)
            IN  /\ Live' = Live \cup {m} /\ RegionSound(m)
                /\ alloc_offset'[id] = off
                /\ \A q \in Live : Apart(q, m) /\ q.alloc_id # id
  BY <1>3
<1>. DEFINE m == LiveRegion(off, need, id, 1, req.alignment, mov)
            rec == NewRecord(req, off)
<1>5. need \in 1 .. Capacity /\ req.alignment <= need /\ req.alignment \in Nat \ {0}
  BY <1>1, <1>2, RoundedSize DEF Allocate
<1>6. /\ Live' = Live \cup {m} /\ m.alloc_id = id
      /\ records' = [records EXCEPT ![id] = rec]
      /\ live_bytes' = live_bytes + need
  BY <1>1, <1>4 DEF LiveRegion, Allocate
<1>7. req.bytes \in 0 .. Capacity /\ req.alignment \in 1 .. WordSize - 1
  BY <1>1, <1>2, <1>5, CapacityAssumption, WordAssumption DEF validate_request, WordValues
<1>8. rec \in RecordType
  BY <1>2, <1>5, <1>7, CapacityAssumption, BoundAssumption, PinBoundAssumption
  DEF NewRecord, RecordType, Lifecycle
<1>9. /\ rec.generation = 1 /\ rec.alignment = req.alignment /\ rec.region_size = need
      /\ rec.pin_count > 0 => rec.movability = "PINNED"
      /\ Mirrors(rec, m)
  BY <1>2 DEF NewRecord, CommittedMovability, Mirrors, LiveRegion
<1>. HIDE DEF m, rec, need, mov
<1>10. /\ RecordsMirrorArena' /\ Current' = Current \cup {id}
       /\ records' \in [AllocIds -> RecordType]
       /\ PinnedNotMovable' /\ AlignmentFits'
  <2>1. rec.generation >= 1 /\ rec.alignment <= Capacity /\ rec.alignment <= rec.region_size
    BY <1>5, <1>9, CapacityAssumption
  <2>2. \A q \in Live : q.alloc_id # id => q \in Live
    OBVIOUS
  <2>. QED  BY <1>1, <1>6, <1>8, <1>9, <2>1, <2>2, EntryWritten
<1>11. /\ current_committed' = current_committed + need
       /\ current_committed' \in Nat /\ current_movable' \in Nat /\ current_pinned' \in Nat
  BY <1>1, <1>5, CapacityAssumption DEF GInv, GovernorTypeOK, CountGranted
<1>12. GovernorTypeOK'
  BY <1>1, <1>10, <1>11 DEF GInv, GovernorTypeOK
<1>13. IdsFresh'
  <2>1. Retired' = Retired
    BY <1>1 DEF Retired
  <2>2. id \in Nat /\ AllocIds \subseteq Nat
    BY GovernorIdAssumption DEF GInv, GovernorTypeOK
  <2>3. id \notin Retired
    BY <2>2 DEF GInv, IdsFresh
  <2>4. Current \subseteq Nat /\ Retired \subseteq Nat
    BY <2>2 DEF Current, Retired
  <2>. QED  BY <1>1, <1>10, <2>1, <2>2, <2>3, <2>4 DEF GInv, IdsFresh
<1>14. RelocationBytes = {} => CommittedExact'
  BY <1>6, <1>11 DEF GInv, CommittedExact
<1>15. OthersKept(id)
  BY <1>6 DEF OthersKept
<1>. QED  BY <1>3, <1>6, <1>8, <1>10, <1>12, <1>13, <1>14, <1>15 DEF GInv, rec

\* A step that changes neither the records nor what the arena holds.
LEMMA BooksKept ==
    ASSUME GInv, IInv', Live' = Live, live_bytes' = live_bytes, records' = records,
           retired' = retired, next_alloc_id' \in Nat, next_alloc_id <= next_alloc_id',
           history_count' = history_count, initialized' \in BOOLEAN,
           UNCHANGED counters, pressure' \in PressureState
    PROVE  GInv' /\ Current' = Current
<1>1. /\ current_committed' = current_committed /\ current_movable' = current_movable
      /\ current_pinned' = current_pinned
  BY DEF counters
<1>2. Current' = Current /\ Retired' = Retired
  BY DEF Current, Retired
<1>3. next_alloc_id \in Nat \ {0} /\ next_alloc_id' \in Nat \ {0}
  BY DEF GInv, GovernorTypeOK
<1>4. GovernorTypeOK'
  BY <1>1, <1>3 DEF GInv, GovernorTypeOK
<1>5. RecordsMirrorArena'
  BY <1>2 DEF GInv, RecordsMirrorArena, Mirrors
<1>6. IdsFresh'
  <2>1. \A id \in Current \cup Retired : id \in Nat
    BY GovernorIdAssumption DEF Current, Retired
  <2>. QED  BY <1>2, <1>3, <2>1 DEF GInv, IdsFresh
<1>7. PinnedNotMovable' /\ AlignmentFits'
  BY <1>2 DEF GInv, PinnedNotMovable, AlignmentFits
<1>8. RelocationBytes = {} => CommittedExact'
  BY <1>1 DEF GInv, CommittedExact
<1>. QED  BY <1>2, <1>4, <1>5, <1>6, <1>7, <1>8 DEF GInv

\* request, refused: the id is consumed all the same.
LEMMA RefusedStep ==
    ASSUME GInv, NEW req \in Requests, request_locked(req), Refused(req)
    PROVE  GInv' /\ records' = records /\ Current' = Current /\ Live' = Live
<1>1. /\ next_alloc_id' = next_alloc_id + 1 /\ UNCHANGED arena /\ records' = records
      /\ UNCHANGED counters /\ retired' = retired /\ history_count' = history_count
      /\ initialized' = initialized /\ pressure' = pressure
  BY DEF request_locked, Refused, ConsumeId
<1>2. IInv' /\ Live' = Live /\ live_bytes' = live_bytes
  BY <1>1, UnchangedStep DEF GInv, arena
<1>3. next_alloc_id \in Nat /\ initialized' \in BOOLEAN /\ pressure' \in PressureState
  BY <1>1 DEF GInv, GovernorTypeOK
<1>4. next_alloc_id' \in Nat /\ next_alloc_id <= next_alloc_id'
  BY <1>1, <1>3
<1>. QED  BY <1>1, <1>2, <1>3, <1>4, BooksKept

\* evaluate_pressure() answers with a pressure state.
LEMMA PressureType ==
    ASSUME NEW used, NEW capacity, NEW last
    PROVE  evaluate_pressure(used, capacity, last) \in PressureState
  BY DEF evaluate_pressure, classify_pressure, Relaxed, PressureState

\* initialize, summary and plan_compaction read the books and keep them.
LEMMA QueryStep ==
    ASSUME GInv, initialize \/ summary_locked \/ plan_query \/ UNCHANGED governor
    PROVE  /\ GInv' /\ records' = records /\ retired' = retired /\ Current' = Current
           /\ Live' = Live
<1>1. /\ records' = records /\ retired' = retired /\ next_alloc_id' = next_alloc_id
      /\ history_count' = history_count /\ UNCHANGED counters
      /\ initialized' = initialized \/ initialized' = TRUE
      /\ \/ pressure' = pressure
         \/ pressure' = evaluate_pressure(live_bytes, Capacity, pressure)
      /\ ensure_summary \/ UNCHANGED arena
  BY DEF initialize, summary_locked, plan_query, ReadSummary, governor
<1>2. IInv' /\ Live' = Live /\ live_bytes' = live_bytes
  BY <1>1, SummaryStep, UnchangedStep DEF GInv, arena
<1>3. /\ next_alloc_id \in Nat /\ initialized' \in BOOLEAN /\ pressure' \in PressureState
  <2>1. next_alloc_id \in Nat /\ initialized \in BOOLEAN /\ pressure \in PressureState
    BY DEF GInv, GovernorTypeOK
  <2>2. pressure' \in PressureState
    BY <1>1, <2>1, PressureType
  <2>3. initialized' \in BOOLEAN
    BY <1>1, <2>1, Zenon
  <2>. QED  BY <2>1, <2>2, <2>3
<1>4. next_alloc_id' \in Nat /\ next_alloc_id <= next_alloc_id'
  BY <1>1, <1>3
<1>. QED  BY <1>1, <1>2, <1>3, <1>4, BooksKept

\* release: the record passes from one map to the other.
LEMMA ReleaseLockedStep ==
    ASSUME GInv, NEW id \in AllocIds, NEW gen \in 1 .. MaxGeneration, NEW wb, NEW sb,
           release_locked(id, gen, wb, sb)
    PROVE  /\ GInv'
           /\ records' = [records EXCEPT ![id] = NoRecord]
           /\ Current' = Current \ {id} /\ id \in Current /\ Unheld(id)
           /\ \A j \in Retired : retired'[j] = retired[j]
           /\ OthersKept(id)
<1>. DEFINE rec == [records[id] EXCEPT !.lifecycle = "RELEASED"]
<1>1. /\ Holds(id, gen) /\ Unheld(id) /\ Free(id, gen)
      /\ retired' = [retired EXCEPT ![id] = rec]
      /\ records' = [records EXCEPT ![id] = NoRecord]
      /\ CountReleased(records[id])
      /\ history_count' = history_count + 1
      /\ next_alloc_id' = next_alloc_id /\ initialized' = initialized /\ pressure' = pressure
  BY DEF release_locked
<1>2. IInv' /\ \E r \in Live : /\ r.alloc_id = id /\ r.generation = gen
                               /\ Live' = Live \ {r} /\ live_bytes' = live_bytes - r.size
  BY <1>1, FreeStep DEF GInv
<1>3. PICK r \in Live : /\ r.alloc_id = id /\ Live' = Live \ {r}
                        /\ live_bytes' = live_bytes - r.size
  BY <1>2
<1>4. /\ Mirrors(records[id], r) /\ records[id] \in RecordType /\ id \in Current
      /\ id < next_alloc_id /\ id \notin Retired /\ r \in RegionType
      /\ records[id].generation >= 1
  BY <1>1, <1>3, HandleRegion
<1>5. /\ records \in [AllocIds -> RecordType] /\ retired \in [AllocIds -> RecordType]
      /\ history_count \in Nat
      /\ current_committed \in Nat /\ current_movable \in Nat /\ current_pinned \in Nat
  BY DEF GInv, GovernorTypeOK
<1>6. NoRecord \in RecordType
  BY CapacityAssumption, WordAssumption, BoundAssumption
  DEF NoRecord, RecordType, Bytes, Reclaimability, Movability, Lifecycle, BackingRef
<1>7. rec \in RecordType /\ rec.generation >= 1
  BY <1>4 DEF RecordType, Lifecycle
<1>8. rec # NoRecord
  BY <1>7, Unrecorded
<1>. HIDE DEF rec
<1>9. /\ records' \in [AllocIds -> RecordType] /\ retired' \in [AllocIds -> RecordType]
      /\ records'[id] = NoRecord /\ retired'[id] = rec
      /\ \A j \in AllocIds : j # id => records'[j] = records[j] /\ retired'[j] = retired[j]
  BY <1>1, <1>5, <1>6, <1>7
<1>10. Current' = Current \ {id} /\ Retired' = Retired \cup {id}
  BY <1>8, <1>9 DEF Current, Retired
<1>11. \A q \in Live : q.alloc_id = id => q = r
  BY <1>3, LiveFacts DEF GInv
<1>12. RecordsMirrorArena'
  <2>1. \A q \in Live' : q.alloc_id \in Current'
    BY <1>3, <1>10, <1>11, Counterpart
  <2>2. ASSUME NEW j \in Current'
        PROVE  \E q \in Live' : q.alloc_id = j /\ Mirrors(records'[j], q)
    <3>1. j \in Current /\ j # id /\ j \in AllocIds
      BY <1>10 DEF Current
    <3>2. PICK q \in Live : q.alloc_id = j /\ Mirrors(records[j], q)
      BY <3>1, Counterpart
    <3>. QED  BY <1>3, <1>9, <3>1, <3>2
  <2>. QED  BY <2>1, <2>2 DEF RecordsMirrorArena, Mirrors
<1>13. records[id].region_size \in Nat /\ records[id].region_size = r.size
  BY <1>4, CapacityAssumption DEF RecordType, Mirrors
<1>14. /\ current_committed' = sub(current_committed, r.size)
       /\ current_committed' \in Nat /\ current_movable' \in Nat /\ current_pinned' \in Nat
  BY <1>1, <1>5, <1>13 DEF CountReleased, sub
<1>15. GovernorTypeOK'
  BY <1>1, <1>5, <1>9, <1>14 DEF GInv, GovernorTypeOK
<1>16. IdsFresh'
  BY <1>1, <1>4, <1>10 DEF GInv, IdsFresh
<1>17. PinnedNotMovable' /\ AlignmentFits'
  BY <1>9, <1>10 DEF GInv, PinnedNotMovable, AlignmentFits, Current
<1>18. RelocationBytes = {} => CommittedExact'
  <2>1. live_bytes' \in Nat /\ live_bytes \in Nat
    BY <1>2, LiveBytesNat DEF GInv
  <2>2. r.size \in Nat
    BY <1>13
  <2>. QED  BY <1>3, <1>14, <2>1, <2>2 DEF GInv, CommittedExact, sub
<1>19. \A j \in Retired : retired'[j] = retired[j]
  BY <1>4, <1>9 DEF Retired
<1>20. OthersKept(id)
  BY <1>3 DEF OthersKept
<1>. QED  BY <1>1, <1>2, <1>4, <1>10, <1>12, <1>15, <1>16, <1>17, <1>18, <1>19, <1>20 DEF GInv

(***************************************************************************)
(* A method that rewrites the record and the region of one current         *)
(* allocation and leaves the ids and the committed bytes alone: pin,       *)
(* unpin, apply_relocation.                                                *)
(***************************************************************************)
LEMMA EntryUpdated ==
    ASSUME GInv, IInv', NEW id \in Current, NEW rec \in RecordType, rec.generation >= 1,
           records' = [records EXCEPT ![id] = rec],
           NEW r \in Live, r.alloc_id = id, NEW m, m.alloc_id = id, Mirrors(rec, m),
           Live' = (Live \ {r}) \cup {m},
           rec.pin_count > 0 => rec.movability = "PINNED",
           rec.alignment <= Capacity,
           RelocationBytes = {} => rec.alignment <= rec.region_size,
           RelocationBytes = {} => live_bytes' = live_bytes,
           current_committed' = current_committed,
           current_movable' \in Nat, current_pinned' \in Nat,
           retired' = retired, next_alloc_id' = next_alloc_id,
           history_count' = history_count, initialized' = initialized, pressure' = pressure
    PROVE  GInv' /\ Current' = Current
<1>1. id \in AllocIds
  BY DEF Current
<1>2. \A q \in Live : q.alloc_id # id => q \in Live \ {r}
  OBVIOUS
<1>3. /\ RecordsMirrorArena' /\ Current' = Current \cup {id}
      /\ records' \in [AllocIds -> RecordType]
      /\ PinnedNotMovable' /\ AlignmentFits'
  <2>. DEFINE K == Live \ {r}
  <2>1. K \subseteq Live /\ Live' = K \cup {m} /\ \A q \in Live : q.alloc_id # id => q \in K
    BY <1>2
  <2>. HIDE DEF K
  <2>. QED  BY <1>1, <2>1, EntryWritten
<1>4. Current' = Current /\ Retired' = Retired
  BY <1>3 DEF Retired
<1>5. GovernorTypeOK'
  BY <1>3 DEF GInv, GovernorTypeOK
<1>6. IdsFresh'
  BY <1>4 DEF GInv, IdsFresh
<1>7. RelocationBytes = {} => CommittedExact'
  BY DEF GInv, CommittedExact
<1>. QED  BY <1>3, <1>4, <1>5, <1>6, <1>7 DEF GInv

\* After pin or unpin the governor looks the region up again and finds the
\* one the arena has just rewritten.
LEMMA LookedUp ==
    ASSUME GInv, NEW id \in AllocIds, NEW r \in Live, r.alloc_id = id,
           NEW m, Live' = (Live \ {r}) \cup {m}, alloc_offset' = alloc_offset,
           NEW q, RegionNext(q, id)
    PROVE  q = m
<1>1. q \in Live' /\ q.offset = alloc_offset[id]
  BY DEF RegionNext, Live
<1>2. alloc_offset[id] = r.offset
  BY DEF GInv, IInv, AllocIndexExact
<1>. QED  BY <1>1, <1>2, LiveFacts DEF GInv

\* What the invariant says of one current record.
LEMMA RecordFacts ==
    ASSUME GInv, NEW id \in Current
    PROVE  /\ records[id].alignment <= Capacity
           /\ RelocationBytes = {} => records[id].alignment <= records[id].region_size
           /\ records[id].pin_count > 0 => records[id].movability = "PINNED"
           /\ records[id].region_size \in Nat
           /\ current_movable \in Nat /\ current_pinned \in Nat
<1>1. records[id] \in RecordType
  BY DEF GInv, GovernorTypeOK, Current
<1>. QED  BY <1>1, CapacityAssumption
     DEF GInv, GovernorTypeOK, PinnedNotMovable, AlignmentFits, RecordType

\* pin: the record copies the count the arena has just raised.
LEMMA PinLockedStep ==
    ASSUME GInv, NEW id \in AllocIds, NEW gen \in 1 .. MaxGeneration, pin_locked(id, gen)
    PROVE  /\ GInv' /\ Current' = Current /\ retired' = retired /\ id \in Current
           /\ \E r \in Live :
                 /\ r.alloc_id = id /\ r.pin_count \in Nat
                 /\ Mirrors(records[id], r)
                 /\ records' = [records EXCEPT ![id] = PinCopy(@, Pinned(r))]
                 /\ Pinned(r).pin_count = r.pin_count + 1 /\ Pinned(r).alloc_id = id
                 /\ Live' = (Live \ {r}) \cup {Pinned(r)}
<1>1. /\ Holds(id, gen) /\ Pin(id, gen)
      /\ \E q \in regions' : /\ RegionNext(q, id)
                             /\ records' = [records EXCEPT ![id] = PinCopy(@, q)]
      /\ current_movable' = sub(current_movable, records[id].region_size)
      /\ current_pinned' = current_pinned + records[id].region_size
      /\ current_committed' = current_committed /\ pressure' = pressure
      /\ retired' = retired /\ next_alloc_id' = next_alloc_id
      /\ history_count' = history_count /\ initialized' = initialized
  BY DEF pin_locked
<1>2. /\ IInv' /\ live_bytes' = live_bytes /\ alloc_offset' = alloc_offset
      /\ \E r \in Live : /\ r.alloc_id = id
                         /\ Live' = (Live \ {r}) \cup {Pinned(r)} /\ RegionSound(Pinned(r))
  BY <1>1, PinStep DEF GInv
<1>3. PICK r \in Live : /\ r.alloc_id = id
                        /\ Live' = (Live \ {r}) \cup {Pinned(r)} /\ RegionSound(Pinned(r))
  BY <1>2
<1>4. /\ Mirrors(records[id], r) /\ r \in RegionType /\ records[id] \in RecordType
      /\ id \in Current /\ records[id].generation >= 1
  BY <1>1, <1>3, HandleRegion
<1>. DEFINE m == Pinned(r)
            rec == PinCopy(records[id], m)
<1>5. /\ m.alloc_id = id /\ m.offset = r.offset /\ m.size = r.size
      /\ m.generation = r.generation /\ m.alignment = r.alignment
      /\ m.movability = "PINNED" /\ m.pin_count = r.pin_count + 1
      /\ r.pin_count \in Nat /\ m.pin_count \in 0 .. MaxPins
  <2>1. m.pin_count \in 0 .. MaxPins /\ m.movability \in Movability
    <3>1. m \in RegionType
      BY <1>3 DEF RegionSound
    <3>. QED  BY <3>1 DEF RegionType
  <2>. QED  BY <1>3, <1>4, <2>1, BoundAssumption DEF Pinned, RegionType
<1>6. PICK q \in regions' : /\ RegionNext(q, id)
                            /\ records' = [records EXCEPT ![id] = PinCopy(@, q)]
  BY <1>1
<1>. HIDE DEF m
<1>7. q = m
  <2>1. Live' = (Live \ {r}) \cup {m}
    BY <1>3 DEF m
  <2>. QED  BY <1>2, <1>3, <1>6, <2>1, LookedUp
<1>8. /\ rec \in RecordType /\ rec.generation >= 1 /\ rec.movability = "PINNED"
      /\ rec.alignment = records[id].alignment /\ rec.region_size = records[id].region_size
  BY <1>4, <1>5 DEF PinCopy, RecordType, Movability, Lifecycle
<1>9. Mirrors(rec, m)
  <2>1. /\ rec.offset = records[id].offset /\ rec.region_size = records[id].region_size
        /\ rec.generation = records[id].generation /\ rec.alignment = records[id].alignment
        /\ rec.movability = "PINNED" /\ rec.pin_count = m.pin_count /\ rec.lifecycle = "PINNED"
    BY <1>4 DEF PinCopy, RecordType
  <2>2. /\ r.offset = records[id].offset /\ r.size = records[id].region_size
        /\ r.generation = records[id].generation /\ r.alignment = records[id].alignment
    BY <1>4 DEF Mirrors
  <2>. HIDE DEF rec
  <2>. QED  BY <1>5, <2>1, <2>2 DEF Mirrors
<1>10. records' = [records EXCEPT ![id] = rec]
  BY <1>6, <1>7
<1>. HIDE DEF rec
<1>11. /\ rec.alignment <= Capacity /\ (RelocationBytes = {} => rec.alignment <= rec.region_size)
       /\ current_movable' \in Nat /\ current_pinned' \in Nat
  BY <1>1, <1>4, <1>8, RecordFacts DEF sub
<1>12. GInv' /\ Current' = Current
  BY <1>1, <1>2, <1>3, <1>4, <1>5, <1>8, <1>9, <1>10, <1>11, EntryUpdated DEF m
<1>. QED  BY <1>1, <1>4, <1>5, <1>3, <1>6, <1>7, <1>12 DEF m

\* unpin: the record copies the count and the movability the arena leaves.
LEMMA UnpinLockedStep ==
    ASSUME GInv, NEW id \in AllocIds, NEW gen \in 1 .. MaxGeneration, unpin_locked(id, gen)
    PROVE  /\ GInv' /\ Current' = Current /\ retired' = retired /\ id \in Current
           /\ \E r \in Live :
                 /\ r.alloc_id = id /\ r.pin_count \in Nat \ {0}
                 /\ Mirrors(records[id], r) /\ records[id].pin_count = r.pin_count
                 /\ records' = [records EXCEPT ![id] = UnpinCopy(@, Unpinned(r))]
                 /\ Unpinned(r).pin_count = r.pin_count - 1 /\ Unpinned(r).alloc_id = id
                 /\ r.pin_count = 1 => Unpinned(r).movability = "MOVABLE"
                 /\ Live' = (Live \ {r}) \cup {Unpinned(r)}
<1>. DEFINE n == records[id].region_size
<1>1. /\ Holds(id, gen) /\ Unpin(id, gen)
      /\ \E q \in regions' :
            /\ RegionNext(q, id)
            /\ records' = [records EXCEPT ![id] = UnpinCopy(@, q)]
            /\ current_pinned' = IF q.pin_count = 0 THEN sub(current_pinned, n) ELSE current_pinned
            /\ current_movable' = IF q.pin_count = 0 THEN current_movable + n ELSE current_movable
      /\ current_committed' = current_committed /\ pressure' = pressure
      /\ retired' = retired /\ next_alloc_id' = next_alloc_id
      /\ history_count' = history_count /\ initialized' = initialized
  BY DEF unpin_locked
<1>2. /\ IInv' /\ live_bytes' = live_bytes /\ alloc_offset' = alloc_offset
      /\ \E r \in Live : /\ r.alloc_id = id /\ r.pin_count # 0
                         /\ Live' = (Live \ {r}) \cup {Unpinned(r)} /\ RegionSound(Unpinned(r))
  BY <1>1, UnpinStep DEF GInv
<1>3. PICK r \in Live : /\ r.alloc_id = id /\ r.pin_count # 0
                        /\ Live' = (Live \ {r}) \cup {Unpinned(r)} /\ RegionSound(Unpinned(r))
  BY <1>2
<1>4. /\ Mirrors(records[id], r) /\ r \in RegionType /\ records[id] \in RecordType
      /\ id \in Current /\ records[id].generation >= 1
  BY <1>1, <1>3, HandleRegion
<1>. DEFINE m == Unpinned(r)
            rec == UnpinCopy(records[id], m)
<1>5. /\ m.alloc_id = id /\ m.offset = r.offset /\ m.size = r.size
      /\ m.generation = r.generation /\ m.alignment = r.alignment
      /\ m.pin_count = r.pin_count - 1 /\ m.movability \in Movability
      /\ m.movability = IF r.pin_count = 1 THEN "MOVABLE" ELSE r.movability
      /\ r.pin_count \in Nat \ {0} /\ m.pin_count \in 0 .. MaxPins
  <2>1. m.pin_count \in 0 .. MaxPins /\ m.movability \in Movability
    <3>1. m \in RegionType
      BY <1>3 DEF RegionSound
    <3>. QED  BY <3>1 DEF RegionType
  <2>. QED  BY <1>3, <1>4, <2>1, BoundAssumption DEF Unpinned, RegionType
<1>6. PICK q \in regions' :
            /\ RegionNext(q, id)
            /\ records' = [records EXCEPT ![id] = UnpinCopy(@, q)]
            /\ current_pinned' = IF q.pin_count = 0 THEN sub(current_pinned, n) ELSE current_pinned
            /\ current_movable' = IF q.pin_count = 0 THEN current_movable + n ELSE current_movable
  BY <1>1
<1>. HIDE DEF m
<1>7. q = m
  <2>1. Live' = (Live \ {r}) \cup {m}
    BY <1>3 DEF m
  <2>. QED  BY <1>2, <1>3, <1>6, <2>1, LookedUp
<1>8. /\ rec \in RecordType /\ rec.generation >= 1
      /\ rec.alignment = records[id].alignment /\ rec.region_size = records[id].region_size
      /\ rec.movability = m.movability /\ rec.pin_count = m.pin_count
  BY <1>4, <1>5 DEF UnpinCopy, RecordType, Lifecycle
<1>9. Mirrors(rec, m)
  <2>1. /\ rec.offset = records[id].offset /\ rec.region_size = records[id].region_size
        /\ rec.generation = records[id].generation /\ rec.alignment = records[id].alignment
        /\ rec.movability = m.movability /\ rec.pin_count = m.pin_count
        /\ rec.lifecycle = IF m.pin_count = 0 THEN "RESIDENT" ELSE "PINNED"
    BY <1>4 DEF UnpinCopy, RecordType
  <2>2. /\ r.offset = records[id].offset /\ r.size = records[id].region_size
        /\ r.generation = records[id].generation /\ r.alignment = records[id].alignment
    BY <1>4 DEF Mirrors
  <2>. HIDE DEF rec
  <2>. QED  BY <1>5, <2>1, <2>2 DEF Mirrors
<1>10. records' = [records EXCEPT ![id] = rec]
  BY <1>6, <1>7
<1>11. records[id].pin_count = r.pin_count /\ records[id].movability = r.movability
  BY <1>4, <1>5 DEF Mirrors
<1>. HIDE DEF rec
<1>12. rec.pin_count > 0 => rec.movability = "PINNED"
  BY <1>4, <1>5, <1>8, <1>11, RecordFacts
<1>13. /\ rec.alignment <= Capacity /\ (RelocationBytes = {} => rec.alignment <= rec.region_size)
       /\ current_movable' \in Nat /\ current_pinned' \in Nat
  BY <1>4, <1>6, <1>8, RecordFacts DEF sub
<1>14. GInv' /\ Current' = Current
  BY <1>1, <1>2, <1>3, <1>4, <1>5, <1>8, <1>9, <1>10, <1>12, <1>13, EntryUpdated DEF m
<1>. QED  BY <1>1, <1>3, <1>4, <1>5, <1>6, <1>7, <1>11, <1>14 DEF m

\* apply_relocation: record and region take the new place together.
LEMMA RelocationStep ==
    ASSUME GInv, NEW id \in AllocIds, NEW gen \in 1 .. MaxGeneration,
           NEW lo \in 0 .. Capacity, NEW n \in RelocationBytes \cup {records[id].region_size},
           apply_relocation(id, gen, lo, n)
    PROVE  /\ GInv' /\ Current' = Current /\ retired' = retired
           /\ id \in Current /\ Unheld(id)
           /\ records' = [records EXCEPT ![id] = MovedRecord(@, lo, n)]
           /\ OthersKept(id) /\ records[id].generation = gen
<1>. DEFINE align == records[id].alignment
            rec == MovedRecord(records[id], lo, n)
<1>1. /\ Holds(id, gen) /\ Unheld(id) /\ Relocate(id, gen, lo, n, align)
      /\ records' = [records EXCEPT ![id] = rec]
      /\ UNCHANGED counters /\ pressure' = pressure
      /\ retired' = retired /\ next_alloc_id' = next_alloc_id
      /\ history_count' = history_count /\ initialized' = initialized
  BY DEF apply_relocation
<1>2. records[id] \in RecordType
  BY DEF GInv, GovernorTypeOK
<1>3. n \in WordValues /\ align \in WordValues
  BY <1>2, RequestsAssumption, CapacityAssumption, WordAssumption DEF RecordType, WordValues
<1>4. /\ IInv' /\ lo \in Bytes /\ n \in 1 .. Capacity /\ gen < MaxGeneration
      /\ \E r \in Live : LET m == Moved(r, lo, n, align)
                         IN  /\ r.alloc_id = id /\ Live' = (Live \ {r}) \cup {m}
                             /\ live_bytes' = live_bytes + n - r.size
  BY <1>1, <1>3, RelocateStep DEF GInv
<1>5. PICK r \in Live : LET m == Moved(r, lo, n, align)
                        IN  /\ r.alloc_id = id /\ Live' = (Live \ {r}) \cup {m}
                            /\ live_bytes' = live_bytes + n - r.size
  BY <1>4
<1>6. r.alloc_id = id /\ live_bytes' = live_bytes + n - r.size
  BY <1>5
<1>7. /\ Mirrors(records[id], r) /\ r \in RegionType /\ r.generation = gen
      /\ id \in Current /\ records[id].generation = gen /\ gen >= 1
  BY <1>1, <1>6, HandleRegion
<1>. DEFINE m == Moved(r, lo, n, align)
<1>8. /\ m.alloc_id = id /\ m.offset = lo /\ m.size = n /\ m.alignment = align
      /\ m.generation = gen + 1 /\ m.movability = r.movability /\ m.pin_count = r.pin_count
  BY <1>6, <1>7 DEF Moved, RegionType
<1>9. records[id].pin_count = 0 /\ r.pin_count = 0 /\ r.movability = records[id].movability
      /\ r.size = records[id].region_size
  BY <1>1, <1>7 DEF Unheld, Mirrors
<1>10. gen + 1 \in 0 .. MaxGeneration /\ gen + 1 >= 1 /\ n \in 0 .. Capacity
  BY <1>4, BoundAssumption, CapacityAssumption
<1>11. /\ rec \in RecordType /\ rec.generation = gen + 1 /\ rec.alignment = align
       /\ rec.region_size = n /\ rec.pin_count = 0 /\ rec.offset = lo
       /\ rec.movability = records[id].movability /\ rec.lifecycle = "RESIDENT"
  BY <1>2, <1>4, <1>7, <1>9, <1>10 DEF MovedRecord, RecordType, Lifecycle
<1>12. Live' = (Live \ {r}) \cup {m}
  BY <1>5
<1>. HIDE DEF m, rec
<1>13. Mirrors(rec, m)
  BY <1>8, <1>9, <1>11 DEF Mirrors
<1>14. /\ rec.alignment <= Capacity /\ (RelocationBytes = {} => rec.alignment <= rec.region_size)
       /\ current_movable \in Nat /\ current_pinned \in Nat
  BY <1>7, <1>11, RecordFacts
<1>15. RelocationBytes = {} => live_bytes' = live_bytes
  <2>1. live_bytes \in Nat
    BY LiveBytesNat DEF GInv
  <2>2. RelocationBytes = {} => n = r.size
    BY <1>9
  <2>. QED  BY <1>4, <1>6, <2>1, <2>2
<1>16. /\ current_committed' = current_committed /\ current_movable' \in Nat
       /\ current_pinned' \in Nat
  BY <1>1, <1>14 DEF counters
<1>17. rec.generation >= 1 /\ rec.pin_count = 0 /\ (rec.pin_count > 0 => rec.movability = "PINNED")
  BY <1>10, <1>11
<1>18. GInv' /\ Current' = Current
  BY <1>1, <1>4, <1>6, <1>7, <1>8, <1>11, <1>12, <1>13, <1>14, <1>15, <1>16, <1>17, EntryUpdated
<1>19. OthersKept(id)
  BY <1>8, <1>12 DEF OthersKept
<1>. QED  BY <1>1, <1>7, <1>18, <1>19 DEF rec

-----------------------------------------------------------------------------
(* The invariant holds in every state of the governor. *)

\* A new governor satisfies it.
LEMMA GovernorInitStep == Init => GInv
<1>. SUFFICES ASSUME Init PROVE GInv
  OBVIOUS
<1>1. IInv
  BY InitStep DEF Init
<1>2. Live = {}
  BY DEF Init, ArenaInit, Live, FreeRegion
<1>3. Current = {} /\ Retired = {}
  BY DEF Init, Current, Retired
<1>4. NoRecord \in RecordType
  BY CapacityAssumption, WordAssumption, BoundAssumption
  DEF NoRecord, RecordType, Bytes, Reclaimability, Movability, Lifecycle, BackingRef
<1>5. GovernorTypeOK
  <2>1. initialized \in BOOLEAN
    BY Zenon DEF Init
  <2>2. pressure \in PressureState
    BY DEF Init, PressureState
  <2>. QED  BY <1>4, <2>1, <2>2 DEF Init, GovernorTypeOK
<1>6. RecordsMirrorArena /\ IdsFresh /\ PinnedNotMovable /\ AlignmentFits
  BY <1>2, <1>3 DEF RecordsMirrorArena, IdsFresh, PinnedNotMovable, AlignmentFits
<1>7. CommittedExact
  BY DEF Init, ArenaInit, CommittedExact
<1>. QED  BY <1>1, <1>5, <1>6, <1>7 DEF GInv

\* Every call of every client keeps it.
LEMMA GovernorStep == GInv /\ [Next]_governor => GInv'
<1>. SUFFICES ASSUME GInv, [Next]_governor PROVE GInv'
  OBVIOUS
<1>1. CASE initialize \/ summary_locked \/ plan_query \/ UNCHANGED governor
  BY <1>1, QueryStep
<1>2. ASSUME NEW req \in Requests, request_locked(req) PROVE GInv'
  <2>1. Granted(next_alloc_id, req) \/ Refused(req)
    BY <1>2 DEF request_locked
  <2>. QED  BY <1>2, <2>1, GrantedStep, RefusedStep
<1>3. ASSUME NEW id \in AllocIds, NEW gen \in 1 .. MaxGeneration,
             NEW wb \in WorkerBoots, NEW sb \in SourceBoots, release_locked(id, gen, wb, sb)
      PROVE  GInv'
  BY <1>3, ReleaseLockedStep
<1>4. ASSUME NEW id \in AllocIds, NEW gen \in 1 .. MaxGeneration, pin_locked(id, gen)
      PROVE  GInv'
  BY <1>4, PinLockedStep
<1>5. ASSUME NEW id \in AllocIds, NEW gen \in 1 .. MaxGeneration, unpin_locked(id, gen)
      PROVE  GInv'
  BY <1>5, UnpinLockedStep
<1>6. ASSUME NEW id \in AllocIds, NEW gen \in 1 .. MaxGeneration, NEW lo \in 0 .. Capacity,
             NEW n \in RelocationBytes \cup {records[id].region_size},
             apply_relocation(id, gen, lo, n)
      PROVE  GInv'
  BY <1>6, RelocationStep
<1>. QED  BY <1>1, <1>2, <1>3, <1>4, <1>5, <1>6 DEF Next

(***************************************************************************)
(* Every call of every client, in whatever order, keeps the governor's     *)
(* books and the arena's together.                                         *)
(***************************************************************************)
THEOREM GovernorInvariant == Spec => []GInv
<1>1. Init => GInv
  BY GovernorInitStep
<1>2. GInv /\ [Next]_governor => GInv'
  BY GovernorStep
<1>. QED  BY <1>1, <1>2, PTL DEF Spec

(* The governor's state keeps its types: every field of every record, the  *)
(* saturating counters and the pressure.                                   *)
THEOREM GovernorTypeCorrect == Spec => []GovernorTypeOK
<1>1. GInv => GovernorTypeOK
  BY DEF GInv
<1>. QED  BY <1>1, GovernorInvariant, PTL

(***************************************************************************)
(* The records and the arena agree: a handle the governor accepts is never *)
(* refused by the arena half-way through a call.                           *)
(***************************************************************************)
THEOREM RecordsCorrect == Spec => []RecordsMirrorArena
<1>1. GInv => RecordsMirrorArena
  BY DEF GInv
<1>. QED  BY <1>1, GovernorInvariant, PTL

(* No allocation id is handed out twice, also after refused requests. *)
THEOREM IdsCorrect == Spec => []IdsFresh
<1>1. GInv => IdsFresh
  BY DEF GInv
<1>. QED  BY <1>1, GovernorInvariant, PTL

(***************************************************************************)
(* With relocations that keep the size of what they move, the domain's     *)
(* committed counter equals the arena's live bytes: its saturating         *)
(* subtraction never saturates.                                            *)
(***************************************************************************)
THEOREM CommittedCorrect ==
    ASSUME RelocationBytes = {}
    PROVE  Spec => []CommittedExact
<1>1. GInv => CommittedExact
  BY DEF GInv
<1>. QED  BY <1>1, GovernorInvariant, PTL

(***************************************************************************)
(* Whatever reclaim_candidates() returns can be released at once: neither  *)
(* the record nor the arena counts a pin on it.                            *)
(***************************************************************************)
THEOREM ReclaimCorrect == Spec => []ReclaimSafe
<1>1. GInv => ReclaimSafe
  <2>. SUFFICES ASSUME GInv, NEW id \in Eligible
                PROVE  /\ Unheld(id)
                       /\ \E r \in Live : /\ Named(r, id, records[id].generation)
                                          /\ r.pin_count = 0 /\ r.movability = "MOVABLE"
    BY DEF ReclaimSafe, reclaim_candidates
  <2>1. id \in Current /\ records[id].pin_count = 0 /\ records[id].movability = "MOVABLE"
    BY DEF Eligible, Reclaimable
  <2>2. PICK r \in Live : /\ Mirrors(records[id], r) /\ r.live /\ alloc_offset[id] = r.offset
    BY <2>1, Counterpart
  <2>3. r \in regions
    BY DEF Live
  <2>. QED  BY <2>1, <2>2, <2>3 DEF Unheld, Named, Mirrors
<1>. QED  BY <1>1, GovernorInvariant, PTL

\* align_up() without a wrap reaches an aligned offset at or past its argument.
LEMMA AlignUpReaches ==
    ASSUME NEW v \in Nat, NEW align \in Nat \ {0}, v + (align - 1) < WordSize
    PROVE  LET y == align_up(v, align) IN y \in Nat /\ y % align = 0 /\ v <= y
<1>. DEFINE x == v + (align - 1)
            y == x - (x % align)
<1>1. x \in Nat /\ v <= x /\ WordSize \in Nat \ {0} /\ x < 2 * WordSize
  BY WordAssumption, CapacityAssumption
<1>2. x % WordSize = x
  BY <1>1, WordMod
<1>3. align_up(v, align) = y
  BY <1>1, <1>2 DEF align_up
<1>4. y \in Nat /\ y % align = 0 /\ y <= x /\ x < y + align
  BY <1>1, RoundDown
<1>. HIDE DEF y
<1>. QED  BY <1>3, <1>4

\* The target of a move that plan_compaction() considers.
LEMMA PlannedMove ==
    ASSUME RelocationBytes = {} \/ 2 * Capacity <= WordSize, GInv,
           NEW m \in Live, NEW f \in FreeRegions, MayMove(m), Target(m, f)
    PROVE  /\ Holds(m.alloc_id, m.generation)
           /\ Unheld(m.alloc_id)
           /\ ValidTarget(m, NewOffset(m, f), m.size, records[m.alloc_id].alignment)
           /\ NewOffset(m, f) \in Nat
           /\ f.offset <= NewOffset(m, f) /\ NewOffset(m, f) + m.size <= EndOf(f)
<1>. DEFINE id == m.alloc_id
            align == m.alignment
            lo == NewOffset(m, f)
<1>1. id \in Current /\ Mirrors(records[id], m)
  BY Counterpart
<1>2. m.movability = "MOVABLE" /\ m.pin_count = 0
  BY DEF MayMove
<1>3. Holds(id, m.generation)
  BY <1>1 DEF Holds, Mirrors
<1>4. Unheld(id)
  <2>1. records[id].movability # "PINNED"
    BY <1>1, <1>2 DEF Mirrors
  <2>2. ~(records[id].pin_count > 0)
    BY <1>1, <2>1, RecordFacts
  <2>3. records[id].pin_count \in {0, 1}
    BY <1>1, <1>2 DEF Mirrors
  <2>. QED  BY <2>2, <2>3 DEF Unheld
<1>5. /\ records[id].alignment = align /\ align <= Capacity
      /\ RelocationBytes = {} => align <= m.size
  BY <1>1, RecordFacts DEF Mirrors
<1>6. /\ m.offset \in Bytes /\ m.size \in 1 .. Capacity /\ align \in Nat \ {0}
      /\ is_pow2(align)
  BY LiveFacts DEF GInv, IInv, Aligned, RegionSound, RegionType
<1>7. /\ f.offset \in Bytes /\ f.size \in 1 .. Capacity /\ EndOf(f) = f.offset + f.size
      /\ EndOf(f) <= Capacity
  BY DEF GInv, IInv, TypeOK, RegionType, FreeRegions, EndOf
<1>8. /\ f.size >= m.size /\ FrontPad(m, f) <= f.size /\ m.size <= f.size - FrontPad(m, f)
  BY DEF Target
<1>9. f.offset \in Nat /\ f.offset + (align - 1) < WordSize
  BY <1>5, <1>6, <1>7, <1>8, CapacityAssumption, WordAssumption DEF Bytes
<1>10. lo \in Nat /\ lo % align = 0 /\ f.offset <= lo
  BY <1>6, <1>9, AlignUpReaches DEF NewOffset
<1>. HIDE DEF lo
<1>11. FrontPad(m, f) = lo - f.offset
  BY <1>9, <1>10 DEF FrontPad, sub, lo
<1>12. lo + m.size <= EndOf(f)
  BY <1>6, <1>7, <1>8, <1>9, <1>10, <1>11, CapacityAssumption DEF Bytes
<1>13. ASSUME NEW q \in regions, q.live
       PROVE  ~Overlaps(q, lo, lo + m.size)
  <2>1. q # f /\ f \in regions
    BY <1>13 DEF FreeRegions
  <2>2. EndOf(q) <= f.offset \/ EndOf(f) <= q.offset
    BY <2>1 DEF GInv, IInv, Tiling, NoOverlap
  <2>3. q.offset \in Int /\ EndOf(q) \in Int
    BY DEF GInv, IInv, TypeOK, RegionType, EndOf, Bytes
  <2>. QED  BY <1>6, <1>7, <1>9, <1>10, <1>12, <2>2, <2>3, CapacityAssumption
       DEF Overlaps, Bytes
<1>14. ValidTarget(m, lo, m.size, align)
  BY <1>6, <1>7, <1>9, <1>10, <1>12, <1>13, CapacityAssumption DEF ValidTarget
<1>. QED  BY <1>3, <1>4, <1>5, <1>10, <1>12, <1>14 DEF lo

(***************************************************************************)
(* A compaction plan can be applied to the state it was made in. The       *)
(* target is computed by align_up(), whose 64-bit sum wraps to 0 at the    *)
(* top of the address space, and plan_compaction() takes the wrapped       *)
(* value for an offset. It cannot wrap while relocations keep sizes, for   *)
(* then a region is at least as large as its alignment; nor in an arena of *)
(* at most half the address space, which every device is.                  *)
(***************************************************************************)
THEOREM PlanCorrect ==
    ASSUME RelocationBytes = {} \/ 2 * Capacity <= WordSize
    PROVE  Spec => []PlanApplies
<1>1. GInv => PlanApplies
  BY PlannedMove DEF PlanApplies, plan_compaction, Moves
<1>. QED  BY <1>1, GovernorInvariant, PTL

-----------------------------------------------------------------------------
(* What a step may never do. *)

\* No call touches the record of a released allocation.
LEMMA RetiredKept ==
    ASSUME GInv, Next
    PROVE  \A id \in Retired : retired'[id] = retired[id]
<1>1. ASSUME NEW id \in AllocIds, NEW gen \in 1 .. MaxGeneration,
             NEW wb \in WorkerBoots, NEW sb \in SourceBoots, release_locked(id, gen, wb, sb)
      PROVE  \A j \in Retired : retired'[j] = retired[j]
  BY <1>1, ReleaseLockedStep
<1>2. CASE retired' = retired
  BY <1>2
<1>. QED  BY <1>1, <1>2 DEF Next, initialize, request_locked, pin_locked, unpin_locked,
                            apply_relocation, summary_locked, plan_query

(***************************************************************************)
(* A released allocation stays released, under the record it had then.     *)
(***************************************************************************)
THEOREM RetiredCorrect == Spec => RetiredForever
<1>1. GInv /\ [Next]_governor => [\A id \in Retired : retired'[id] = retired[id]]_governor
  BY RetiredKept
<1>. QED  BY <1>1, GovernorInvariant, PTL DEF Spec, RetiredForever

(***************************************************************************)
(* Pressure that has reached HIGH or CRITICAL is not relaxed before        *)
(* utilization has fallen below the low watermark, for every setting of    *)
(* the watermarks that WatermarkConfig::valid accepts.                     *)
(***************************************************************************)
THEOREM HysteresisCorrect == Spec => Hysteresis
<1>1. [Next]_governor =>
        [(pressure \in {"HIGH", "CRITICAL"} /\ pressure' \in {"LOW", "NORMAL"})
            => Under(live_bytes, Capacity, Low)]_governor
  <2>. SUFFICES ASSUME Next, pressure \in {"HIGH", "CRITICAL"}, pressure' \in {"LOW", "NORMAL"}
                PROVE  Under(live_bytes, Capacity, Low)
    OBVIOUS
  <2>1. pressure' = pressure \/ pressure' = evaluate_pressure(live_bytes, Capacity, pressure)
    BY DEF Next, initialize, request_locked, release_locked, pin_locked, unpin_locked,
           apply_relocation, summary_locked, plan_query
  <2>2. pressure' = classify_pressure(live_bytes, Capacity, pressure)
    BY <2>1, CapacityAssumption DEF evaluate_pressure
  <2>. QED  BY <2>2 DEF classify_pressure, Held
<1>. QED  BY <1>1, PTL DEF Spec, Hysteresis

-----------------------------------------------------------------------------
(* The movable and pinned counters. *)

\* The bytes under the regions of L of one movability.
BytesOf(L, mov) == Cardinality(OccupiedBy({r \in L : r.movability = mov}))

\* Well-formed regions without overlap.
Separate(L) == (\A q \in L : RegionSound(q)) /\ \A p, q \in L : p = q \/ Apart(p, q)

LEMMA BytesAreOf ==
    ASSUME NEW mov
    PROVE  BytesWith(mov) = BytesOf(Live, mov) /\ BytesWith(mov)' = BytesOf(Live', mov)
<1>1. /\ {b \in Bytes : \E r \in Live : r.movability = mov /\ Covers(r, b)}
           = OccupiedBy({r \in Live : r.movability = mov})
      /\ {b \in Bytes : \E r \in Live' : r.movability = mov /\ Covers(r, b)}
           = OccupiedBy({r \in Live' : r.movability = mov})
  BY DEF OccupiedBy, CoveredBy
<1>. QED  BY <1>1, Zenon DEF BytesWith, BytesOf

\* A region added or taken away counts for its own movability.
LEMMA BytesOfAdded ==
    ASSUME NEW L, NEW m, Separate(L), RegionSound(m), \A q \in L : Apart(q, m), NEW mov
    PROVE  /\ BytesOf(L, mov) \in Nat
           /\ BytesOf(L \cup {m}, mov)
                = BytesOf(L, mov) + (IF m.movability = mov THEN m.size ELSE 0)
<1>. DEFINE W == {r \in L : r.movability = mov}
<1>1. BytesOf(L, mov) \in Nat
  BY OccupiedFinite, FS_CardinalityType DEF BytesOf
<1>2. CASE m.movability = mov
  <2>1. {r \in L \cup {m} : r.movability = mov} = W \cup {m}
    BY <1>2
  <2>2. (\A q \in W : RegionSound(q)) /\ \A q \in W : Apart(q, m)
    BY DEF Separate
  <2>. HIDE DEF W
  <2>3. Cardinality(OccupiedBy(W \cup {m})) = Cardinality(OccupiedBy(W)) + m.size
    BY <2>2, OccupiedAdd
  <2>. QED  BY <1>1, <1>2, <2>1, <2>3 DEF BytesOf, W
<1>3. CASE m.movability # mov
  <2>1. {r \in L \cup {m} : r.movability = mov} = W
    BY <1>3
  <2>2. BytesOf(L \cup {m}, mov) = BytesOf(L, mov)
    BY <2>1, Zenon DEF BytesOf
  <2>. QED  BY <1>1, <1>3, <2>2
<1>. QED  BY <1>1, <1>2, <1>3

LEMMA BytesOfRemoved ==
    ASSUME NEW L, NEW r \in L, Separate(L), NEW mov
    PROVE  /\ BytesOf(L \ {r}, mov) \in Nat
           /\ BytesOf(L, mov)
                = BytesOf(L \ {r}, mov) + (IF r.movability = mov THEN r.size ELSE 0)
<1>1. (L \ {r}) \cup {r} = L
  OBVIOUS
<1>2. Separate(L \ {r}) /\ RegionSound(r) /\ \A q \in L \ {r} : Apart(q, r)
  BY DEF Separate
<1>. DEFINE K == L \ {r}
<1>. HIDE DEF K
<1>3. /\ BytesOf(K, mov) \in Nat
      /\ BytesOf(K \cup {r}, mov) = BytesOf(K, mov) + (IF r.movability = mov THEN r.size ELSE 0)
  BY <1>2, BytesOfAdded DEF K
<1>. QED  BY <1>1, <1>3 DEF K

\* A region replaced by another one in its place.
LEMMA BytesOfReplaced ==
    ASSUME NEW L, NEW r \in L, NEW m, Separate(L), RegionSound(m),
           \A q \in L \ {r} : Apart(q, m), NEW mov
    PROVE  \E rest \in Nat :
              /\ BytesOf(L, mov) = rest + (IF r.movability = mov THEN r.size ELSE 0)
              /\ BytesOf((L \ {r}) \cup {m}, mov)
                    = rest + (IF m.movability = mov THEN m.size ELSE 0)
<1>1. \A v : /\ BytesOf(L \ {r}, v) \in Nat
             /\ BytesOf(L, v) = BytesOf(L \ {r}, v) + (IF r.movability = v THEN r.size ELSE 0)
  BY BytesOfRemoved, Zenon
<1>2. Separate(L \ {r})
  BY DEF Separate
<1>3. BytesOf((L \ {r}) \cup {m}, mov)
        = BytesOf(L \ {r}, mov) + (IF m.movability = mov THEN m.size ELSE 0)
  BY <1>2, BytesOfAdded
<1>. QED  BY <1>1, <1>3

(***************************************************************************)
(* Clients that ask for movable memory, pin an allocation only when it is  *)
(* not pinned, and relocate at the same size.                              *)
(***************************************************************************)
PlainUse ==
    /\ MaxPins = 1 /\ RelocationBytes = {}
    /\ \A req \in Requests : req.movability = "MOVABLE" /\ ~req.requires_pin

\* Then a region is movable, or pinned by the one pin it counts.
OnePin ==
    \A r \in Live : \/ r.movability = "MOVABLE" /\ r.pin_count = 0
                    \/ r.movability = "PINNED" /\ r.pin_count = 1

CountInv == GInv /\ OnePin /\ MovablePinnedExact

\* What the invariant says of the counters, and how they say it next.
LEMMA CountFacts ==
    ASSUME CountInv
    PROVE  /\ Separate(Live)
           /\ current_movable = BytesOf(Live, "MOVABLE") /\ current_pinned = BytesOf(Live, "PINNED")
           /\ (current_movable' = BytesOf(Live', "MOVABLE")
               /\ current_pinned' = BytesOf(Live', "PINNED")) => MovablePinnedExact'
<1>1. Separate(Live)
  BY LiveFacts DEF CountInv, GInv, Separate
<1>. QED  BY <1>1, BytesAreOf DEF CountInv, MovablePinnedExact

\* Nothing moves and nothing is counted.
LEMMA CountsIdle ==
    ASSUME CountInv, GInv', Live' = Live, UNCHANGED counters
    PROVE  CountInv'
<1>1. OnePin'
  BY DEF CountInv, OnePin
<1>2. MovablePinnedExact'
  BY CountFacts DEF counters
<1>. QED  BY <1>1, <1>2 DEF CountInv

LEMMA CountsGranted ==
    ASSUME PlainUse, CountInv, GInv', NEW req \in Requests, next_alloc_id \in AllocIds,
           Granted(next_alloc_id, req)
    PROVE  CountInv'
<1>. DEFINE id == next_alloc_id
            need == align_up(req.bytes, req.alignment)
<1>1. CommittedMovability(req) = "MOVABLE"
  BY DEF PlainUse, CommittedMovability
<1>2. Allocate(id, 1, req.bytes, req.alignment, "MOVABLE") /\ CountGranted("MOVABLE", need)
  BY <1>1 DEF Granted
<1>3. req.bytes \in WordValues /\ req.alignment \in WordValues /\ "MOVABLE" \in Movability
  BY <1>1, RequestFacts
<1>4. PICK off \in Bytes :
         LET m == LiveRegion(off, need, id, 1, req.alignment, "MOVABLE")
         IN  /\ Live' = Live \cup {m} /\ RegionSound(m)
             /\ \A q \in Live : Apart(q, m)
  BY <1>2, <1>3, AllocateStep DEF CountInv, GInv
<1>. DEFINE m == LiveRegion(off, need, id, 1, req.alignment, "MOVABLE")
<1>5. m.movability = "MOVABLE" /\ m.pin_count = 0 /\ m.size = need
  BY DEF LiveRegion
<1>6. Live' = Live \cup {m} /\ RegionSound(m) /\ \A q \in Live : Apart(q, m)
  BY <1>4
<1>. HIDE DEF m
<1>7. /\ BytesOf(Live', "MOVABLE") = BytesOf(Live, "MOVABLE") + need
      /\ BytesOf(Live', "PINNED") = BytesOf(Live, "PINNED")
  <2>1. Separate(Live)
    BY CountFacts
  <2>. DEFINE Q == Live \cup {m}
  <2>2. \A mov : /\ BytesOf(Live, mov) \in Nat
                 /\ BytesOf(Q, mov)
                      = BytesOf(Live, mov) + (IF m.movability = mov THEN m.size ELSE 0)
    BY <1>6, <2>1, BytesOfAdded, Zenon
  <2>3. Live' = Q
    BY <1>6
  <2>4. m.size \in Nat
    BY <1>6, CapacityAssumption DEF RegionSound, RegionType
  <2>. HIDE DEF Q, need
  <2>. QED  BY <1>5, <2>2, <2>3, <2>4
<1>8. MovablePinnedExact'
  BY <1>2, <1>7, CountFacts DEF CountGranted
<1>9. OnePin'
  BY <1>5, <1>6 DEF CountInv, OnePin
<1>. QED  BY <1>8, <1>9 DEF CountInv

LEMMA CountsReleased ==
    ASSUME CountInv, GInv', NEW id \in AllocIds, NEW gen, NEW wb, NEW sb,
           release_locked(id, gen, wb, sb)
    PROVE  CountInv'
<1>1. Holds(id, gen) /\ Unheld(id) /\ Free(id, gen) /\ CountReleased(records[id])
  BY DEF release_locked
<1>2. PICK r \in Live : r.alloc_id = id /\ Live' = Live \ {r}
  BY <1>1, FreeStep DEF CountInv, GInv
<1>3. Mirrors(records[id], r) /\ r \in RegionType
  BY <1>1, <1>2, HandleRegion DEF CountInv
<1>4. r.pin_count = 0 /\ records[id].region_size = r.size /\ records[id].movability = r.movability
  BY <1>1, <1>3 DEF Unheld, Mirrors
<1>5. r.movability = "MOVABLE" /\ r.size \in Nat
  BY <1>3, <1>4, CapacityAssumption DEF CountInv, OnePin, RegionType
<1>6. /\ BytesOf(Live', "MOVABLE") \in Nat
      /\ BytesOf(Live, "MOVABLE") = BytesOf(Live', "MOVABLE") + r.size
      /\ BytesOf(Live, "PINNED") = BytesOf(Live', "PINNED")
  <2>1. Separate(Live)
    BY CountFacts
  <2>2. \A mov : /\ BytesOf(Live \ {r}, mov) \in Nat
                 /\ BytesOf(Live, mov)
                      = BytesOf(Live \ {r}, mov) + (IF r.movability = mov THEN r.size ELSE 0)
    BY <2>1, BytesOfRemoved, Zenon
  <2>. QED  BY <1>2, <1>5, <2>2
<1>7. current_movable' = sub(current_movable, r.size) /\ current_pinned' = current_pinned
  BY <1>1, <1>4, <1>5 DEF CountReleased
<1>8. current_movable' = BytesOf(Live', "MOVABLE")
  BY <1>5, <1>6, <1>7, CountFacts DEF sub
<1>9. MovablePinnedExact'
  BY <1>6, <1>7, <1>8, CountFacts
<1>10. OnePin'
  BY <1>2 DEF CountInv, OnePin
<1>. QED  BY <1>9, <1>10 DEF CountInv

\* A pin or an unpin: the bytes of one region change from a counter to the other.
LEMMA CountsSwapped ==
    ASSUME CountInv, GInv', NEW r \in Live, NEW m, Live' = (Live \ {r}) \cup {m},
           RegionSound(m), m.offset = r.offset, m.size = r.size
    PROVE  /\ r.movability = "MOVABLE" /\ m.movability = "PINNED" =>
                 /\ BytesOf(Live', "MOVABLE") = sub(current_movable, r.size)
                 /\ BytesOf(Live', "PINNED") = current_pinned + r.size
           /\ r.movability = "PINNED" /\ m.movability = "MOVABLE" =>
                 /\ BytesOf(Live', "MOVABLE") = current_movable + r.size
                 /\ BytesOf(Live', "PINNED") = sub(current_pinned, r.size)
<1>1. Separate(Live) /\ r.size \in Nat
  BY CountFacts, CapacityAssumption DEF Separate, RegionSound, RegionType
<1>2. \A q \in Live \ {r} : Apart(q, m)
  BY <1>1 DEF Separate, Apart, EndOf
<1>3. /\ current_movable = BytesOf(Live, "MOVABLE")
      /\ current_pinned = BytesOf(Live, "PINNED")
  BY CountFacts
<1>4. PICK a \in Nat :
         /\ BytesOf(Live, "MOVABLE") = a + (IF r.movability = "MOVABLE" THEN r.size ELSE 0)
         /\ BytesOf(Live', "MOVABLE") = a + (IF m.movability = "MOVABLE" THEN m.size ELSE 0)
  BY <1>1, <1>2, BytesOfReplaced
<1>5. PICK b \in Nat :
         /\ BytesOf(Live, "PINNED") = b + (IF r.movability = "PINNED" THEN r.size ELSE 0)
         /\ BytesOf(Live', "PINNED") = b + (IF m.movability = "PINNED" THEN m.size ELSE 0)
  BY <1>1, <1>2, BytesOfReplaced
<1>. QED  BY <1>1, <1>3, <1>4, <1>5 DEF sub

LEMMA CountsPinned ==
    ASSUME PlainUse, CountInv, GInv', NEW id \in AllocIds, NEW gen, pin_locked(id, gen)
    PROVE  CountInv'
<1>1. /\ Holds(id, gen) /\ Pin(id, gen)
      /\ current_movable' = sub(current_movable, records[id].region_size)
      /\ current_pinned' = current_pinned + records[id].region_size
  BY DEF pin_locked
<1>2. PICK r \in Live : /\ r.alloc_id = id /\ r.pin_count < 1
                        /\ Live' = (Live \ {r}) \cup {Pinned(r)} /\ RegionSound(Pinned(r))
  BY <1>1, PinStep DEF CountInv, GInv, PlainUse
<1>3. Mirrors(records[id], r) /\ r \in RegionType
  BY <1>1, <1>2, HandleRegion DEF CountInv
<1>. DEFINE m == Pinned(r)
<1>4. /\ r.movability = "MOVABLE" /\ r.pin_count = 0
      /\ m.movability = "PINNED" /\ m.pin_count = 1
      /\ m.offset = r.offset /\ m.size = r.size /\ records[id].region_size = r.size
  <2>1. r.movability = "MOVABLE" /\ r.pin_count = 0
    BY <1>2 DEF CountInv, OnePin
  <2>. QED  BY <1>3, <2>1 DEF Pinned, RegionType, Mirrors
<1>5. Live' = (Live \ {r}) \cup {m} /\ RegionSound(m)
  BY <1>2
<1>. HIDE DEF m
<1>6. /\ BytesOf(Live', "MOVABLE") = sub(current_movable, r.size)
      /\ BytesOf(Live', "PINNED") = current_pinned + r.size
  BY <1>4, <1>5, CountsSwapped
<1>7. MovablePinnedExact'
  BY <1>1, <1>4, <1>6, CountFacts
<1>8. OnePin'
  BY <1>4, <1>5 DEF CountInv, OnePin
<1>. QED  BY <1>7, <1>8 DEF CountInv

LEMMA CountsUnpinned ==
    ASSUME CountInv, GInv', NEW id \in AllocIds, NEW gen, unpin_locked(id, gen)
    PROVE  CountInv'
<1>1. Holds(id, gen) /\ Unpin(id, gen)
  BY DEF unpin_locked
<1>2. /\ alloc_offset' = alloc_offset
      /\ \E r \in Live : /\ r.alloc_id = id /\ r.pin_count # 0
                         /\ Live' = (Live \ {r}) \cup {Unpinned(r)} /\ RegionSound(Unpinned(r))
  BY <1>1, UnpinStep DEF CountInv, GInv
<1>3. PICK r \in Live : /\ r.alloc_id = id /\ r.pin_count # 0
                        /\ Live' = (Live \ {r}) \cup {Unpinned(r)} /\ RegionSound(Unpinned(r))
  BY <1>2
<1>4. Mirrors(records[id], r) /\ r \in RegionType
  BY <1>1, <1>3, HandleRegion DEF CountInv
<1>. DEFINE m == Unpinned(r)
<1>5. /\ r.movability = "PINNED" /\ r.pin_count = 1
      /\ m.movability = "MOVABLE" /\ m.pin_count = 0
      /\ m.offset = r.offset /\ m.size = r.size /\ records[id].region_size = r.size
  <2>1. r.movability = "PINNED" /\ r.pin_count = 1
    BY <1>3 DEF CountInv, OnePin
  <2>. QED  BY <1>4, <2>1 DEF Unpinned, RegionType, Mirrors
<1>6. Live' = (Live \ {r}) \cup {m} /\ RegionSound(m)
  BY <1>3
<1>. HIDE DEF m
<1>7. PICK q \in regions' :
         /\ RegionNext(q, id)
         /\ current_pinned' = IF q.pin_count = 0 THEN sub(current_pinned, r.size) ELSE current_pinned
         /\ current_movable' = IF q.pin_count = 0 THEN current_movable + r.size ELSE current_movable
  BY <1>5 DEF unpin_locked
<1>8. q = m
  BY <1>2, <1>3, <1>6, <1>7, LookedUp DEF CountInv
<1>9. /\ BytesOf(Live', "MOVABLE") = current_movable + r.size
      /\ BytesOf(Live', "PINNED") = sub(current_pinned, r.size)
  BY <1>5, <1>6, CountsSwapped
<1>10. MovablePinnedExact'
  BY <1>5, <1>7, <1>8, <1>9, CountFacts
<1>11. OnePin'
  BY <1>5, <1>6 DEF CountInv, OnePin
<1>. QED  BY <1>10, <1>11 DEF CountInv

LEMMA CountsMoved ==
    ASSUME PlainUse, CountInv, GInv', NEW id \in AllocIds, NEW gen \in 1 .. MaxGeneration,
           NEW lo \in 0 .. Capacity, NEW n \in RelocationBytes \cup {records[id].region_size},
           apply_relocation(id, gen, lo, n)
    PROVE  CountInv'
<1>. DEFINE align == records[id].alignment
<1>1. Holds(id, gen) /\ Relocate(id, gen, lo, n, align) /\ UNCHANGED counters
  BY DEF apply_relocation
<1>2. n = records[id].region_size /\ records[id] \in RecordType
  BY DEF PlainUse, CountInv, GInv, GovernorTypeOK
<1>3. n \in WordValues /\ align \in WordValues
  BY <1>2, CapacityAssumption, WordAssumption DEF RecordType, WordValues
<1>4. PICK r \in Live : LET m == Moved(r, lo, n, align)
                        IN  /\ r.alloc_id = id
                            /\ Live' = (Live \ {r}) \cup {m} /\ RegionSound(m)
                            /\ \A q \in Live \ {r} : Apart(q, m)
  BY <1>1, <1>3, RelocateStep DEF CountInv, GInv
<1>. DEFINE m == Moved(r, lo, n, align)
<1>5. r.alloc_id = id /\ Live' = (Live \ {r}) \cup {m} /\ RegionSound(m)
      /\ \A q \in Live \ {r} : Apart(q, m)
  BY <1>4
<1>6. Mirrors(records[id], r) /\ r \in RegionType
  BY <1>1, <1>5, HandleRegion DEF CountInv
<1>7. m.movability = r.movability /\ m.pin_count = r.pin_count /\ m.size = r.size
  BY <1>2, <1>6 DEF Moved, RegionType, Mirrors
<1>. HIDE DEF m
<1>8. \A mov : BytesOf(Live', mov) = BytesOf(Live, mov)
  <2>. SUFFICES ASSUME NEW mov PROVE BytesOf(Live', mov) = BytesOf(Live, mov)
    OBVIOUS
  <2>1. Separate(Live)
    BY CountFacts
  <2>2. PICK rest \in Nat :
           /\ BytesOf(Live, mov) = rest + (IF r.movability = mov THEN r.size ELSE 0)
           /\ BytesOf((Live \ {r}) \cup {m}, mov)
                 = rest + (IF m.movability = mov THEN m.size ELSE 0)
    BY <1>5, <2>1, BytesOfReplaced
  <2>. QED  BY <1>5, <1>7, <2>2
<1>9. MovablePinnedExact'
  BY <1>1, <1>8, CountFacts DEF counters
<1>10. OnePin'
  BY <1>5, <1>7 DEF CountInv, OnePin
<1>. QED  BY <1>9, <1>10 DEF CountInv

(***************************************************************************)
(* For clients that use the service plainly the domain's movable and       *)
(* pinned counters are exact, saturating subtractions included: nested     *)
(* pins, requested pins, pins of what was not movable and resizing are     *)
(* excluded here, since the counters count them wrongly (README).          *)
(***************************************************************************)
THEOREM CountersCorrect ==
    ASSUME PlainUse
    PROVE  Spec => []MovablePinnedExact
<1>1. Init => CountInv
  <2>. SUFFICES ASSUME Init PROVE CountInv
    OBVIOUS
  <2>1. GInv
    BY GovernorInitStep
  <2>2. Live = {}
    BY DEF Init, ArenaInit, Live, FreeRegion
  <2>3. \A mov : BytesWith(mov) = 0
    BY <2>2, FS_EmptySet DEF BytesWith
  <2>. QED  BY <2>1, <2>2, <2>3 DEF CountInv, OnePin, MovablePinnedExact, Init
<1>2. CountInv /\ [Next]_governor => CountInv'
  <2>. SUFFICES ASSUME CountInv, [Next]_governor PROVE CountInv'
    OBVIOUS
  <2>1. GInv'
    BY GovernorStep DEF CountInv
  <2>2. CASE initialize \/ summary_locked \/ plan_query \/ UNCHANGED governor
    <3>1. (ensure_summary \/ UNCHANGED arena) /\ UNCHANGED counters
      BY <2>2 DEF initialize, summary_locked, plan_query, governor, ReadSummary
    <3>2. Live' = Live
      BY <3>1, SummaryStep, UnchangedStep DEF CountInv, GInv
    <3>. QED  BY <2>1, <3>1, <3>2, CountsIdle
  <2>3. ASSUME NEW req \in Requests, request_locked(req) PROVE CountInv'
    <3>1. next_alloc_id \in AllocIds /\ (Granted(next_alloc_id, req) \/ Refused(req))
      BY <2>3 DEF request_locked
    <3>2. CASE Refused(req)
      <4>1. UNCHANGED arena /\ UNCHANGED counters
        BY <3>2 DEF Refused
      <4>2. Live' = Live
        BY <4>1, UnchangedStep DEF CountInv, GInv
      <4>. QED  BY <2>1, <4>1, <4>2, CountsIdle
    <3>. QED  BY <2>1, <3>1, <3>2, CountsGranted
  <2>4. ASSUME NEW id \in AllocIds, NEW gen \in 1 .. MaxGeneration,
               NEW wb \in WorkerBoots, NEW sb \in SourceBoots, release_locked(id, gen, wb, sb)
        PROVE  CountInv'
    BY <2>1, <2>4, CountsReleased
  <2>5. ASSUME NEW id \in AllocIds, NEW gen \in 1 .. MaxGeneration,
               pin_locked(id, gen) \/ unpin_locked(id, gen)
        PROVE  CountInv'
    BY <2>1, <2>5, CountsPinned, CountsUnpinned
  <2>6. ASSUME NEW id \in AllocIds, NEW gen \in 1 .. MaxGeneration, NEW lo \in 0 .. Capacity,
               NEW n \in RelocationBytes \cup {records[id].region_size},
               apply_relocation(id, gen, lo, n)
        PROVE  CountInv'
    BY <2>1, <2>6, CountsMoved
  <2>. QED  BY <2>2, <2>3, <2>4, <2>5, <2>6 DEF Next
<1>3. CountInv => MovablePinnedExact
  BY DEF CountInv
<1>. QED  BY <1>1, <1>2, <1>3, PTL DEF Spec

-----------------------------------------------------------------------------
(* The answer of reclaim_candidates. *)

\* A set of natural numbers that is not empty has a least member.
LEMMA LeastNumber ==
    ASSUME NEW N \in SUBSET Nat, N # {}
    PROVE  \E x \in N : \A y \in N : x <= y
<1> DEFINE R == OpToRel(<, Nat)
<1>1. IsWellFoundedOn(R, Nat)
  BY NatLessThanWellFounded
<1>2. \A x, y \in Nat : x < y => <<x, y>> \in R
  BY DEF OpToRel
<1> HIDE DEF R
<1>3. PICK x \in N : \A y \in N : <<y, x>> \notin R
  BY <1>1, WFMin
<1>4. ASSUME NEW y \in N PROVE x <= y
  <2>1. x \in Nat /\ y \in Nat /\ <<y, x>> \notin R
    BY <1>3
  <2>2. ~(y < x)
    BY <1>2, <2>1
  <2> QED BY <2>1, <2>2
<1> QED BY <1>4

\* The policies are ranked.
LEMMA Priorities ==
    \A p \in Reclaimability : reclaimability_priority[p] \in Int
  BY DEF Reclaimability, reclaimability_priority

\* The eligible records are finitely many, one for each of some live regions.
LEMMA EligibleFinite ==
    ASSUME GInv
    PROVE  /\ IsFiniteSet(Eligible)
           /\ \A id \in Eligible : /\ id \in Int /\ records[id].region_size \in Int
                                   /\ reclaimability_priority[records[id].reclaimability] \in Int
<1>1. IsFiniteSet(Live)
  BY LiveFacts DEF GInv
<1>. DEFINE f == [r \in Live |-> r.alloc_id]
            T == {r.alloc_id : r \in Live}
<1>2. f \in Surjection(Live, T)
  BY DEF Surjection
<1>3. IsFiniteSet(T)
  BY <1>1, <1>2, FS_Surjection
<1>4. Eligible \in SUBSET T
  BY Counterpart DEF Eligible
<1>5. IsFiniteSet(Eligible)
  BY <1>3, <1>4, FS_Subset
<1>6. \A id \in Eligible : id \in AllocIds /\ records[id] \in RecordType
  BY DEF Eligible, Current, GInv, GovernorTypeOK
<1>7. ASSUME NEW id \in Eligible
      PROVE  /\ id \in Int /\ records[id].region_size \in Int
             /\ records[id].reclaimability \in Reclaimability
  <2>1. id \in AllocIds /\ records[id] \in RecordType
    BY <1>6
  <2>2. \A rec \in RecordType : rec.region_size \in 0 .. Capacity /\ rec.reclaimability \in Reclaimability
    BY DEF RecordType
  <2> QED BY <2>1, <2>2, GovernorIdAssumption, CapacityAssumption
<1>. QED  BY <1>5, <1>7, Priorities

\* Policy, then size, then id: a strict order of all of them.
LEMMA ReclaimOrder ==
    ASSUME GInv
    PROVE  /\ \A i \in Eligible : ~ReclaimBefore(i, i)
           /\ \A i, j, k \in Eligible :
                 ReclaimBefore(i, j) /\ ReclaimBefore(j, k) => ReclaimBefore(i, k)
           /\ \A i, j \in Eligible : i = j \/ ReclaimBefore(i, j) \/ ReclaimBefore(j, i)
<1>. DEFINE pri(i) == reclaimability_priority[records[i].reclaimability]
            size(i) == records[i].region_size
<1>1. \A i \in Eligible : i \in Int /\ pri(i) \in Int /\ size(i) \in Int
  BY EligibleFinite
<1>2. \A i, j : ReclaimBefore(i, j) <=>
         \/ pri(i) < pri(j)
         \/ pri(i) = pri(j) /\ size(i) > size(j)
         \/ pri(i) = pri(j) /\ size(i) = size(j) /\ i < j
  BY DEF ReclaimBefore
<1>. HIDE DEF pri, size
<1>. QED  BY <1>1, <1>2

\* Those that come before id.
Ahead(id) == {j \in Eligible : ReclaimBefore(j, id)}

\* What comes earlier has fewer before it.
LEMMA RanksAscend ==
    ASSUME GInv
    PROVE  /\ \A i \in Eligible : IsFiniteSet(Ahead(i)) /\ Cardinality(Ahead(i)) \in Nat
           /\ \A i, j \in Eligible :
                 ReclaimBefore(i, j) => Cardinality(Ahead(i)) < Cardinality(Ahead(j))
<1>1. ASSUME NEW i \in Eligible PROVE IsFiniteSet(Ahead(i)) /\ Cardinality(Ahead(i)) \in Nat
  <2>1. Ahead(i) \in SUBSET Eligible
    BY DEF Ahead
  <2>. QED  BY <2>1, EligibleFinite, FS_Subset, FS_CardinalityType
<1>2. ASSUME NEW i \in Eligible, NEW j \in Eligible, ReclaimBefore(i, j)
      PROVE  Cardinality(Ahead(i)) < Cardinality(Ahead(j))
  <2>1. Ahead(i) \in SUBSET Ahead(j) /\ i \in Ahead(j) /\ i \notin Ahead(i)
    BY <1>2, ReclaimOrder DEF Ahead
  <2>2. Cardinality(Ahead(i)) <= Cardinality(Ahead(j))
        /\ Cardinality(Ahead(i)) # Cardinality(Ahead(j))
    BY <1>1, <2>1, FS_Subset
  <2>. QED  BY <1>1, <2>2
<1>. QED  BY <1>1, <1>2

(***************************************************************************)
(* reclaim_candidates(max) answers with the first max of the eligible      *)
(* records and no more: all of them if there are fewer, and nothing that   *)
(* is left out should have come before anything in the answer.             *)
(***************************************************************************)
FirstCandidates(max) ==
    LET c == reclaim_candidates(max)
    IN  /\ Cardinality(c) <= max
        /\ Cardinality(c) < max => c = Eligible
        /\ \A i \in c, j \in Eligible \ c : ReclaimBefore(i, j)

LEMMA CandidatesAreFirst ==
    ASSUME GInv, NEW max \in Nat
    PROVE  FirstCandidates(max)
<1>. DEFINE c == reclaim_candidates(max)
            rank(i) == Cardinality(Ahead(i))
<1>1. c = {i \in Eligible : rank(i) < max}
  BY DEF reclaim_candidates, Ahead
<1>2. /\ \A i \in Eligible : rank(i) \in Nat
      /\ \A i, j \in Eligible : ReclaimBefore(i, j) => rank(i) < rank(j)
  BY RanksAscend
<1>3. IsFiniteSet(c) /\ c \in SUBSET Eligible
  BY <1>1, EligibleFinite, FS_Subset
<1>. HIDE DEF c
<1>4. Cardinality(c) <= max
  <2>. DEFINE f == [i \in c |-> rank(i)]
              T == 0 .. max - 1
  <2>1. \A i \in c : rank(i) \in T
    BY <1>1, <1>2
  <2>2. \A i, j \in c : rank(i) = rank(j) => i = j
    <3>. SUFFICES ASSUME NEW i \in c, NEW j \in c, rank(i) = rank(j), i # j PROVE FALSE
      OBVIOUS
    <3>1. ReclaimBefore(i, j) \/ ReclaimBefore(j, i)
      BY <1>3, ReclaimOrder
    <3>2. rank(i) < rank(j) \/ rank(j) < rank(i)
      BY <1>2, <1>3, <3>1
    <3>. QED  BY <1>2, <1>3, <3>2
  <2>. HIDE DEF rank
  <2>3. f \in Injection(c, T)
    BY <2>1, <2>2 DEF Injection, IsInjective
  <2>4. IsFiniteSet(T) /\ Cardinality(T) = max
    BY FS_Interval
  <2>. HIDE DEF f, T
  <2>. QED  BY <2>3, <2>4, FS_Injection
<1>5. \A i \in c, j \in Eligible \ c : ReclaimBefore(i, j)
  <2>. SUFFICES ASSUME NEW i \in c, NEW j \in Eligible \ c PROVE ReclaimBefore(i, j)
    OBVIOUS
  <2>1. rank(i) < max /\ ~(rank(j) < max) /\ i \in Eligible /\ i # j
    BY <1>1
  <2>2. ~ReclaimBefore(j, i)
    <3>. HIDE DEF rank
    <3>. QED  BY <1>2, <2>1
  <2>. QED  BY <2>1, <2>2, ReclaimOrder
<1>6. ASSUME Cardinality(c) < max PROVE c = Eligible
  <2>. SUFFICES ASSUME Eligible \ c # {} PROVE FALSE
    BY <1>3
  <2>. DEFINE N == {rank(i) : i \in Eligible \ c}
  <2>1. N \in SUBSET Nat /\ N # {}
    BY <1>2
  <2>2. PICK n \in N : \A k \in N : n <= k
    <3>. HIDE DEF N
    <3>. QED  BY <2>1, LeastNumber
  <2>3. PICK i \in Eligible \ c : n = rank(i)
    OBVIOUS
  <2>4. Ahead(i) \in SUBSET c
    <3>. SUFFICES ASSUME NEW j \in Ahead(i), j \notin c PROVE FALSE
      OBVIOUS
    <3>1. j \in Eligible /\ ReclaimBefore(j, i)
      BY DEF Ahead
    <3>2. rank(j) \in N /\ rank(j) < rank(i) /\ rank(i) \in Nat /\ rank(j) \in Nat
      BY <1>2, <3>1
    <3>. HIDE DEF N, rank
    <3>. QED  BY <2>2, <2>3, <3>2
  <2>5. rank(i) <= Cardinality(c)
    BY <1>3, <2>4, FS_Subset
  <2>6. ~(rank(i) < max)
    BY <1>1
  <2>7. Cardinality(c) \in Nat /\ rank(i) \in Nat
    BY <1>2, <1>3, FS_CardinalityType
  <2>. HIDE DEF rank
  <2>. QED  BY <1>6, <2>5, <2>6, <2>7
<1>. QED  BY <1>4, <1>5, <1>6 DEF FirstCandidates, c

(***************************************************************************)
(* In every state of the governor the answer is the beginning of the       *)
(* sorted list, whatever number of candidates is asked for.                *)
(***************************************************************************)
THEOREM CandidatesCorrect ==
    ASSUME NEW max \in Nat
    PROVE  Spec => []FirstCandidates(max)
<1>1. GInv => FirstCandidates(max)
  BY CandidatesAreFirst
<1>. QED  BY <1>1, GovernorInvariant, PTL
==============================================================================
