----------------------------- MODULE HandleProofs -----------------------------
(***************************************************************************)
(* What the governor promises to the holders of its handles, for every     *)
(* value of the constants: by the records alone, memory changes hands as   *)
(* the byte ledger says.                                                   *)
(***************************************************************************)
EXTENDS CompactionProofs, ArenaClientProofs

\* The ids whose records lie over byte b.
RecordedAt(b) == {id \in Current : /\ records[id].offset <= b
                                   /\ b < records[id].offset + records[id].region_size}

\* The records and the arena name the same holder for every byte.
LEMMA SameHolders == GInv => record_owner = owner
<1>. SUFFICES ASSUME GInv PROVE record_owner = owner
  OBVIOUS
<1>1. Disjoint(Live) /\ owner = OwnerMap(Live)
  BY LiveDisjoint, OwnerIs DEF GInv
<1>2. record_owner = [b \in Bytes |->
         IF RecordedAt(b) = {} THEN <<NoOne, 0>>
         ELSE LET id == CHOOSE i \in RecordedAt(b) : TRUE IN <<id, records[id].generation>>]
  BY Zenon DEF record_owner, RecordedAt
<1>3. ASSUME NEW b \in Bytes PROVE record_owner[b] = owner[b]
  <2>1. ASSUME NEW r \in Live, Covers(r, b) PROVE r.alloc_id \in RecordedAt(b)
    <3>1. r.alloc_id \in Current /\ Mirrors(records[r.alloc_id], r)
      BY Counterpart
    <3>. QED  BY <2>1, <3>1 DEF Mirrors, Covers, EndOf, RecordedAt
  <2>2. ASSUME NEW id \in RecordedAt(b)
        PROVE  \E r \in Live : r.alloc_id = id /\ r.generation = records[id].generation
                               /\ Covers(r, b)
    <3>1. id \in Current
      BY DEF RecordedAt
    <3>2. PICK r \in Live : r.alloc_id = id /\ Mirrors(records[id], r)
      BY <3>1, Counterpart
    <3>. QED  BY <3>2 DEF Mirrors, Covers, EndOf, RecordedAt
  <2>3. CASE RecordedAt(b) = {}
    <3>1. ~ \E r \in Live : Covers(r, b)
      BY <2>1, <2>3
    <3>2. owner[b] = <<NoOne, 0>>
      BY <1>1, <3>1, OwnerValue
    <3>. QED  BY <1>2, <2>3, <3>2
  <2>4. CASE RecordedAt(b) # {}
    <3>. DEFINE id == CHOOSE i \in RecordedAt(b) : TRUE
    <3>1. id \in RecordedAt(b)
      BY <2>4
    <3>2. record_owner[b] = <<id, records[id].generation>>
      BY <1>2, <2>4
    <3>. HIDE DEF id
    <3>3. PICK r \in Live : r.alloc_id = id /\ r.generation = records[id].generation
                            /\ Covers(r, b)
      BY <2>2, <3>1
    <3>4. owner[b] = <<r.alloc_id, r.generation>>
      BY <1>1, <3>3, OwnerValue
    <3>. QED  BY <3>2, <3>3, <3>4
  <2>. QED  BY <2>3, <2>4
<1>4. record_owner = [b \in Bytes |-> record_owner[b]] /\ owner = [b \in Bytes |-> owner[b]]
  BY <1>1, <1>2 DEF OwnerMap
<1>. QED  BY <1>3, <1>4, Zenon

\* The ledger of the arena's owners is then the ledger of the handles.
LEMMA SameLedger ==
    ASSUME record_owner = owner
    PROVE  /\ Ledger!Init => Handles!Init
           /\ (record_owner' = owner' /\ Ledger!Next) => Handles!Next
<1>1. Ledger!Init => Handles!Init
  BY DEF Ledger!Init, Handles!Init, Ledger!Bytes, Handles!Bytes, Ledger!Nobody, Handles!Nobody
<1>2. ASSUME record_owner' = owner', Ledger!Next PROVE Handles!Next
  <2>1. /\ Handles!Bytes = Ledger!Bytes /\ Handles!Nobody = Ledger!Nobody
        /\ Handles!Generations = Ledger!Generations
        /\ \A lo, n : Handles!Interval(lo, n) = Ledger!Interval(lo, n)
    BY DEF Ledger!Bytes, Handles!Bytes, Ledger!Nobody, Handles!Nobody, Ledger!Generations,
           Handles!Generations, Ledger!Interval, Handles!Interval
  <2>2. /\ \A id : Handles!Holding(id) = Ledger!Holding(id)
        /\ \A id, gen : Handles!HoldingUnder(id, gen) = Ledger!HoldingUnder(id, gen)
    BY <2>1 DEF Handles!Holding, Ledger!Holding, Handles!HoldingUnder, Ledger!HoldingUnder
  <2>3. /\ \A S, from, to : Handles!Passes(S, from, to) <=> Ledger!Passes(S, from, to)
        /\ \A S : Handles!Keeps(S) <=> Ledger!Keeps(S)
    BY <1>2 DEF Handles!Passes, Ledger!Passes, Handles!Keeps, Ledger!Keeps
  <2>4. /\ \A id, lo, n : Ledger!Grant(id, lo, n) => Handles!Grant(id, lo, n)
        /\ \A id, gen : Ledger!Release(id, gen) => Handles!Release(id, gen)
        /\ \A id, gen, lo, n : Ledger!Move(id, gen, lo, n) => Handles!Move(id, gen, lo, n)
    BY <2>1, <2>2, <2>3 DEF Handles!Grant, Ledger!Grant, Handles!Release, Ledger!Release,
                            Handles!Move, Ledger!Move
  <2>. QED  BY <1>2, <2>1, <2>2, <2>4 DEF Handles!Next, Ledger!Next
<1>. QED  BY <1>1, <1>2

\* Every call of the governor is a step of the arena's ledger, or none.
LEMMA GovernorMovesHands ==
    ASSUME GInv, [Next]_governor
    PROVE  Ledger!Next \/ owner' = owner
<1>. USE DEF GInv
<1>1. CASE initialize \/ summary_locked \/ plan_query \/ UNCHANGED governor
  <2>1. ensure_summary \/ UNCHANGED arena
    BY <1>1 DEF initialize, summary_locked, plan_query, governor, ReadSummary
  <2>. QED  BY <2>1, QueryChangesNoHands
<1>2. ASSUME NEW req \in Requests, request_locked(req)
      PROVE  Ledger!Next \/ owner' = owner
  <2>1. next_alloc_id \in AllocIds /\ (Granted(next_alloc_id, req) \/ Refused(req))
    BY <1>2 DEF request_locked
  <2>2. CASE Granted(next_alloc_id, req)
    BY <2>1, <2>2, RequestFacts, AllocateGrants DEF Granted
  <2>3. CASE Refused(req)
    BY <2>3, QueryChangesNoHands DEF Refused
  <2>. QED  BY <2>1, <2>2, <2>3
<1>3. ASSUME NEW id \in AllocIds, NEW gen \in 1 .. MaxGeneration,
             NEW wb \in WorkerBoots, NEW sb \in SourceBoots, release_locked(id, gen, wb, sb)
      PROVE  Ledger!Next
  BY <1>3, FreeReleases DEF release_locked
<1>4. ASSUME NEW id \in AllocIds, NEW gen \in 1 .. MaxGeneration,
             pin_locked(id, gen) \/ unpin_locked(id, gen)
      PROVE  owner' = owner
  BY <1>4, PinChangesNoHands DEF pin_locked, unpin_locked
<1>5. ASSUME NEW id \in AllocIds, NEW gen \in 1 .. MaxGeneration, NEW lo \in 0 .. Capacity,
             NEW n \in RelocationBytes \cup {records[id].region_size},
             apply_relocation(id, gen, lo, n)
      PROVE  Ledger!Next
  <2>1. records[id] \in RecordType
    BY DEF GovernorTypeOK
  <2>2. n \in WordValues /\ records[id].alignment \in WordValues
    BY <2>1, RequestsAssumption, CapacityAssumption, WordAssumption DEF RecordType, WordValues
  <2>. QED  BY <1>5, <2>2, RelocateMoves DEF apply_relocation
<1>. QED  BY <1>1, <1>2, <1>3, <1>4, <1>5 DEF Next

(***************************************************************************)
(* The governor keeps the byte ledger with its clients (HandlesKeepLedger):*)
(* going by the records it hands out, no two allocations share a byte, and *)
(* request, release, pin, unpin and apply_relocation, resizing included,   *)
(* change hands only by grants of vacant bytes, whole releases and whole   *)
(* moves under a new generation.                                           *)
(***************************************************************************)
THEOREM GovernorKeepsLedger == Spec => HandlesKeepLedger
<1>1. Init => Handles!Init
  BY GovernorInitStep, SameHolders, SameLedger, LedgerBegins DEF Init
<1>2. GInv /\ GInv' /\ [Next]_governor => [Handles!Next]_record_owner
  <2>. SUFFICES ASSUME GInv, GInv', [Next]_governor
                PROVE  Handles!Next \/ record_owner' = record_owner
    OBVIOUS
  <2>1. record_owner = owner
    BY SameHolders
  <2>2. record_owner' = owner'
    <3>1. GInv' => (record_owner = owner)'
      BY SameHolders, PTL
    <3>. QED  BY <3>1
  <2>. QED  BY <2>1, <2>2, GovernorMovesHands, SameLedger
<1>. QED  BY <1>1, <1>2, GovernorInvariant, PTL DEF Spec, HandlesKeepLedger, Handles!Spec

-----------------------------------------------------------------------------
(* The same for the composed system. *)

\* A release that presents no boot, as clients and the reclaimer make it.
LEMMA ReleaseIsCall ==
    ASSUME NEW id \in AllocIds, NEW gen \in 1 .. MaxGeneration,
           release_locked(id, gen, Unset, Unset)
    PROVE  Next
  BY BootsAssumption DEF Next

\* Applying a plan is a call with arguments that a client may give.
LEMMA ApplyIsCall ==
    ASSUME BInv, stage = "copied",
           apply_relocation(plan.id, plan.generation, plan.new_offset, plan.size)
    PROVE  Next
<1>1. /\ plan.id \in AllocIds /\ plan.generation \in 1 .. MaxGeneration
      /\ plan.new_offset \in Nat
  BY DEF BInv, PlanTrue
<1>2. plan.size \in RelocationBytes \cup {records[plan.id].region_size}
  BY Applied
<1>3. plan.new_offset \in 0 .. Capacity
  BY <1>1, CapacityAssumption DEF apply_relocation, Relocate, ValidTarget
<1>. QED  BY <1>1, <1>2, <1>3 DEF Next

(***************************************************************************)
(* Clients, compactor and reclaimer act on the governor only through its   *)
(* calls: whatever they do, together and interleaved, is a behaviour of    *)
(* the governor, for which every theorem about it holds.                   *)
(***************************************************************************)
THEOREM CallersUseGovernor == CompactionSpec => Spec
<1>1. CompactionInit => Init
  BY DEF CompactionInit, PinsInit
<1>2. BInv /\ [CompactionNext]_cvars => [Next]_governor
  <2>. SUFFICES ASSUME BInv, [CompactionNext]_cvars PROVE Next \/ UNCHANGED governor
    OBVIOUS
  <2>1. CASE initialize /\ UNCHANGED <<pins_held, asked, callers>>
    BY <2>1 DEF Next
  <2>2. ASSUME NEW req \in Requests, ClientRequest(req) PROVE Next
    BY <2>2 DEF ClientRequest, PinRequest, Next
  <2>3. ASSUME NEW id \in AllocIds, NEW gen \in 1 .. MaxGeneration, ClientPin(id, gen)
        PROVE  Next
    BY <2>3 DEF ClientPin, PinClient, UnpinClient, Next
  <2>4. ASSUME NEW id \in AllocIds, ClientWrite(id) PROVE UNCHANGED governor
    BY <2>4 DEF ClientWrite, pinvars
  <2>5. ASSUME NEW id \in AllocIds, NEW gen \in 1 .. MaxGeneration, ClientRelease(id, gen)
        PROVE  Next
    BY <2>5, ReleaseIsCall DEF ClientRelease
  <2>6. ASSUME PlanMove PROVE Next \/ UNCHANGED governor
    <3>1. /\ ReadSummary
          /\ UNCHANGED <<records, retired, next_alloc_id, history_count, initialized, counters,
                         pressure>>
      BY <2>6 DEF PlanMove
    <3>2. plan_query \/ UNCHANGED governor
      BY <3>1, SummaryRead
    <3>. QED  BY <3>2 DEF Next
  <2>7. ASSUME CopyBytes \/ CopyFails \/ SelectVictims PROVE UNCHANGED governor
    BY <2>7 DEF CopyBytes, CopyFails, SelectVictims, pinvars
  <2>8. ASSUME ApplyMove PROVE Next \/ UNCHANGED governor
    BY <2>8, ApplyIsCall DEF ApplyMove
  <2>9. ASSUME NEW id \in AllocIds, Evict(id) PROVE Next \/ UNCHANGED governor
    <3>1. CASE release_locked(id, records[id].generation, Unset, Unset)
      <4>1. id \in Current
        BY <3>1 DEF release_locked, Holds
      <4>2. records[id].generation \in 1 .. MaxGeneration
        BY <4>1, CurrentGeneration DEF BInv
      <4>. QED  BY <3>1, <4>2, ReleaseIsCall
    <3>2. CASE UNCHANGED pinvars
      BY <3>2 DEF pinvars
    <3>. QED  BY <2>9, <3>1, <3>2 DEF Evict
  <2>10. CASE UNCHANGED cvars
    BY <2>10 DEF cvars, pinvars
  <2>. QED  BY <2>1, <2>2, <2>3, <2>4, <2>5, <2>6, <2>7, <2>8, <2>9, <2>10 DEF CompactionNext
<1>. QED  BY <1>1, <1>2, CallersInvariant, PTL DEF CompactionSpec, Spec

(***************************************************************************)
(* So the ledger is kept while clients pin, write and release, plans are   *)
(* made, copied and applied late, and candidates evicted, in any order,    *)
(* with or without quiet clients.                                          *)
(***************************************************************************)
THEOREM CallersKeepLedger == CompactionSpec => HandlesKeepLedger
  BY CallersUseGovernor, GovernorKeepsLedger, PTL
==============================================================================
