------------------------------ MODULE Compaction ------------------------------
(***************************************************************************)
(* Compaction and reclaim as their callers carry them out, beside clients  *)
(* that use the memory. The governor plans, the caller copies the bytes    *)
(* from device to device, and apply_relocation() makes the new place the   *)
(* current one: three calls under three locks, with nothing reserved in    *)
(* between. Reclaim likewise: candidates are chosen in one call and        *)
(* released in later ones. Clients write to an allocation while they hold  *)
(* a pin on it, at the place their handle names.                           *)
(*                                                                         *)
(* The contents of a byte are whose data it holds; a byte that is freed    *)
(* holds nobody's. Whether a client has written an allocation is history.  *)
(***************************************************************************)
EXTENDS GovernorPins

CONSTANT Quiet      \* whether clients leave a compaction under way alone

ASSUME QuietAssumption == Quiet \in BOOLEAN

VARIABLES
    content,        \* whose data each byte of the device arena holds
    written,        \* allocations whose client has written them
    stage,          \* compactor: idle, planned or copied
    plan,           \* compactor: the step planned, and what it promises
    victims         \* reclaimer: candidates not yet taken back

callers == <<content, written, stage, plan, victims>>
cvars == <<pinvars, callers>>

Span(lo, n) == lo .. (lo + n - 1)
SpanOf(id) == Span(records[id].offset, records[id].region_size)

NoPlan == [id |-> NoOne, generation |-> 0, old_offset |-> 0, new_offset |-> 0,
           size |-> 0, before |-> 0, after |-> 0]

-----------------------------------------------------------------------------
(* Clients. Quiet clients request nothing while a compaction is under way, *)
(* and do not write what is being moved.                                   *)

ClientRequest(req) ==
    /\ Quiet => stage = "idle"
    /\ PinRequest(req)
    /\ UNCHANGED callers

ClientPin(id, gen) == (PinClient(id, gen) \/ UnpinClient(id, gen)) /\ UNCHANGED callers

ClientWrite(id) ==
    /\ id \in Current \ written /\ pins_held[id] > 0
    /\ Quiet => stage = "idle" \/ plan.id # id
    /\ content' = [b \in Bytes |-> IF b \in SpanOf(id) THEN id ELSE content[b]]
    /\ written' = written \cup {id}
    /\ UNCHANGED <<pinvars, stage, plan, victims>>

\* What a release does beside the governor's books: the bytes hold nobody's data.
Vacate(id) ==
    /\ content' = [b \in Bytes |-> IF b \in SpanOf(id) THEN NoOne ELSE content[b]]
    /\ written' = written \ {id}
    /\ pins_held' = [pins_held EXCEPT ![id] = 0]
    /\ UNCHANGED asked

ClientRelease(id, gen) ==
    /\ release_locked(id, gen, Unset, Unset)
    /\ Vacate(id)
    /\ UNCHANGED <<stage, plan, victims>>

-----------------------------------------------------------------------------
(* The compactor: plan_compaction, cudaMemcpy, apply_relocation. *)

PlanMove ==
    /\ stage = "idle"
    /\ ReadSummary
    /\ \E x \in plan_compaction :
          LET m == x[1]
          IN  /\ m.generation < MaxGeneration
              /\ plan' = [id |-> m.alloc_id, generation |-> m.generation,
                          old_offset |-> m.offset, new_offset |-> NewOffset(m, x[2]),
                          size |-> m.size, before |-> LargestFree,
                          after |-> PredictedLargest(m, x[2], LargestFree)]
    /\ stage' = "planned"
    /\ UNCHANGED <<records, retired, next_alloc_id, history_count, initialized, counters,
                   pressure, pins_held, asked, content, written, victims>>

\* Mutation: the bytes of the target copied over the allocation.
CopiedBackwards(p) ==
    [b \in Bytes |-> IF b \in Span(p.old_offset, p.size)
                     THEN content[p.new_offset + (b - p.old_offset)] ELSE content[b]]

Copied(p) ==
    [b \in Bytes |-> IF b \in Span(p.new_offset, p.size)
                     THEN content[p.old_offset + (b - p.new_offset)] ELSE content[b]]

CopyBytes ==
    /\ stage = "planned"
    /\ content' = Copied(plan)
    /\ stage' = "copied"
    /\ UNCHANGED <<pinvars, written, plan, victims>>

\* cudaMemcpy reports an error, and the caller gives the plan up.
CopyFails ==
    /\ stage = "planned"
    /\ stage' = "idle" /\ plan' = NoPlan
    /\ UNCHANGED <<pinvars, content, written, victims>>

Applicable(p) ==
    /\ Holds(p.id, p.generation) /\ Unheld(p.id)
    /\ ValidTarget(p.id, p.new_offset, p.size, records[p.id].alignment)

ApplyMove ==
    /\ stage = "copied"
    /\ \/ apply_relocation(plan.id, plan.generation, plan.new_offset, plan.size)
       \/ ~Applicable(plan) /\ UNCHANGED governor
    /\ stage' = "idle" /\ plan' = NoPlan
    /\ UNCHANGED <<pins_held, asked, content, written, victims>>

-----------------------------------------------------------------------------
(* The reclaimer: reclaim_candidates, then get and release of each in turn.*)
(* A move between the get and the release makes the release stale, which   *)
(* changes nothing; the two are one step here.                             *)

SelectVictims ==
    /\ victims = {}
    /\ victims' = reclaim_candidates(Cardinality(AllocIds))
    /\ UNCHANGED <<pinvars, content, written, stage, plan>>

Evict(id) ==
    /\ id \in victims
    /\ victims' = victims \ {id}
    /\ \/ /\ release_locked(id, records[id].generation, Unset, Unset)
          /\ Vacate(id)
       \/ /\ id \notin Current \/ ~Unheld(id)
          /\ UNCHANGED <<pinvars, content, written>>
    /\ UNCHANGED <<stage, plan>>

-----------------------------------------------------------------------------
CompactionInit ==
    /\ PinsInit
    /\ content = [b \in Bytes |-> NoOne]
    /\ written = {}
    /\ stage = "idle" /\ plan = NoPlan
    /\ victims = {}

CompactionNext ==
    \/ initialize /\ UNCHANGED <<pins_held, asked, callers>>
    \/ \E req \in Requests : ClientRequest(req)
    \/ \E id \in AllocIds, gen \in 1 .. MaxGeneration : ClientPin(id, gen)
    \/ \E id \in AllocIds : ClientWrite(id)
    \/ \E id \in AllocIds, gen \in 1 .. MaxGeneration : ClientRelease(id, gen)
    \/ PlanMove
    \/ CopyBytes
    \/ CopyFails
    \/ ApplyMove
    \/ SelectVictims
    \/ \E id \in AllocIds : Evict(id)

CompactionSpec == CompactionInit /\ [][CompactionNext]_cvars

-----------------------------------------------------------------------------
(* Correctness. *)

(* "data parity preserved across D2D move" (test_cuda_arena.cu): the bytes *)
(* of every allocation a client has written hold what it wrote, through    *)
(* moves, plans given up, plans that have gone stale, and releases and     *)
(* evictions beside a compaction under way.                                *)
ContentsKept ==
    \A id \in Current \cap written : \A b \in SpanOf(id) : content[b] = id

(* A plan that promises a larger free region than there is keeps it: once  *)
(* the move is applied there is a free region of that size, whatever was   *)
(* released since the plan was made. (A plan that promises no gain may     *)
(* shrink the largest region: the prediction counts the hole it fills.)    *)
PromisedGain ==
    [][(stage = "copied" /\ records'[plan.id].generation > plan.generation
          /\ plan.after > plan.before)
        => \E f \in FreeRegions' : f.size >= plan.after]_cvars

(* A candidate that is taken back is reclaimable when it is taken: the ids *)
(* reclaim_candidates() returns carry no generation, and by then they may  *)
(* have been pinned, moved, written or released.                           *)
EvictsReclaimable ==
    [][\A id \in victims \ victims' : id \in Current /\ id \notin Current'
          => id \in Eligible /\ pins_held[id] = 0]_cvars
==============================================================================
