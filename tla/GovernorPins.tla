----------------------------- MODULE GovernorPins -----------------------------
(***************************************************************************)
(* The governor seen by clients that pin: beside the governor's state, how *)
(* many pins clients hold on each allocation (one for a granted request    *)
(* with requires_pin, one per successful pin, less one per successful      *)
(* unpin), and the movability each allocation was requested with. Both are *)
(* history of the calls made; no action of the governor reads them.        *)
(* A client unpins only what it has pinned.                                *)
(***************************************************************************)
EXTENDS MemoryGovernor

VARIABLES
    pins_held,      \* pins clients hold on each allocation
    asked           \* the movability each allocation was requested with

pinvars == <<governor, pins_held, asked>>

PinRequest(req) ==
    LET id == next_alloc_id
        granted == id \in Current'
    IN  /\ request_locked(req)
        /\ pins_held' = [pins_held EXCEPT ![id] = IF granted /\ req.requires_pin THEN 1 ELSE 0]
        /\ asked' = [asked EXCEPT ![id] = IF granted THEN req.movability ELSE @]

PinClient(id, gen) ==
    /\ pin_locked(id, gen)
    /\ pins_held' = [pins_held EXCEPT ![id] = @ + 1]
    /\ UNCHANGED asked

UnpinClient(id, gen) ==
    /\ pins_held[id] > 0
    /\ unpin_locked(id, gen)
    /\ pins_held' = [pins_held EXCEPT ![id] = @ - 1]
    /\ UNCHANGED asked

\* Any other call; a release ends whatever was held.
OtherCall ==
    /\ \/ initialize
       \/ \E id \in AllocIds, gen \in 1 .. MaxGeneration : release_locked(id, gen, Unset, Unset)
       \/ \E id \in AllocIds, gen \in 1 .. MaxGeneration, lo \in 0 .. Capacity :
             apply_relocation(id, gen, lo, records[id].region_size)
       \/ summary_locked
    /\ pins_held' = [id \in AllocIds |-> IF id \in Current' THEN pins_held[id] ELSE 0]
    /\ UNCHANGED asked

PinsInit ==
    /\ Init
    /\ pins_held = [id \in AllocIds |-> 0]
    /\ asked = [id \in AllocIds |-> "MOVABLE"]

PinsNext ==
    \/ \E req \in Requests : PinRequest(req)
    \/ \E id \in AllocIds, gen \in 1 .. MaxGeneration : PinClient(id, gen)
    \/ \E id \in AllocIds, gen \in 1 .. MaxGeneration : UnpinClient(id, gen)
    \/ OtherCall

PinsSpec == PinsInit /\ [][PinsNext]_pinvars

-----------------------------------------------------------------------------
(* While a client holds a pin on an allocation, no call of anyone releases *)
(* it, moves it or makes the handle stale: release and apply_relocation    *)
(* look at the record's count only, which pin and unpin copy from the      *)
(* arena's. governed_memory.hpp: "a pinned allocation is rejected".        *)
HeldInPlace ==
    [][\A id \in AllocIds : pins_held[id] > 0 =>
          /\ id \in Current'
          /\ records'[id].offset = records[id].offset
          /\ records'[id].generation = records[id].generation]_pinvars

(* The governor's count of an allocation's pins is the number clients      *)
(* hold, so the last unpin, and no earlier one, makes it reclaimable.      *)
PinsCounted == \A id \in Current : records[id].pin_count = pins_held[id]

(* allocation.cpp: "Nonmovable is stricter than movable [...] it never     *)
(* lowers `movability`": compaction never picks an allocation that was     *)
(* requested as anything but movable.                                      *)
StrictNeverPlanned ==
    \A x \in plan_compaction : asked[x[1].alloc_id] = "MOVABLE"
==============================================================================
