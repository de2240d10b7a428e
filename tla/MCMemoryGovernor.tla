--------------------------- MODULE MCMemoryGovernor ---------------------------
(* Client requests for the model-checking runs of MemoryGovernor. *)
EXTENDS MemoryGovernor

MCIds == 1 .. 3

Request(bytes, align, mov, recl, pin, boot, ref) ==
    [bytes |-> bytes, min_bytes |-> 1, alignment |-> align, movability |-> mov, reclaimability |-> recl,
     requires_pin |-> pin, worker_boot |-> boot, source_boot |-> Unset, backing_ref |-> ref]

Weights == Request(1, 2, "MOVABLE", "RECLAIM_IF_RELOADABLE", FALSE, Unset, "ref")
Staging == Request(2, 2, "NONMOVABLE", "BEST_EFFORT", TRUE, Unset, "none")

Small == Request(1, 1, "MOVABLE", "RECLAIM_IF_COLD", FALSE, 7, "none")

MixedRequests == {Small, Weights, Staging}
==============================================================================
