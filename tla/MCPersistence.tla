---------------------------- MODULE MCPersistence ----------------------------
(* Client requests for the model-checking runs of Persistence. *)
EXTENDS Persistence

TwoIds == 1 .. 2

SavedRequest(bytes, align, ref) ==
    [bytes |-> bytes, min_bytes |-> 1, alignment |-> align, movability |-> "MOVABLE",
     reclaimability |-> "RECLAIM_IF_COLD", requires_pin |-> FALSE,
     worker_boot |-> Unset, source_boot |-> Unset, backing_ref |-> ref]

PlainRequests == {SavedRequest(1, 1, "none"), SavedRequest(1, 2, "none")}

\* One that a move can leave too little room, and one with a text that cannot
\* be read back.
SavedRequests == {SavedRequest(2, 2, "none"), SavedRequest(1, 2, "oversized")}
==============================================================================
