----------------------------- MODULE MCCompaction -----------------------------
(* Client requests for the model-checking runs of Compaction. *)
EXTENDS Compaction

ThreeIds == 1 .. 3

ClientBuffer(bytes, mov) ==
    [bytes |-> bytes, min_bytes |-> 1, alignment |-> 1, movability |-> mov,
     reclaimability |-> "RECLAIM_IF_COLD", requires_pin |-> FALSE,
     worker_boot |-> Unset, source_boot |-> Unset, backing_ref |-> "none"]

Buffers == {ClientBuffer(1, "MOVABLE"), ClientBuffer(2, "NONMOVABLE")}
==============================================================================
