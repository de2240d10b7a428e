---------------------------- MODULE MCGovernorPins ----------------------------
(* Client requests for the model-checking runs of GovernorPins. *)
EXTENDS GovernorPins

TwoIds == 1 .. 2
ThreeIds == 1 .. 3

PinningRequest(bytes, mov, pin) ==
    [bytes |-> bytes, min_bytes |-> 1, alignment |-> 1, movability |-> mov, reclaimability |-> "RECLAIM_IF_COLD",
     requires_pin |-> pin, worker_boot |-> Unset, source_boot |-> Unset, backing_ref |-> "none"]

\* Pins taken by pin() only.
ExplicitPins == {PinningRequest(1, "MOVABLE", FALSE), PinningRequest(2, "NONMOVABLE", FALSE)}

\* A request that asks for its pin itself.
RequestedPins == {PinningRequest(1, "MOVABLE", TRUE)}
==============================================================================
