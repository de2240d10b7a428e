----------------------------- MODULE FrameChannel -----------------------------
(***************************************************************************)
(* What a connection promises the coordinator, its workers and its         *)
(* controllers: whole frames, in the order they were sent, each at most    *)
(* once and none that was not sent. It may stop delivering at any time.    *)
(* Module Framing is the detailed specification that implements this one;  *)
(* module Coordinator composes its processes over channels of this kind.   *)
(***************************************************************************)
EXTENDS Naturals, Sequences

CONSTANT Frames

VARIABLES sent, delivered

Send(m) == sent' = Append(sent, m) /\ UNCHANGED delivered

Deliver ==
    /\ Len(delivered) < Len(sent)
    /\ delivered' = Append(delivered, sent[Len(delivered) + 1])
    /\ UNCHANGED sent

Init == sent = << >> /\ delivered = << >>

Next == Deliver \/ \E m \in Frames : Send(m)

Spec == Init /\ [][Next]_<<sent, delivered>>
==============================================================================
