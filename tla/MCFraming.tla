------------------------------ MODULE MCFraming ------------------------------
(* Frames for the model-checking run of Framing: no payload, the longest   *)
(* there may be, and one byte more.                                        *)
EXTENDS Framing

MCFrames ==
    {[type |-> 9, payload |-> << >>],
     [type |-> 4, payload |-> <<1, 2, 3>>],
     [type |-> 4, payload |-> <<1, 2, 3, 4>>]}
==============================================================================
