---------------------------- MODULE MCCoordinator ----------------------------
(* The deployment with two worker boots and one or two controllers. *)
EXTENDS Coordinator

CONSTANTS w1, w2, c1, c2

OneWorker == {w1}
TwoWorkers == {w1, w2}
OneController == {c1}
TwoControllers == {c1, c2}
TwoIds == 1 .. 2
TwoGens == 1 .. 2
OneId == {1}
OneGen == {1}
==============================================================================
