---------------------------- MODULE MCTeleopClock ----------------------------
(* TeleopClock for TLC: steps longer than the deadman and its grace. *)
EXTENDS TeleopClock

MCRequests == {-2, 0, 1}
Forward    == {6}
Backward   == {-6}
BothWays   == {-6, 6}
=============================================================================
