------------------------------ MODULE MCTeleop ------------------------------
(* Teleop for TLC: one request beyond the limit on each side and a stop. *)
EXTENDS Teleop

MCRequests == {-2, 0, 1, 3}
=============================================================================
