---------------------------- MODULE MCWebServer ----------------------------
(* WebServer for TLC: two sessions that may ask for motion or for a halt. *)
EXTENDS WebServer, TLC

MCRequests == {-2, 0}
Sessions   == Permutations(Clients)
=============================================================================
