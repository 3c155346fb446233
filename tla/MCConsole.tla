------------------------------ MODULE MCConsole ------------------------------
(* Console for TLC: one page and another in front of it, the code's
   periods in seconds. *)
EXTENDS Console

MCSessions == (Pages \X (1..Connections)) \cup Others
=============================================================================
