--------------------------- MODULE ExclusiveDrive ---------------------------
(***************************************************************************)
(* What the web server promises about driving, without sockets, leases,    *)
(* threads or clocks: at most one client owns the robot, only the owner    *)
(* drives it, ownership moves only while nobody is driving, and the e-stop *)
(* takes both away until somebody is made owner again.                     *)
(***************************************************************************)
CONSTANTS Client, Nobody

VARIABLES
  owner,    \* who may drive
  driver,   \* whose velocity the robot is to follow
  stopped   \* the e-stop is engaged

vars == <<owner, driver, stopped>>

Init == owner = Nobody /\ driver = Nobody /\ stopped = FALSE

Own(c) == /\ driver = Nobody
          /\ owner' = c /\ UNCHANGED <<driver, stopped>>

Disown == owner' = Nobody /\ driver' = Nobody /\ UNCHANGED stopped

Drive == /\ ~stopped /\ owner # Nobody
         /\ driver' = owner /\ UNCHANGED <<owner, stopped>>

Coast == driver' = Nobody /\ UNCHANGED <<owner, stopped>>

Engage == stopped' = TRUE /\ owner' = Nobody /\ driver' = Nobody

Clear == stopped' = FALSE /\ UNCHANGED <<owner, driver>>

Next == \/ \E c \in Client : Own(c)
        \/ Disown \/ Drive \/ Coast \/ Engage \/ Clear

Spec == Init /\ [][Next]_vars
=============================================================================
