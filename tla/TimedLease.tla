----------------------------- MODULE TimedLease ------------------------------
(***************************************************************************)
(* What a lease promises, with a clock that is looked at all the time: it  *)
(* has one owner at most, nobody else gets it while it has one, the owner  *)
(* may renew it or give it up, and keeps it otherwise for Lease ticks and  *)
(* not for one more.                                                       *)
(***************************************************************************)
EXTENDS Naturals

CONSTANTS Client, Nobody, Lease

VARIABLES
  owner,  \* who has the lease
  age     \* ticks since the owner took or renewed it; 0 while there is none

vars == <<owner, age>>

Init == owner = Nobody /\ age = 0

\* Taking it, or renewing it.
Take(c) == owner \in {Nobody, c} /\ owner' = c /\ age' = 0

GiveUp == owner' = Nobody /\ age' = 0

Pass == /\ owner # Nobody
        /\ IF age < Lease THEN age' = age + 1 /\ UNCHANGED owner
                          ELSE owner' = Nobody /\ age' = 0

Next == \/ \E c \in Client : Take(c)
        \/ GiveUp \/ Pass

Spec == Init /\ [][Next]_vars
=============================================================================
