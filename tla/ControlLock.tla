----------------------------- MODULE ControlLock -----------------------------
(***************************************************************************)
(* class ControlLock of create3_web/server.py: the lease that says which   *)
(* browser session may send velocities.                                    *)
(*                                                                         *)
(* Each method is an operator from the lock to the lock, so that a handler *)
(* that calls two of them is their composition.  "idle" is the time since  *)
(* _last_seen and stops growing once it exceeds the lease.  Expiry is      *)
(* lazy: a lapsed holder stays in the lock until a method looks at it.     *)
(* A label is free text a client gives of itself: here, the client it      *)
(* names.                                                                  *)
(***************************************************************************)
EXTENDS Integers

CONSTANTS
  Clients,    \* websocket sessions: client_id
  NoClient,   \* None
  Lease       \* CONTROL_LEASE_S

ASSUME LockAssumption == NoClient \notin Clients /\ Lease \in Nat

VARIABLE lock  \* [holder |-> _holder, label |-> _label, idle |-> age of _last_seen]

Locks == [holder : Clients \cup {NoClient}, label : Clients \cup {NoClient},
          idle : 0..(Lease + 1)]

Free == [holder |-> NoClient, label |-> NoClient, idle |-> Lease + 1]

\* Variant: the operands of the age are swapped.
LapsedSwapped(k) == k.holder # NoClient /\ -k.idle > Lease

Lapsed(k) == k.holder # NoClient /\ k.idle > Lease

-----------------------------------------------------------------------------
(* The methods. *)

\* Variant: the label outlives its holder.
ExpireKeepsLabel(k) == IF Lapsed(k) THEN [k EXCEPT !.holder = NoClient] ELSE k

\* _expire, and all that status() does to the lock.
Expire(k) ==
  IF Lapsed(k) THEN [k EXCEPT !.holder = NoClient, !.label = NoClient] ELSE k

Obtainable(k, c) == Expire(k).holder \in {NoClient, c}

\* Variant: the holder is not looked at.
AcquireAlways(k, c, label) == [holder |-> c, label |-> label, idle |-> 0]

\* label = NoClient is the empty label, which keeps the one already there.
Acquire(k, c, label) ==
  IF Obtainable(k, c)
    THEN [holder |-> c,
          label  |-> IF label = NoClient THEN Expire(k).label ELSE label,
          idle   |-> 0]
    ELSE k

\* Variant: the empty string, which is not None, for nobody.
ReleaseToEmpty(k, c) == IF k.holder = c THEN [k EXCEPT !.holder = ""] ELSE k

\* release does not look at the lease.
Release(k, c) ==
  IF k.holder = c THEN [k EXCEPT !.holder = NoClient, !.label = NoClient] ELSE k

Touch(k, c) ==
  IF Expire(k).holder = c THEN [Expire(k) EXCEPT !.idle = 0] ELSE Expire(k)

\* One tick of the clock passes.
Aged(k) == IF k.idle <= Lease THEN [k EXCEPT !.idle = @ + 1] ELSE k

-----------------------------------------------------------------------------
(* The lock alone, under any sequence of calls. *)

AcquireBy(c) == \E label \in {c, NoClient} : lock' = Acquire(lock, c, label)
ReleaseBy(c) == lock' = Release(lock, c)
TouchBy(c)   == lock' = Touch(lock, c)
Poll         == lock' = Expire(lock)
LockTick     == lock' = Aged(lock)

LockInit == lock = Free

LockNext == \/ \E c \in Clients : AcquireBy(c) \/ ReleaseBy(c) \/ TouchBy(c)
            \/ Poll
            \/ LockTick

\* Time passes, and the telemetry of any open page calls status() at 10 Hz.
LockSpec == LockInit /\ [][LockNext]_lock /\ WF_lock(LockTick) /\ WF_lock(Poll)

-----------------------------------------------------------------------------
(* Properties. *)

\* The lock has its type.
LockTypeOK == lock \in Locks

\* The label the other pages show is the holder's own or empty, never that of
\* a holder before it.
LabelOfHolder == lock.label \in {NoClient, lock.holder}

\* A holder within its lease loses the lock only by releasing it: whatever the
\* other clients call, it is not taken over.
NotStolen ==
  [][\A c \in Clients :
       lock.holder = c /\ lock.idle <= Lease /\ lock'.holder # c => ReleaseBy(c)
    ]_lock

\* Whom the methods treat as the holder, and for how long it has been silent.
Owner(k) == IF Lapsed(k) THEN NoClient ELSE k.holder
Silent(k) == IF Owner(k) = NoClient THEN 0 ELSE k.idle

Exact == INSTANCE TimedLease
           WITH Client <- Clients, Nobody <- NoClient,
                owner <- Owner(lock), age <- Silent(lock)

\* The lock looks at the clock only when somebody calls it.  Ownership moves as in
\* a lease that ends on time nevertheless: a client gets it from nobody only, the
\* owner keeps it to the last tick unless it is given up, and a holder that has
\* lapsed counts as nobody although no call has swept it out yet.
ImplementsLease == Exact!Spec

\* server.py: "The lock expires. A holder that closes its laptop never sends a
\* release".  A client that is not heard from any more does not keep the lock,
\* although the other clients go on calling.
SilentHolderLoses ==
  \A c \in Clients :
    <>[][~(lock'.holder = c /\ lock'.idle = 0)]_lock => <>[](lock.holder # c)
=============================================================================
