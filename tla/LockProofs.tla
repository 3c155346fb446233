----------------------------- MODULE LockProofs -----------------------------
(***************************************************************************)
(* ControlLock, proved for every number of clients and every lease: what   *)
(* each method does to the holder, and from it that a live holder keeps    *)
(* the lock and that a label is never somebody else's.                     *)
(***************************************************************************)
EXTENDS ControlLock, TLAPS

-----------------------------------------------------------------------------
(* The methods of the lock. *)

\* Looking at the lock changes its holder only if it has lapsed, and then to
\* nobody.
LEMMA ExpireFacts ==
  ASSUME NEW k \in Locks
  PROVE  /\ Expire(k) \in Locks
         /\ Expire(k).holder = IF Lapsed(k) THEN NoClient ELSE k.holder
         /\ Expire(k).idle = k.idle
         /\ ~Lapsed(Expire(k))
<1>1. Expire(k) \in Locks
  BY DEF Expire, Locks
<1> QED
  BY <1>1 DEF Expire, Lapsed, Locks

\* A touch does the same, and restarts the lease of its caller at most.
LEMMA TouchFacts ==
  ASSUME NEW k \in Locks, NEW c \in Clients
  PROVE  /\ Touch(k, c) \in Locks
         /\ Touch(k, c).holder = Expire(k).holder
         /\ Touch(k, c).idle = IF Expire(k).holder = c THEN 0 ELSE k.idle
         /\ ~Lapsed(Touch(k, c))
<1> USE ExpireFacts, LockAssumption DEF Locks
<1>1. Touch(k, c) \in Locks
  BY DEF Touch
<1>2. /\ Touch(k, c).holder = Expire(k).holder
      /\ Touch(k, c).idle = IF Expire(k).holder = c THEN 0 ELSE k.idle
  BY DEF Touch
<1> QED
  BY <1>1, <1>2 DEF Lapsed

\* A release takes the lock from its caller and from nobody else.
LEMMA ReleaseFacts ==
  ASSUME NEW k \in Locks, NEW c
  PROVE  /\ Release(k, c) \in Locks
         /\ Release(k, c).holder = IF k.holder = c THEN NoClient ELSE k.holder
         /\ Release(k, c).idle = k.idle
  BY DEF Release, Locks

\* A lock that has not lapsed is granted to nobody but its holder.
LEMMA AcquireFacts ==
  ASSUME NEW k \in Locks, NEW c \in Clients,
         NEW label \in Clients \cup {NoClient}, ~Lapsed(k)
  PROVE  /\ Acquire(k, c, label) \in Locks
         /\ IF k.holder \in {NoClient, c}
              THEN Acquire(k, c, label).holder = c /\ Acquire(k, c, label).idle = 0
              ELSE Acquire(k, c, label) = k
<1>1. Acquire(k, c, label) \in Locks
  BY ExpireFacts, LockAssumption DEF Acquire, Locks
<1> QED
  BY <1>1, ExpireFacts DEF Acquire, Obtainable

\* Time ages the lease by one tick at most and takes the lock from nobody.
LEMMA AgedFacts ==
  ASSUME NEW k \in Locks
  PROVE  /\ Aged(k) \in Locks
         /\ Aged(k).holder = k.holder /\ Aged(k).idle <= k.idle + 1
  BY LockAssumption DEF Aged, Locks

\* The label of k, if it has one, is its holder's.
Labelled(k) == k \in Locks /\ k.label \in {NoClient, k.holder}

\* No method leaves a label without its holder, whoever calls it: the label that
\* acquire keeps is the caller's own, or that of a free lock, which is empty.
LEMMA LabelKept ==
  ASSUME NEW k, Labelled(k)
  PROVE  /\ Labelled(Expire(k)) /\ Labelled(Aged(k))
         /\ \A c \in Clients \cup {NoClient} : Labelled(Release(k, c))
         /\ \A c \in Clients : Labelled(Touch(k, c))
         /\ \A c \in Clients : \A label \in {c, NoClient} :
              Labelled(Acquire(k, c, label))
<1> USE LockAssumption
<1>1. Labelled(Expire(k))
  BY ExpireFacts DEF Labelled, Expire, Locks
<1>2. Labelled(Aged(k))
  BY DEF Labelled, Aged, Locks
<1>3. ASSUME NEW c \in Clients \cup {NoClient} PROVE Labelled(Release(k, c))
  BY DEF Labelled, Release, Locks
<1>4. ASSUME NEW c \in Clients PROVE Labelled(Touch(k, c))
  <2>1. Touch(k, c).label = Expire(k).label
    BY <1>1 DEF Labelled, Touch, Locks
  <2> QED
    BY <1>1, <2>1, TouchFacts DEF Labelled
<1>5. ASSUME NEW c \in Clients, NEW label \in {c, NoClient}
      PROVE  Labelled(Acquire(k, c, label))
  <2>1. CASE Obtainable(k, c)
    <3>1. Expire(k).label \in {c, NoClient}
      BY <1>1, <2>1 DEF Labelled, Obtainable
    <3> QED
      BY <2>1, <3>1 DEF Labelled, Acquire, Locks
  <2>2. CASE ~Obtainable(k, c)
    BY <2>2 DEF Acquire
  <2> QED
    BY <2>1, <2>2
<1> QED
  BY <1>1, <1>2, <1>3, <1>4, <1>5

-----------------------------------------------------------------------------
(* The lock under any sequence of calls. *)

\* No method breaks the type, or leaves a label without its holder.
LEMMA LockStep ==
  LockTypeOK /\ LabelOfHolder /\ [LockNext]_lock
    => LockTypeOK' /\ LabelOfHolder'
<1> SUFFICES ASSUME Labelled(lock), [LockNext]_lock PROVE Labelled(lock')
  BY DEF Labelled, LockTypeOK, LabelOfHolder
<1>1. CASE UNCHANGED lock
  BY <1>1
<1>2. CASE LockNext
  BY <1>2, LabelKept DEF LockNext, AcquireBy, ReleaseBy, TouchBy, Poll, LockTick
<1> QED
  BY <1>1, <1>2

\* Both hold of the lock.
LEMMA LockInvariant == LockSpec => [](LockTypeOK /\ LabelOfHolder)
<1>1. LockInit => LockTypeOK /\ LabelOfHolder
  BY LockAssumption DEF LockInit, Free, LockTypeOK, LabelOfHolder, Locks
<1> QED
  BY <1>1, LockStep, PTL DEF LockSpec

\* For every number of clients and every lease, the holder and the label are
\* clients or nobody, and the idle time never passes the cap it is held at.
THEOREM LockTypeCorrect == LockSpec => []LockTypeOK
  BY LockInvariant, PTL

\* For every number of clients and every lease, the label shown is the holder's
\* own or empty.
THEOREM LabelHolds == LockSpec => []LabelOfHolder
  BY LockInvariant, PTL

\* For every number of clients and every lease, a holder within its lease loses
\* the lock by its own release only.
THEOREM HolderKeeps == LockSpec => NotStolen
<1> DEFINE Kept == \A c \in Clients :
                     lock.holder = c /\ lock.idle <= Lease /\ lock'.holder # c
                       => ReleaseBy(c)
<1>1. LockTypeOK /\ [LockNext]_lock => [Kept]_lock
  <2> SUFFICES ASSUME LockTypeOK, LockNext,
                      NEW c \in Clients, lock.holder = c, lock.idle <= Lease,
                      lock'.holder # c
               PROVE  ReleaseBy(c)
    OBVIOUS
  <2> USE DEF LockTypeOK
  <2>1. ~Lapsed(lock) /\ Expire(lock) = lock
    BY LockAssumption DEF Lapsed, Expire, Locks
  <2>2. ASSUME NEW d \in Clients, AcquireBy(d) PROVE FALSE
    BY <2>1, <2>2, AcquireFacts, LockAssumption DEF AcquireBy
  <2>3. ASSUME NEW d \in Clients, TouchBy(d) PROVE FALSE
    BY <2>1, <2>3, TouchFacts DEF TouchBy
  <2>4. CASE Poll \/ LockTick
    BY <2>1, <2>4, AgedFacts DEF Poll, LockTick
  <2>5. ASSUME NEW d \in Clients, ReleaseBy(d) PROVE ReleaseBy(c)
    BY <2>5, ReleaseFacts DEF ReleaseBy
  <2> QED
    BY <2>2, <2>3, <2>4, <2>5 DEF LockNext
<1> QED
  BY <1>1, LockInvariant, PTL DEF LockSpec, NotStolen

-----------------------------------------------------------------------------
(* The lazy lease implements the one that ends on time. *)

\* What moving the lock from k to l is to the lease.
Renews(k, l, c) ==
  Owner(k) \in {NoClient, c} /\ Owner(l) = c /\ Silent(l) = 0
Frees(l) == Owner(l) = NoClient /\ Silent(l) = 0
Keeps(k, l) == Owner(l) = Owner(k) /\ Silent(l) = Silent(k)

\* What any sequence of calls within one handler may amount to.
Moves(k, l) == Keeps(k, l) \/ Frees(l) \/ \E c \in Clients : Renews(k, l, c)

\* Looking at the lock is nothing to the lease.
LEMMA ExpireMoves ==
  ASSUME NEW k \in Locks
  PROVE  Keeps(k, Expire(k))
<1>1. Owner(Expire(k)) = Owner(k)
  BY ExpireFacts DEF Owner
<1>2. Expire(k).idle = k.idle
  BY ExpireFacts
<1> QED
  BY <1>1, <1>2 DEF Keeps, Silent

\* A touch renews the lease of its owner, and is nothing to the others'.
LEMMA TouchMoves ==
  ASSUME NEW k \in Locks, NEW c \in Clients
  PROVE  /\ Owner(Touch(k, c)) = Owner(k)
         /\ IF Owner(k) = c THEN Renews(k, Touch(k, c), c) ELSE Keeps(k, Touch(k, c))
<1>1. Owner(Touch(k, c)) = Owner(k)
  BY TouchFacts, ExpireFacts DEF Owner
<1>2. Touch(k, c).idle = IF Owner(k) = c THEN 0 ELSE k.idle
  BY TouchFacts, ExpireFacts DEF Owner
<1> QED
  BY <1>1, <1>2, LockAssumption DEF Renews, Keeps, Silent

\* A release frees the lease of its caller, lapsed or not, and nobody else's.
LEMMA ReleaseMoves ==
  ASSUME NEW k \in Locks, NEW c
  PROVE  Keeps(k, Release(k, c)) \/ Frees(Release(k, c))
<1>1. CASE k.holder = c
  BY <1>1, ReleaseFacts DEF Frees, Owner, Silent, Lapsed
<1>2. CASE k.holder # c
  BY <1>2 DEF Release, Keeps
<1> QED
  BY <1>1, <1>2

\* An acquire renews the lease for its caller if it is free or the caller's own,
\* and is nothing to it otherwise.
LEMMA AcquireMoves ==
  ASSUME NEW k \in Locks, NEW c \in Clients, NEW label \in Clients \cup {NoClient}
  PROVE  IF Owner(k) \in {NoClient, c}
           THEN Renews(k, Acquire(k, c, label), c)
           ELSE Acquire(k, c, label) = k
<1>1. Expire(k).holder = Owner(k)
  BY ExpireFacts DEF Owner
<1>2. CASE Obtainable(k, c)
  <2>1. Acquire(k, c, label).holder = c /\ Acquire(k, c, label).idle = 0
    BY <1>2 DEF Acquire
  <2>2. ~Lapsed(Acquire(k, c, label))
    BY <2>1, LockAssumption DEF Lapsed
  <2> QED
    BY <1>1, <1>2, <2>1, <2>2, LockAssumption
    DEF Obtainable, Renews, Owner, Silent
<1>3. CASE ~Obtainable(k, c)
  BY <1>1, <1>3 DEF Obtainable, Acquire
<1> QED
  BY <1>2, <1>3

\* Two calls in one handler: what the first renews or keeps, the second may renew,
\* keep or free.
LEMMA MovesTwice ==
  ASSUME NEW k, NEW l, NEW m, NEW c \in Clients,
         Keeps(k, l) \/ Renews(k, l, c),
         Keeps(l, m) \/ Frees(m) \/ Renews(l, m, c)
  PROVE  Moves(k, m)
  BY LockAssumption DEF Moves, Keeps, Frees, Renews

\* A tick ages the lease, and ends it after the last tick of it.
LEMMA AgedMoves ==
  ASSUME NEW k \in Locks
  PROVE  \/ Keeps(k, Aged(k))
         \/ /\ Owner(k) # NoClient
            /\ IF Silent(k) < Lease
                 THEN Owner(Aged(k)) = Owner(k) /\ Silent(Aged(k)) = Silent(k) + 1
                 ELSE Frees(Aged(k))
<1> USE LockAssumption DEF Owner, Silent, Lapsed, Keeps, Frees, Locks
<1>1. CASE k.holder = NoClient \/ k.idle > Lease
  BY <1>1 DEF Aged
<1>2. CASE k.holder # NoClient /\ k.idle <= Lease
  <2>1. Aged(k).holder = k.holder /\ Aged(k).idle = k.idle + 1
    BY <1>2 DEF Aged
  <2> QED
    BY <1>2, <2>1
<1> QED
  BY <1>1, <1>2

\* A handler is at most one step of the lease.
LEMMA MovesLease ==
  ASSUME Moves(lock, lock')
  PROVE  [Exact!Next]_(Exact!vars)
<1>0. Owner(lock)' = Owner(lock') /\ Silent(lock)' = Silent(lock')
  BY DEF Owner, Silent, Lapsed
<1>1. CASE Keeps(lock, lock')
  BY <1>0, <1>1 DEF Keeps, Exact!vars
<1>2. CASE Frees(lock')
  BY <1>0, <1>2 DEF Frees, Exact!Next, Exact!GiveUp
<1>3. ASSUME NEW c \in Clients, Renews(lock, lock', c)
      PROVE  [Exact!Next]_(Exact!vars)
  BY <1>0, <1>3 DEF Renews, Exact!Next, Exact!Take
<1> QED
  BY <1>1, <1>2, <1>3 DEF Moves

\* Neither is a tick more than one.
LEMMA AgedLease ==
  ASSUME lock \in Locks, lock' = Aged(lock)
  PROVE  [Exact!Next]_(Exact!vars)
<1>0. Owner(lock)' = Owner(lock') /\ Silent(lock)' = Silent(lock')
  BY DEF Owner, Silent, Lapsed
<1>1. CASE Keeps(lock, lock')
  BY <1>1, MovesLease DEF Moves
<1>2. CASE ~Keeps(lock, lock')
  BY <1>0, <1>2, AgedMoves DEF Frees, Exact!Next, Exact!Pass
<1> QED
  BY <1>1, <1>2

\* A free lock is a lease nobody has.
LEMMA FreeLease == lock = Free => Exact!Init
  BY DEF Free, Owner, Silent, Lapsed, Exact!Init

\* For every number of clients and every lease, looking at the clock only when a
\* method is called is as good as looking at it all the time.
THEOREM LazyLease == LockSpec => ImplementsLease
<1>1. LockTypeOK /\ [LockNext]_lock => [Exact!Next]_(Exact!vars)
  <2> SUFFICES ASSUME LockTypeOK, [LockNext]_lock
               PROVE  [Exact!Next]_(Exact!vars)
    OBVIOUS
  <2>0. lock \in Locks
    BY DEF LockTypeOK
  <2>1. ASSUME NEW c \in Clients, AcquireBy(c) PROVE Moves(lock, lock')
    BY <2>0, <2>1, AcquireMoves DEF AcquireBy, Moves, Keeps
  <2>2. ASSUME NEW c \in Clients, ReleaseBy(c) PROVE Moves(lock, lock')
    BY <2>0, <2>2, ReleaseMoves DEF ReleaseBy, Moves
  <2>3. ASSUME NEW c \in Clients, TouchBy(c) PROVE Moves(lock, lock')
    BY <2>0, <2>3, TouchMoves DEF TouchBy, Moves
  <2>4. ASSUME Poll PROVE Moves(lock, lock')
    BY <2>0, <2>4, ExpireMoves DEF Poll, Moves
  <2>5. CASE LockTick
    BY <2>0, <2>5, AgedLease DEF LockTick
  <2>6. ASSUME UNCHANGED lock PROVE Moves(lock, lock')
    BY <2>6 DEF Moves, Keeps
  <2> QED
    BY <2>1, <2>2, <2>3, <2>4, <2>5, <2>6, MovesLease DEF LockNext
<1> QED
  BY <1>1, FreeLease, LockInvariant, PTL
  DEF LockSpec, LockInit, ImplementsLease, Exact!Spec
=============================================================================
