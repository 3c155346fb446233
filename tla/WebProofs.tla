------------------------------ MODULE WebProofs ------------------------------
(***************************************************************************)
(* The safety properties of WebServer, proved for every number of sessions,*)
(* every limit and every choice of timeouts the assumptions admit.         *)
(*                                                                         *)
(* The server only calls the node's operations, so every behaviour of it   *)
(* is one of Teleop, and what TeleopProofs shows holds of it.  What is new *)
(* relates the register to the lock: a fresh velocity was sent by the      *)
(* holder, and the holder has been heard since (DriverInv).                *)
(***************************************************************************)
EXTENDS WebServer, TeleopProofs, LockProofs

-----------------------------------------------------------------------------
(* The server is a client of the node. *)

\* A step of the server is one of the node, or leaves the node alone.
LEMMA ServerStepsNode == [ServerNext]_serverVars => [TeleopNext]_teleopVars
<1> SUFFICES ASSUME [ServerNext]_serverVars PROVE [TeleopNext]_teleopVars
  OBVIOUS
<1>1. ASSUME NEW c \in Clients, NEW v \in Requests, OnTwist(c, v)
      PROVE  [TeleopNext]_teleopVars
  BY <1>1 DEF OnTwist, Receives, Ready, TeleopNext
<1>2. ASSUME NEW b \in BOOLEAN, ApiEstop(b) PROVE [TeleopNext]_teleopVars
  BY <1>2 DEF ApiEstop, Ready, TeleopNext
<1>3. ASSUME Serving, Stop \/ UNCHANGED teleopVars PROVE [TeleopNext]_teleopVars
  BY <1>3 DEF TeleopNext
<1>4. CASE \E c \in Clients : OnRelease(c) \/ OnStop(c)
  BY <1>3, <1>4 DEF OnRelease, OnStop, Receives, Ready
<1>5. CASE \E c \in Clients : Disconnect(c) \/ OnBadMessage(c)
  BY <1>3, <1>5 DEF Disconnect, OnBadMessage, Cleanup, Ready
<1>6. CASE ActionServerReady \/ AdminRestart
  BY <1>3, <1>6 DEF ActionServerReady, AdminRestart, Ready, Blocked
<1>7. CASE NodeStep
  BY <1>7 DEF NodeStep, TeleopNext, Background
<1>8. CASE ServerTick
  BY <1>8 DEF ServerTick, TeleopNext
<1>9. CASE UNCHANGED teleopVars
  BY <1>9
<1>10. CASE UNCHANGED serverVars
  BY <1>10 DEF serverVars
<1> QED
  BY <1>1, <1>2, <1>4, <1>5, <1>6, <1>7, <1>8, <1>9, <1>10
  DEF ServerNext, Connect, OnAcquire, OnPing, PollStatus, ApiAction,
      ActionServerMissing, ActionEnds

\* Whatever the sessions and the REST clients do, the node behaves as Teleop
\* says: every property of Teleop is one of the server.
THEOREM ServerImplementsTeleop == ServerSpec => TeleopSpec
<1>1. ServerInit => TeleopInit
  BY DEF ServerInit
<1> QED
  BY <1>1, ServerStepsNode, PTL DEF ServerSpec, TeleopSpec

\* However many sessions drive, release, stop, connect and fail, the robot moves
\* only while one of them has spoken within the deadman's bound.
THEOREM ServerDeadman == ServerSpec => []DeadmanBound
  BY ServerImplementsTeleop, DeadmanHolds, PTL

\* Whichever session or REST client stops the robot, it stands within two timer
\* periods.
THEOREM ServerStop == ServerSpec => []StopBound
  BY ServerImplementsTeleop, StopHolds, PTL

\* Among any sessions, whatever they send: the node goes quiet only on a robot that
\* stands, and under the e-stop no handler of any session leaves a velocity in the
\* register.
THEOREM ServerQuiet == ServerSpec => []QuietMeansStopped /\ []EstopHoldsRegister
  BY ServerImplementsTeleop, QuietHolds, EstopHolds, PTL

\* What the server tells its pages of the command agrees with the topic.
THEOREM ServerReport == ServerSpec => []ReportMatchesWire
  BY ServerImplementsTeleop, ReportHolds, PTL

-----------------------------------------------------------------------------
(* The register and the lock. *)

\* A velocity that is still fresh, or was until two timer periods ago and may be on
\* the wire, was sent by the holder of the lock, and the holder has been heard since:
\* the lease cannot lapse under it.
DriverInv ==
  cmd # 0 =>
    /\ lastDriver \in Clients
    /\ cmdAge <= Deadman + 2 * Stall =>
         lock.holder = lastDriver /\ lock.idle <= cmdAge

\* Between an e-stop and the next grant nobody holds the lock.
FenceInv == fenced => cmd = 0 /\ lock.holder = NoClient

ServerInv ==
  /\ LockTypeOK /\ open \subseteq Clients
  /\ LockHeldByOpenSession /\ DriverInv /\ FenceInv

\* A message that leaves the register alone and touches the lock at most.
LEMMA TouchKeepsInv ==
  ASSUME TypeOK, ServerInv, NEW c \in Clients, lock' = Touch(lock, c),
         UNCHANGED <<cmd, cmdAge, open, lastDriver>>, fenced' => fenced
  PROVE  ServerInv'
<1> USE DEF ServerInv, LockTypeOK
<1>1. LockTypeOK'
  BY TouchFacts
<1>2. LockHeldByOpenSession' /\ FenceInv'
  BY TouchFacts, ExpireFacts DEF LockHeldByOpenSession, FenceInv
<1>3. DriverInv'
  <2>1. CASE cmd # 0 /\ cmdAge <= Deadman + 2 * Stall
    <3>1. ~Lapsed(lock)
      BY <2>1, LeaseAssumption, LockAssumption, TimingAssumption
      DEF DriverInv, Lapsed, Locks, TypeOK, Ages
    <3>2. lock'.holder = lock.holder /\ lock'.idle \in {0, lock.idle}
      BY <3>1, TouchFacts, ExpireFacts
    <3> QED
      BY <2>1, <3>2 DEF DriverInv, Locks, TypeOK, Ages
  <2>2. CASE ~(cmd # 0 /\ cmdAge <= Deadman + 2 * Stall)
    BY <2>2 DEF DriverInv
  <2> QED
    BY <2>1, <2>2
<1> QED
  BY <1>1, <1>2, <1>3

\* A message that stops the robot and gives up no lock but its own session's.
LEMMA StopKeepsInv ==
  ASSUME ServerInv, lock' \in Locks, cmd' = 0,
         lock'.holder \in {NoClient, lock.holder} \cap (open' \cup {NoClient}),
         open' \subseteq Clients, UNCHANGED fenced
  PROVE  ServerInv'
  BY DEF ServerInv, LockTypeOK, LockHeldByOpenSession, DriverInv, FenceInv

\* The lock alone is looked at.
LEMMA ExpireKeepsInv ==
  ASSUME TypeOK, ServerInv, lock' = Expire(lock), open' \subseteq Clients,
         lock'.holder \in open' \cup {NoClient},
         UNCHANGED <<cmd, cmdAge, lastDriver, fenced>>
  PROVE  ServerInv'
<1> USE DEF ServerInv, LockTypeOK
<1>1. lock' \in Locks /\ lock'.idle = lock.idle
  BY ExpireFacts
<1>2. cmd # 0 /\ cmdAge <= Deadman + 2 * Stall => lock'.holder = lock.holder
  BY ExpireFacts, LeaseAssumption, LockAssumption, TimingAssumption
  DEF DriverInv, Lapsed, Locks, TypeOK, Ages
<1>3. fenced => lock'.holder = NoClient
  BY ExpireFacts DEF FenceInv
<1> QED
  BY <1>1, <1>2, <1>3 DEF LockHeldByOpenSession, DriverInv, FenceInv

\* Before anybody connects the lock is free and the register at rest.
LEMMA ServerInvInit == ServerInit => ServerInv
  BY LockAssumption
  DEF ServerInit, TeleopInit, LockInit, Free, ServerInv, LockTypeOK, Locks,
      LockHeldByOpenSession, DriverInv, FenceInv

\* No handler of the server, no step of the node and no tick breaks ServerInv.
LEMMA ServerInvStep ==
  TypeOK /\ ServerInv /\ [ServerNext]_serverVars => ServerInv'
<1> SUFFICES ASSUME TypeOK, ServerInv, [ServerNext]_serverVars
             PROVE ServerInv'
  OBVIOUS
<1> USE DEF LockTypeOK
<1>0. lock \in Locks /\ open \subseteq Clients
      /\ lock.holder \in open \cup {NoClient}
  BY DEF ServerInv, LockHeldByOpenSession
<1>1. ASSUME NEW c \in Clients, Connect(c) PROVE ServerInv'
  BY <1>1 DEF Connect, ServerInv, LockHeldByOpenSession, DriverInv, FenceInv,
              teleopVars
<1>2. ASSUME NEW c \in Clients, Cleanup(c, lock) \/ Cleanup(c, Touch(lock, c))
      PROVE  ServerInv'
  <2>1. PICK k \in Locks : Cleanup(c, k) /\ (k = lock \/ k = Touch(lock, c))
    BY <1>0, <1>2, TouchFacts
  <2>2. Expire(k) \in Locks /\ Expire(k).holder \in {NoClient, lock.holder}
    <3>1. k.holder \in {NoClient, lock.holder}
      BY <1>0, <2>1, ExpireFacts, TouchFacts
    <3> QED
      BY <3>1, ExpireFacts
  <2>3. CASE Expire(k).holder = c
    <3>1. lock' = Release(Expire(k), c) /\ cmd' = 0
      BY <2>1, <2>3 DEF Cleanup, Stop, StopWrite, Write
    <3> QED
      BY <1>0, <2>1, <2>2, <2>3, <3>1, ReleaseFacts, StopKeepsInv DEF Cleanup
  <2>4. CASE Expire(k).holder # c
    <3>1. Expire(k) = Expire(lock)
      BY <1>0, <2>1, <2>4, ExpireFacts, TouchFacts DEF Touch, Expire
    <3> QED
      BY <1>0, <2>1, <2>2, <2>4, <3>1, ExpireKeepsInv DEF Cleanup, teleopVars
  <2> QED
    BY <2>3, <2>4
<1>3. ASSUME NEW c \in Clients, NEW v \in Requests, OnTwist(c, v)
      PROVE  ServerInv'
  <2>1. CASE lock'.holder = c /\ ~estop
    <3>1. lock' \in Locks /\ lock.holder = c /\ lock'.idle = 0
      <4>1. lock' = Touch(lock, c)
        BY <1>3 DEF OnTwist
      <4>2. lock' \in Locks /\ Expire(lock).holder = c /\ lock'.idle = 0
        BY <1>0, <2>1, <4>1, TouchFacts
      <4> QED
        BY <1>0, <4>2, ExpireFacts, LockAssumption
    <3>2. cmdAge' = 0 /\ lastDriver' = c /\ UNCHANGED <<open, fenced>>
      BY <1>3, <2>1 DEF OnTwist, Receives, SetTwist
    <3> QED
      BY <1>0, <2>1, <3>1, <3>2, LockAssumption
      DEF ServerInv, LockHeldByOpenSession, DriverInv, FenceInv
  <2>2. CASE ~(lock'.holder = c /\ ~estop)
    BY <1>3, <2>2, TouchKeepsInv DEF OnTwist, Receives, teleopVars
  <2> QED
    BY <2>1, <2>2
<1>4. ASSUME NEW c \in Clients, OnAcquire(c) PROVE ServerInv'
  <2> DEFINE k == Touch(lock, c)
  <2>1. k \in Locks /\ ~Lapsed(k)
    BY <1>0, TouchFacts
  <2>2. PICK label \in {c, NoClient} : lock' = Acquire(k, c, label)
    BY <1>4 DEF OnAcquire
  <2>3. lock' \in Locks
    BY <2>1, <2>2, AcquireFacts
  <2>4. UNCHANGED <<cmd, cmdAge, open, lastDriver>> /\ c \in open
        /\ fenced' = (fenced /\ lock'.holder # c)
    BY <1>4 DEF OnAcquire, Receives, teleopVars
  <2>5. CASE k.holder \in {NoClient, c}
    <3>1. lock'.holder = c /\ lock'.idle = 0
      BY <2>1, <2>2, <2>5, AcquireFacts
    <3>2. cmd # 0 /\ cmdAge <= Deadman + 2 * Stall => lastDriver = c
      \* A fresh velocity keeps the lock from lapsing.
      BY <1>0, <2>5, TouchFacts, ExpireFacts, LeaseAssumption, LockAssumption,
         TimingAssumption
      DEF ServerInv, DriverInv, Lapsed, Locks, TypeOK, Ages
    <3>3. DriverInv'
      BY <2>4, <3>1, <3>2 DEF ServerInv, DriverInv, TypeOK, Ages
    <3>4. LockHeldByOpenSession' /\ FenceInv'
      BY <2>4, <3>1 DEF LockHeldByOpenSession, FenceInv
    <3> QED
      BY <1>0, <2>3, <2>4, <3>3, <3>4 DEF ServerInv
  <2>6. CASE k.holder \notin {NoClient, c}
    <3>1. lock' = Touch(lock, c)
      BY <2>1, <2>2, <2>6, AcquireFacts
    <3> QED
      BY <2>4, <3>1, TouchKeepsInv
  <2> QED
    BY <2>5, <2>6
<1>5. ASSUME NEW c \in Clients, OnRelease(c) PROVE ServerInv'
  <2>1. lock' \in Locks /\ lock'.holder \in {NoClient, lock.holder}
    <3>1. Touch(lock, c) \in Locks
          /\ Touch(lock, c).holder \in {NoClient, lock.holder}
      BY <1>0, TouchFacts, ExpireFacts
    <3> QED
      BY <1>5, <3>1, ReleaseFacts DEF OnRelease
  <2> QED
    BY <1>0, <1>5, <2>1, StopKeepsInv
    DEF OnRelease, Receives, Stop, StopWrite, Write
<1>6. ASSUME NEW c \in Clients, OnStop(c) PROVE ServerInv'
  <2>1. CASE lock'.holder = c
    <3>1. lock' \in Locks /\ lock'.holder \in {NoClient, lock.holder}
      BY <1>0, <1>6, TouchFacts, ExpireFacts DEF OnStop
    <3> QED
      BY <1>0, <1>6, <2>1, <3>1, StopKeepsInv
      DEF OnStop, Receives, Stop, StopWrite, Write
  <2>2. CASE lock'.holder # c
    BY <1>6, <2>2, TouchKeepsInv DEF OnStop, Receives, teleopVars
  <2> QED
    BY <2>1, <2>2
<1>7. ASSUME NEW c \in Clients, OnPing(c) PROVE ServerInv'
  BY <1>7, TouchKeepsInv DEF OnPing, Receives, teleopVars
<1>8. CASE PollStatus
  BY <1>0, <1>8, ExpireFacts, ExpireKeepsInv DEF PollStatus, teleopVars
<1>9. ASSUME NEW b \in BOOLEAN, ApiEstop(b) PROVE ServerInv'
  <2>1. CASE b
    <3>1. lock' = Release(Expire(lock), Expire(lock).holder) /\ cmd' = 0
      BY <1>9, <2>1 DEF ApiEstop, SetEstop, Write
    <3>2. lock' \in Locks /\ lock'.holder = NoClient
      BY <1>0, <3>1, ExpireFacts, ReleaseFacts
    <3> QED
      BY <1>0, <1>9, <3>1, <3>2
      DEF ApiEstop, ServerInv, LockHeldByOpenSession, DriverInv, FenceInv
  <2>2. CASE ~b
    BY <1>9, <2>2
    DEF ApiEstop, SetEstop, ServerInv, LockHeldByOpenSession, DriverInv, FenceInv
  <2> QED
    BY <2>1, <2>2
<1>10. CASE ActionServerReady \/ AdminRestart
  BY <1>0, <1>10, StopKeepsInv
  DEF ActionServerReady, AdminRestart, Stop, StopWrite, Write
<1>11. CASE NodeStep
  <2>1. CASE MainStop
    BY <1>0, <1>11, <2>1, StopKeepsInv DEF NodeStep, MainStop, StopWrite, Write
  <2>2. CASE UNCHANGED <<cmd, cmdAge>>
    BY <1>11, <2>2
    DEF NodeStep, ServerInv, LockHeldByOpenSession, DriverInv, FenceInv
  <2> QED
    BY <1>11, <2>1, <2>2
    DEF NodeStep, TimerTake, TimerSkip, TimerPublish, LoopPublish,
        ExecutorShutdown, Exited, teleopVars
<1>12. CASE ServerTick
  <2>1. lock' \in Locks /\ lock'.holder = lock.holder
        /\ lock'.idle <= lock.idle + 1
    BY <1>0, <1>12, AgedFacts DEF ServerTick
  <2>2. cmd' = cmd /\ (cmdAge' <= Deadman + 2 * Stall => cmdAge' = cmdAge + 1)
    BY <1>12, TimingAssumption DEF ServerTick, Tick, Older, TypeOK, Ages
  <2>3. UNCHANGED <<open, lastDriver, fenced>>
    BY <1>12 DEF ServerTick
  <2> QED
    BY <1>0, <2>1, <2>2, <2>3, TimingAssumption
    DEF ServerInv, LockHeldByOpenSession, DriverInv, FenceInv, TypeOK, Ages, Locks
<1>13. CASE UNCHANGED <<teleopVars, lock, open, lastDriver, fenced>>
  BY <1>13
  DEF ServerInv, LockHeldByOpenSession, DriverInv, FenceInv, teleopVars
<1> QED
  BY <1>1, <1>2, <1>3, <1>4, <1>5, <1>6, <1>7, <1>8, <1>9, <1>10, <1>11, <1>12,
     <1>13
  DEF ServerNext, Disconnect, OnBadMessage, ApiAction, ActionServerMissing,
      ActionEnds, serverVars

\* ServerInv holds of the server, whose node keeps its types.
LEMMA ServerInvariant == ServerSpec => [](TypeOK /\ ServerInv)
<1>1. ServerInit => TypeOK
  BY TypeInit DEF ServerInit
<1>2. TypeOK /\ [ServerNext]_serverVars => TypeOK'
  BY TypeStep, ServerStepsNode
<1> QED
  BY <1>1, <1>2, ServerInvInit, ServerInvStep, PTL DEF ServerSpec

\* The flags of the server are Booleans.
FlagsOK == waiting \in BOOLEAN /\ acting \in BOOLEAN /\ fenced \in BOOLEAN

\* No step sets a flag to anything else.
LEMMA FlagsStep == FlagsOK /\ [ServerNext]_serverVars => FlagsOK'
<1> SUFFICES ASSUME FlagsOK, [ServerNext]_serverVars PROVE FlagsOK'
  OBVIOUS
<1> USE DEF FlagsOK
<1>1. ASSUME NEW c \in Clients, Connect(c) PROVE FlagsOK'
  BY <1>1 DEF Connect
<1>2. ASSUME NEW c \in Clients, NEW k, Cleanup(c, k) PROVE FlagsOK'
  BY <1>2 DEF Cleanup
<1>3. ASSUME NEW c \in Clients, NEW v \in Requests, OnTwist(c, v) PROVE FlagsOK'
  BY <1>3 DEF OnTwist, Receives
<1>4. ASSUME NEW c \in Clients, OnAcquire(c) PROVE FlagsOK'
  <2>1. fenced' = (fenced /\ lock'.holder # c)
    BY <1>4 DEF OnAcquire
  <2>2. fenced' \in BOOLEAN
    BY <2>1, Zenon
  <2> QED
    BY <1>4, <2>2 DEF OnAcquire, Receives
<1>5. ASSUME NEW c \in Clients, OnRelease(c) \/ OnStop(c) \/ OnPing(c)
      PROVE  FlagsOK'
  BY <1>5 DEF OnRelease, OnStop, OnPing, Receives
<1>6. CASE PollStatus \/ NodeStep \/ ServerTick
  BY <1>6 DEF PollStatus, NodeStep, ServerTick
<1>7. ASSUME NEW b \in BOOLEAN, ApiEstop(b) PROVE FlagsOK'
  <2>1. fenced' = (fenced \/ b)
    BY <1>7 DEF ApiEstop
  <2>2. fenced' \in BOOLEAN
    BY <2>1, Zenon
  <2> QED
    BY <1>7, <2>2 DEF ApiEstop
<1>8. CASE ApiAction \/ ActionServerReady \/ ActionServerMissing
  BY <1>8 DEF ApiAction, ActionServerReady, ActionServerMissing
<1>9. CASE AdminRestart \/ ActionEnds
  BY <1>9 DEF AdminRestart, ActionEnds
<1>10. CASE UNCHANGED serverVars
  BY <1>10 DEF serverVars
<1> QED
  BY <1>1, <1>2, <1>3, <1>4, <1>5, <1>6, <1>7, <1>8, <1>9, <1>10
  DEF ServerNext, Disconnect, OnBadMessage

\* The last driver is a session, or none yet.
DriverOK == lastDriver \in Clients \cup {NoClient}

\* Only a session's twist names a driver, and it names that session.
LEMMA DriverTypeStep ==
  DriverOK /\ [ServerNext]_serverVars => DriverOK'
<1> SUFFICES ASSUME DriverOK, [ServerNext]_serverVars, lastDriver' # lastDriver
             PROVE  DriverOK'
  BY DEF DriverOK
<1>1. \E c \in Clients, v \in Requests : OnTwist(c, v)
  BY DEF ServerNext, serverVars, Connect, Disconnect, OnBadMessage, Cleanup,
         OnAcquire, OnRelease, OnStop, OnPing, PollStatus, ApiEstop, ApiAction,
         ActionServerReady, ActionServerMissing, AdminRestart, ActionEnds,
         NodeStep, ServerTick
<1> QED
  BY <1>1 DEF OnTwist, DriverOK

\* For every number of sessions, the variables of the server have their types.
THEOREM ServerTypeCorrect == ServerSpec => []ServerTypeOK
<1>1. ServerInit => FlagsOK /\ DriverOK
  BY DEF ServerInit, FlagsOK, DriverOK
<1>2. TypeOK /\ ServerInv /\ FlagsOK /\ DriverOK => ServerTypeOK
  BY DEF ServerInv, FlagsOK, DriverOK, ServerTypeOK
<1> QED
  BY <1>1, <1>2, FlagsStep, DriverTypeStep, ServerInvariant, PTL DEF ServerSpec

\* For every number of sessions, a velocity the node would still publish was
\* sent by the session that holds the lock.
THEOREM OneDriver == ServerSpec => []DriverHoldsLock
<1>1. TypeOK /\ ServerInv => DriverHoldsLock
  BY TimingAssumption
  DEF TypeOK, Ages, ServerInv, DriverInv, DriverHoldsLock, Driver, Stale
<1> QED
  BY <1>1, ServerInvariant, PTL

\* The lock is never left to a session whose handler has ended.
THEOREM HolderIsOpen == ServerSpec => []LockHeldByOpenSession
<1>1. ServerInv => LockHeldByOpenSession
  BY DEF ServerInv
<1> QED
  BY <1>1, ServerInvariant, PTL

\* After an e-stop nothing moves the robot until somebody is granted the lock.
THEOREM EstopFences == ServerSpec => []EstopFencesDrivers
<1>1. ServerInv => EstopFencesDrivers
  BY DEF ServerInv, FenceInv, EstopFencesDrivers
<1> QED
  BY <1>1, ServerInvariant, PTL

-----------------------------------------------------------------------------
(* The lease against the deadman. *)

\* DeadmanInv with the age of the lease for the age of the command: while there
\* is a holder, a velocity was read from the register or is on the wire only if
\* the holder had been heard within the timeout when the timer read it.
LapseInv ==
  life # "down" /\ lock.holder # NoClient =>
    /\ timer = "publishing" /\ timerOut # 0 => lock.idle - sinceRead <= Deadman
    /\ timer = "idle" /\ wire # 0 => lock.idle - sinceRead <= Deadman
    /\ timer = "publishing" /\ wire # 0 =>
         lock.idle - sinceRead <= Deadman + Stall

\* What a handler may do to the lock: free it, renew it or leave it.
Handled(k, l) == \/ l.holder = NoClient \/ l.idle = 0
                 \/ l.holder = k.holder /\ l.idle = k.idle

\* Looking at the lock, with or without touching it, is such a handling.
LEMMA LookHandles ==
  ASSUME NEW k \in Locks
  PROVE  /\ Handled(k, Expire(k))
         /\ \A c \in Clients : Handled(k, Touch(k, c))
  BY ExpireFacts, TouchFacts DEF Handled

\* No handler of a session or of REST does more to the lock than that, nor
\* anything to the timer and the wire.
LEMMA HandlersHandle ==
  ASSUME lock \in Locks, ServerNext
  PROVE  \/ NodeStep \/ ServerTick
         \/ /\ Handled(lock, lock')
            /\ UNCHANGED <<timer, timerOut, sinceRead, life, wire>>
<1> DEFINE Calm == UNCHANGED <<timer, timerOut, sinceRead, life, wire>>
<1>1. Stop \/ UNCHANGED teleopVars => Calm
  BY DEF Stop, StopWrite, teleopVars
<1>2. ASSUME NEW c \in Clients, NEW k \in {lock, Touch(lock, c)}, Cleanup(c, k)
      PROVE  Handled(lock, lock') /\ Calm
  <2>1. k \in Locks /\ Expire(k) \in Locks
    BY <1>2, TouchFacts, ExpireFacts
  <2>2. CASE Expire(k).holder = c
    BY <1>1, <1>2, <2>1, <2>2, ReleaseFacts DEF Cleanup, Handled
  <2>3. CASE Expire(k).holder # c
    <3>1. Expire(k) = Expire(lock)
      BY <1>2, <2>1, <2>3, ExpireFacts, TouchFacts DEF Touch, Expire
    <3> QED
      BY <1>1, <1>2, <2>3, <3>1, LookHandles DEF Cleanup
  <2> QED
    BY <2>2, <2>3
<1>3. ASSUME NEW c \in Clients, NEW v \in Requests, OnTwist(c, v)
      PROVE  Handled(lock, lock') /\ Calm
  BY <1>1, <1>3, LookHandles DEF OnTwist, SetTwist
<1>4. ASSUME NEW c \in Clients, OnAcquire(c) PROVE Handled(lock, lock') /\ Calm
  BY <1>1, <1>4, LookHandles, TouchFacts, AcquireFacts DEF OnAcquire, Handled
<1>5. ASSUME NEW c \in Clients, OnRelease(c) PROVE Handled(lock, lock') /\ Calm
  BY <1>1, <1>5, LookHandles, TouchFacts, ReleaseFacts DEF OnRelease, Handled
<1>6. ASSUME NEW c \in Clients, OnStop(c) \/ OnPing(c)
      PROVE  Handled(lock, lock') /\ Calm
  BY <1>1, <1>6, LookHandles DEF OnStop, OnPing
<1>7. CASE PollStatus
  BY <1>1, <1>7, LookHandles DEF PollStatus
<1>8. ASSUME NEW b \in BOOLEAN, ApiEstop(b) PROVE Handled(lock, lock') /\ Calm
  BY <1>8, ExpireFacts, ReleaseFacts DEF ApiEstop, SetEstop, Handled
<1>9. ASSUME UNCHANGED lock, Stop \/ UNCHANGED teleopVars
      PROVE  Handled(lock, lock') /\ Calm
  BY <1>1, <1>9 DEF Handled
<1> QED
  BY <1>2, <1>3, <1>4, <1>5, <1>6, <1>7, <1>8, <1>9
  DEF ServerNext, Connect, Disconnect, OnBadMessage, ApiAction,
      ActionServerReady, ActionServerMissing, AdminRestart, ActionEnds

\* LapseInv is kept by every step: by the timer because a velocity it reads is
\* the holder's, by the handlers because they only renew or free the lock.
LEMMA LapseStep ==
  TypeOK /\ DeadmanInv /\ ServerInv /\ LapseInv /\ [ServerNext]_serverVars
    => LapseInv'
<1> SUFFICES ASSUME TypeOK, DeadmanInv, ServerInv, LapseInv,
                    [ServerNext]_serverVars
             PROVE LapseInv'
  OBVIOUS
<1> USE TimingAssumption DEF LapseInv, TypeOK
<1>0. lock \in Locks /\ lock.idle \in Nat
  BY LockAssumption DEF ServerInv, LockTypeOK, Locks
<1>1. CASE Handled(lock, lock')
           /\ UNCHANGED <<timer, timerOut, sinceRead, life, wire>>
  BY <1>0, <1>1 DEF Handled
<1>2. CASE NodeStep
  <2>1. UNCHANGED lock
    BY <1>2 DEF NodeStep
  <2>2. CASE TimerTake
    <3>1. timerOut' # 0 => lock.holder = lastDriver /\ lock.idle <= Deadman
      BY <1>0, <2>2 DEF TimerTake, Stale, ServerInv, DriverInv, Ages
    <3> QED
      BY <1>0, <2>1, <2>2, <3>1 DEF TimerTake
  <2>3. CASE TimerSkip
    \* A quiet node has nothing on the wire.
    BY <1>0, <2>1, <2>3 DEF TimerSkip, Quiet, DeadmanInv, Ages
  <2>4. CASE TimerPublish
    BY <1>0, <2>1, <2>4 DEF TimerPublish
  <2>5. CASE LoopPublish
    BY <1>0, <2>1, <2>5 DEF LoopPublish
  <2>6. CASE MainStop \/ ExecutorShutdown
    BY <1>0, <2>1, <2>6 DEF MainStop, StopWrite, ExecutorShutdown
  <2>7. CASE Exited
    BY <2>1, <2>7 DEF Exited, teleopVars
  <2> QED
    BY <1>2, <2>2, <2>3, <2>4, <2>5, <2>6, <2>7 DEF NodeStep
<1>3. CASE ServerTick
  <2>1. lock'.idle \in Nat /\ lock'.idle <= lock.idle + 1
        /\ lock'.holder = lock.holder
    BY <1>0, <1>3, AgedFacts, LockAssumption DEF ServerTick, Locks
  <2>2. sinceRead' = sinceRead + 1 /\ UNCHANGED <<timer, timerOut, life, wire>>
    BY <1>3 DEF ServerTick, Tick
  <2> QED
    BY <1>0, <2>1, <2>2
<1>4. CASE UNCHANGED serverVars
  BY <1>4 DEF serverVars, teleopVars
<1> QED
  BY <1>0, <1>1, <1>2, <1>3, <1>4, HandlersHandle

\* For every lease as long as LeaseAssumption asks, the lock lapses only under
\* a robot that stands.
THEOREM LapseHolds == ServerSpec => []LapsedHolderStands
<1>1. ServerInit => LapseInv
  BY DEF ServerInit, TeleopInit, LapseInv
<1>2. TypeOK /\ ServerInv /\ LapseInv => LapsedHolderStands
  BY TimingAssumption, LeaseAssumption, LockAssumption
  DEF TypeOK, ServerInv, LockTypeOK, Locks, LapseInv, LapsedHolderStands, Lapsed
<1>3. ServerSpec => [](TypeOK /\ DeadmanInv)
  BY ServerImplementsTeleop, DeadmanSpec, PTL
<1> QED
  BY <1>1, <1>2, <1>3, LapseStep, ServerInvariant, PTL DEF ServerSpec

\* For every number of sessions and every choice of timeouts the lease outlasts,
\* the robot moves with nobody in control for two timer periods after a stop only.
THEOREM NobodyStands == ServerSpec => []NobodyInControlStands
<1>1. TypeOK /\ ServerInv /\ DeadmanBound /\ StopBound /\ LapsedHolderStands
        => NobodyInControlStands
  <2> SUFFICES ASSUME TypeOK, ServerInv, DeadmanBound, StopBound, LapsedHolderStands,
                      life # "down", wire # 0, Owner(lock) = NoClient
               PROVE  cmd = 0 /\ zeroAge <= 2 * Stall
    BY DEF NobodyInControlStands
  <2>1. lock.holder = NoClient
    BY DEF LapsedHolderStands, Owner
  <2>2. cmd = 0
    BY <2>1, LockAssumption DEF ServerInv, DriverInv, DeadmanBound
  <2> QED
    BY <2>2 DEF StopBound
<1> QED
  BY <1>1, ServerInvariant, ServerDeadman, ServerStop, LapseHolds, PTL

-----------------------------------------------------------------------------
(* Refinement of ExclusiveDrive. *)

\* At the start nobody owns the robot and nobody drives.
LEMMA RefinesInit == ServerInit => Abstract!Init
  BY DEF ServerInit, TeleopInit, LockInit, Free, Driver, Abstract!Init

\* A step that stops the robot and makes nobody owner.
LEMMA StopRefines ==
  ASSUME cmd' = 0, UNCHANGED estop, lock'.holder \in {NoClient, lock.holder}
  PROVE  Abstract!Coast \/ Abstract!Disown
  BY DEF Driver, Abstract!Coast, Abstract!Disown

\* A step that only looks at the lock: a lapsed holder was not driving.
LEMMA LookRefines ==
  ASSUME TypeOK, ServerInv, lock'.holder \in {lock.holder, Expire(lock).holder},
         UNCHANGED <<cmd, cmdAge, lastDriver, estop>>
  PROVE  [Abstract!Next]_(Abstract!vars)
<1>1. Driver' = Driver
  BY DEF Driver, Stale
<1>2. lock \in Locks
  BY DEF ServerInv, LockTypeOK
<1>3. CASE lock'.holder = lock.holder
  BY <1>1, <1>3 DEF Abstract!vars
<1>4. CASE lock'.holder # lock.holder
  <2>1. Lapsed(lock) /\ lock'.holder = NoClient
    BY <1>2, <1>4, ExpireFacts
  <2>2. Driver = NoClient
    BY <1>2, <2>1, LeaseAssumption, LockAssumption, TimingAssumption
    DEF ServerInv, DriverInv, Driver, Stale, Lapsed, Locks, TypeOK, Ages
  <2> QED
    BY <1>1, <2>1, <2>2 DEF Abstract!Next, Abstract!Disown
<1> QED
  BY <1>3, <1>4

\* Every step of the server moves ownership and driving as the abstract
\* specification allows, or leaves both alone.
LEMMA RefinesStep ==
  TypeOK /\ ServerInv /\ [ServerNext]_serverVars
    => [Abstract!Next]_(Abstract!vars)
<1> SUFFICES ASSUME TypeOK, ServerInv, [ServerNext]_serverVars
             PROVE [Abstract!Next]_(Abstract!vars)
  OBVIOUS
<1>0. lock \in Locks
  BY DEF ServerInv, LockTypeOK
<1>a. ASSUME Abstract!Coast \/ Abstract!Disown
      PROVE  [Abstract!Next]_(Abstract!vars)
  BY <1>a DEF Abstract!Next
<1>1. ASSUME NEW c \in Clients, Cleanup(c, lock) \/ Cleanup(c, Touch(lock, c))
      PROVE  [Abstract!Next]_(Abstract!vars)
  <2>1. PICK k \in Locks : Cleanup(c, k) /\ (k = lock \/ k = Touch(lock, c))
    BY <1>0, <1>1, TouchFacts
  <2>2. Expire(k) \in Locks /\ Expire(k).holder = Expire(lock).holder
    BY <1>0, <2>1, ExpireFacts, TouchFacts
  <2>3. CASE Expire(k).holder = c
    <3>1. lock'.holder = NoClient /\ cmd' = 0 /\ UNCHANGED estop
      BY <2>1, <2>2, <2>3, ReleaseFacts DEF Cleanup, Stop, StopWrite, Write
    <3> QED
      BY <1>a, <3>1, StopRefines
  <2>4. CASE Expire(k).holder # c
    BY <2>1, <2>2, <2>4, LookRefines DEF Cleanup, teleopVars
  <2> QED
    BY <2>3, <2>4
<1>2. ASSUME NEW c \in Clients, NEW v \in Requests, OnTwist(c, v)
      PROVE  [Abstract!Next]_(Abstract!vars)
  <2>1. lock' = Touch(lock, c)
    BY <1>2 DEF OnTwist
  <2>2. CASE lock'.holder = c /\ ~estop
    <3>1. lock.holder = c /\ lock'.holder = c /\ c # NoClient
      BY <1>0, <2>1, <2>2, TouchFacts, ExpireFacts, LockAssumption
    <3>2. UNCHANGED estop /\ lastDriver' = c /\ cmdAge' = 0
      BY <1>2, <2>2 DEF OnTwist, SetTwist
    <3>3. Driver' \in {c, NoClient}
      BY <3>2 DEF Driver
    <3> QED
      BY <2>2, <3>1, <3>2, <3>3 DEF Abstract!Next, Abstract!Drive, Abstract!Coast
  <2>3. CASE ~(lock'.holder = c /\ ~estop)
    BY <1>0, <1>2, <2>1, <2>3, TouchFacts, LookRefines DEF OnTwist, teleopVars
  <2> QED
    BY <2>2, <2>3
<1>3. ASSUME NEW c \in Clients, OnAcquire(c) PROVE [Abstract!Next]_(Abstract!vars)
  <2> DEFINE k == Touch(lock, c)
  <2>1. k \in Locks /\ ~Lapsed(k) /\ k.holder = Expire(lock).holder
    BY <1>0, TouchFacts
  <2>2. PICK label \in {c, NoClient} : lock' = Acquire(k, c, label)
    BY <1>3 DEF OnAcquire
  <2>3. UNCHANGED <<cmd, cmdAge, lastDriver, estop>>
    BY <1>3 DEF OnAcquire, teleopVars
  <2>4. lock'.holder = c \/ lock' = k
    BY <2>1, <2>2, AcquireFacts
  <2>5. CASE lock'.holder = c /\ Driver = NoClient
    <3>1. Driver' = Driver
      BY <2>3 DEF Driver, Stale
    <3> QED
      BY <2>3, <2>5, <3>1 DEF Abstract!Next, Abstract!Own
  <2>6. CASE lock'.holder = c /\ Driver # NoClient
    \* The holder is driving, so its lease is running and c is the holder.
    <3>1. lock.holder \in Clients /\ ~Lapsed(lock)
      BY <1>0, <2>6, LeaseAssumption, LockAssumption, TimingAssumption
      DEF ServerInv, DriverInv, Driver, Stale, Lapsed, Locks, TypeOK, Ages
    <3>2. k.holder = lock.holder
      BY <1>0, <2>1, <3>1, ExpireFacts
    <3>3. lock'.holder = lock.holder
      BY <2>1, <2>2, <2>6, <3>1, <3>2, AcquireFacts, LockAssumption
    <3> QED
      BY <2>3, <3>3, LookRefines
  <2>7. CASE lock' = k
    BY <2>1, <2>3, <2>7, LookRefines
  <2> QED
    BY <2>4, <2>5, <2>6, <2>7
<1>4. ASSUME NEW c \in Clients, OnRelease(c) PROVE [Abstract!Next]_(Abstract!vars)
  <2>1. Touch(lock, c) \in Locks
        /\ Touch(lock, c).holder \in {NoClient, lock.holder}
    BY <1>0, TouchFacts, ExpireFacts
  <2>2. lock'.holder \in {NoClient, lock.holder} /\ cmd' = 0 /\ UNCHANGED estop
    BY <1>4, <2>1, ReleaseFacts DEF OnRelease, Stop, StopWrite, Write
  <2> QED
    BY <1>a, <2>2, StopRefines
<1>5. ASSUME NEW c \in Clients, OnStop(c) PROVE [Abstract!Next]_(Abstract!vars)
  <2>1. lock' = Touch(lock, c) /\ lock'.holder = Expire(lock).holder
    BY <1>0, <1>5, TouchFacts DEF OnStop
  <2>2. CASE lock'.holder = c
    <3>1. lock'.holder \in {NoClient, lock.holder}
      BY <1>0, <2>1, ExpireFacts
    <3>2. cmd' = 0 /\ UNCHANGED estop
      BY <1>5, <2>2 DEF OnStop, Stop, StopWrite, Write
    <3> QED
      BY <1>a, <3>1, <3>2, StopRefines
  <2>3. CASE lock'.holder # c
    BY <1>5, <2>1, <2>3, LookRefines DEF OnStop, teleopVars
  <2> QED
    BY <2>2, <2>3
<1>6. ASSUME NEW c \in Clients, OnPing(c) PROVE [Abstract!Next]_(Abstract!vars)
  BY <1>0, <1>6, TouchFacts, LookRefines DEF OnPing, teleopVars
<1>7. CASE PollStatus
  BY <1>7, LookRefines DEF PollStatus, teleopVars
<1>8. ASSUME NEW b \in BOOLEAN, ApiEstop(b) PROVE [Abstract!Next]_(Abstract!vars)
  <2>1. CASE b
    <3>1. lock' = Release(Expire(lock), Expire(lock).holder)
          /\ cmd' = 0 /\ estop' = TRUE
      BY <1>8, <2>1 DEF ApiEstop, SetEstop, Write
    <3>2. lock'.holder = NoClient /\ Driver' = NoClient
      BY <1>0, <3>1, ExpireFacts, ReleaseFacts DEF Driver
    <3> QED
      BY <3>1, <3>2 DEF Abstract!Next, Abstract!Engage
  <2>2. CASE ~b
    <3>1. estop' = FALSE
      BY <1>8, <2>2 DEF ApiEstop, SetEstop
    <3>2. UNCHANGED <<lock, cmd, cmdAge, lastDriver>>
      BY <1>8, <2>2 DEF ApiEstop, SetEstop
    <3>3. UNCHANGED <<lock.holder, Driver>>
      BY <3>2 DEF Driver, Stale
    <3> QED
      BY <3>1, <3>3 DEF Abstract!Next, Abstract!Clear
  <2> QED
    BY <2>1, <2>2
<1>9. CASE ActionServerReady \/ AdminRestart
  BY <1>a, <1>9, StopRefines
  DEF ActionServerReady, AdminRestart, Stop, StopWrite, Write
<1>10. CASE NodeStep
  <2>1. CASE MainStop
    BY <1>a, <1>10, <2>1, StopRefines DEF NodeStep, MainStop, StopWrite, Write
  <2>2. CASE UNCHANGED <<cmd, cmdAge, estop>>
    BY <1>10, <2>2, LookRefines DEF NodeStep
  <2> QED
    BY <1>10, <2>1, <2>2
    DEF NodeStep, TimerTake, TimerSkip, TimerPublish, LoopPublish,
        ExecutorShutdown, Exited, teleopVars
<1>11. CASE ServerTick
  <2>1. lock'.holder = lock.holder
    BY <1>0, <1>11, AgedFacts DEF ServerTick
  <2>2. UNCHANGED <<cmd, lastDriver, estop>> /\ cmdAge' >= cmdAge
    BY <1>11, TimingAssumption DEF ServerTick, Tick, Older, TypeOK, Ages
  <2>3. cmdAge' \in Ages
    BY <1>11, OlderType DEF ServerTick, Tick, TypeOK
  <2>4. Driver' \in {Driver, NoClient}
    BY <2>2, <2>3, TimingAssumption DEF Driver, Stale, TypeOK, Ages
  <2> QED
    BY <2>1, <2>2, <2>4 DEF Abstract!Next, Abstract!Coast, Abstract!vars
<1>12. CASE UNCHANGED <<teleopVars, lock, lastDriver>>
  BY <1>12, LookRefines DEF teleopVars
<1> QED
  BY <1>1, <1>2, <1>3, <1>4, <1>5, <1>6, <1>7, <1>8, <1>9, <1>10, <1>11, <1>12
  DEF ServerNext, Connect, Disconnect, OnBadMessage, ApiAction,
      ActionServerMissing, ActionEnds, serverVars

\* For every number of sessions and every choice of timeouts the lease
\* outlasts, the server implements exclusive driving.
THEOREM Refinement == ServerSpec => ImplementsExclusiveDrive
  BY RefinesInit, RefinesStep, ServerInvariant, PTL
  DEF ServerSpec, ImplementsExclusiveDrive, Abstract!Spec

-----------------------------------------------------------------------------
(* The lease of the server. *)

\* Whatever a handler calls of the lock, and in whatever order, it is one step of
\* the lease at most.
LEMMA HandlersMove ==
  ASSUME lock \in Locks, ServerNext
  PROVE  Moves(lock, lock') \/ lock' = Aged(lock)
<1>0. \A c \in Clients : Touch(lock, c) \in Locks
  BY TouchFacts
<1>1. ASSUME NEW c \in Clients
      PROVE  Keeps(lock, Touch(lock, c)) \/ Renews(lock, Touch(lock, c), c)
  BY TouchMoves
<1>2. ASSUME NEW c \in Clients, lock' = Touch(lock, c) PROVE Moves(lock, lock')
  BY <1>1, <1>2 DEF Moves
<1>3. ASSUME lock' = Expire(lock) PROVE Moves(lock, lock')
  BY <1>3, ExpireMoves DEF Moves
<1>4. ASSUME UNCHANGED lock PROVE Moves(lock, lock')
  BY <1>4 DEF Moves, Keeps
<1>5. ASSUME NEW c \in Clients, NEW k \in {lock, Touch(lock, c)}, Cleanup(c, k)
      PROVE  Moves(lock, lock')
  <2>1. k \in Locks /\ Expire(k) \in Locks
    BY <1>0, ExpireFacts
  <2>2. Keeps(lock, k) \/ Renews(lock, k, c)
    BY <1>1 DEF Keeps
  <2>3. Keeps(lock, Expire(k)) \/ Renews(lock, Expire(k), c)
    BY <2>1, <2>2, ExpireMoves DEF Keeps, Renews
  <2>4. CASE Expire(k).holder = c
    <3>1. lock' = Release(Expire(k), c)
      BY <1>5, <2>4 DEF Cleanup
    <3> QED
      BY <2>1, <2>3, <3>1, ReleaseMoves, MovesTwice
  <2>5. CASE Expire(k).holder # c
    BY <1>5, <2>3, <2>5 DEF Cleanup, Moves
  <2> QED
    BY <2>4, <2>5
<1>6. ASSUME NEW c \in Clients, OnAcquire(c) PROVE Moves(lock, lock')
  <2>1. PICK label \in Clients \cup {NoClient} :
          lock' = Acquire(Touch(lock, c), c, label)
    BY <1>6 DEF OnAcquire
  <2>2. Keeps(Touch(lock, c), lock') \/ Renews(Touch(lock, c), lock', c)
    BY <1>0, <2>1, AcquireMoves DEF Keeps
  <2> QED
    BY <1>1, <2>2, MovesTwice
<1>7. ASSUME NEW c \in Clients, OnRelease(c) PROVE Moves(lock, lock')
  <2>1. Keeps(Touch(lock, c), lock') \/ Frees(lock')
    BY <1>0, <1>7, ReleaseMoves DEF OnRelease
  <2> QED
    BY <1>1, <2>1, MovesTwice
<1>8. ASSUME NEW b \in BOOLEAN, ApiEstop(b) PROVE Moves(lock, lock')
  <2>1. Expire(lock) \in Locks /\ Keeps(lock, Expire(lock))
    BY ExpireFacts, ExpireMoves
  <2>2. CASE b
    <3>1. Keeps(Expire(lock), lock') \/ Frees(lock')
      BY <1>8, <2>1, <2>2, ReleaseMoves DEF ApiEstop
    <3> QED
      BY <2>1, <3>1 DEF Moves, Keeps
  <2>3. CASE ~b
    BY <1>4, <1>8, <2>3 DEF ApiEstop
  <2> QED
    BY <2>2, <2>3
<1> QED
  BY <1>2, <1>3, <1>4, <1>5, <1>6, <1>7, <1>8
  DEF ServerNext, Connect, Disconnect, OnBadMessage, OnTwist, OnStop, OnPing,
      PollStatus, ApiAction, ActionServerReady, ActionServerMissing,
      AdminRestart, ActionEnds, NodeStep, ServerTick

\* For every number of sessions: the server, whose handlers each make several
\* calls to the lock, gives out a lease that ends on time.
THEOREM ServerLease == ServerSpec => ImplementsLease
<1>1. ServerInit => Exact!Init
  BY FreeLease DEF ServerInit, LockInit
<1>2. ServerInv /\ [ServerNext]_serverVars => [Exact!Next]_(Exact!vars)
  <2> SUFFICES ASSUME ServerInv, [ServerNext]_serverVars
               PROVE  [Exact!Next]_(Exact!vars)
    OBVIOUS
  <2>1. lock \in Locks
    BY DEF ServerInv, LockTypeOK
  <2>2. ASSUME UNCHANGED serverVars PROVE Moves(lock, lock')
    BY <2>2 DEF serverVars, Moves, Keeps
  <2> QED
    BY <2>1, <2>2, HandlersMove, MovesLease, AgedLease
<1> QED
  BY <1>1, <1>2, ServerInvariant, PTL DEF ServerSpec, ImplementsLease, Exact!Spec

-----------------------------------------------------------------------------
(* Labels and theft, in the server. *)

\* A handler, made of several calls to the lock, mixes up no labels.
LEMMA HandlersLabel ==
  ASSUME Labelled(lock), [ServerNext]_serverVars
  PROVE  Labelled(lock')
<1>0. lock \in Locks /\ Expire(lock).holder \in Clients \cup {NoClient}
  BY LabelKept DEF Labelled, Locks
<1>1. \A c \in Clients : Labelled(Touch(lock, c))
  BY LabelKept
<1>2. ASSUME NEW c \in Clients, NEW k, Labelled(k), Cleanup(c, k)
      PROVE  Labelled(lock')
  <2>1. Labelled(Expire(k)) /\ Labelled(Release(Expire(k), c))
    BY <1>2, LabelKept
  <2> QED
    BY <1>2, <2>1 DEF Cleanup
<1>3. ASSUME NEW c \in Clients, OnAcquire(c) PROVE Labelled(lock')
  BY <1>1, <1>3, LabelKept DEF OnAcquire
<1>4. ASSUME NEW c \in Clients, OnRelease(c) PROVE Labelled(lock')
  BY <1>1, <1>4, LabelKept DEF OnRelease
<1>5. ASSUME NEW b \in BOOLEAN, ApiEstop(b) PROVE Labelled(lock')
  <2>1. Labelled(Expire(lock))
    BY LabelKept
  <2>2. Labelled(Release(Expire(lock), Expire(lock).holder))
    BY <1>0, <2>1, LabelKept
  <2> QED
    BY <1>5, <2>2 DEF ApiEstop
<1>6. CASE \/ \E c \in Clients : lock' = Touch(lock, c)
           \/ lock' = Expire(lock) \/ lock' = Aged(lock) \/ UNCHANGED lock
  BY <1>1, <1>6, LabelKept
<1>7. CASE UNCHANGED serverVars
  BY <1>6, <1>7 DEF serverVars
<1> QED
  BY <1>1, <1>2, <1>3, <1>4, <1>5, <1>6, <1>7
  DEF ServerNext, Connect, Disconnect, OnBadMessage, OnTwist, OnStop, OnPing,
      PollStatus, ApiAction, ActionServerReady, ActionServerMissing,
      AdminRestart, ActionEnds, NodeStep, ServerTick

\* For any number of sessions and whatever they call themselves: the label the pages
\* show beside the lock is its holder's own or empty.
THEOREM ServerLabel == ServerSpec => []LabelOfHolder
<1>1. ServerInit => Labelled(lock)
  BY LockAssumption DEF ServerInit, LockInit, Free, Labelled, Locks
<1>2. Labelled(lock) => LabelOfHolder
  BY DEF Labelled, LabelOfHolder
<1>3. Labelled(lock) /\ [ServerNext]_serverVars => Labelled(lock)'
  <2>1. Labelled(lock)' <=> Labelled(lock')
    BY DEF Labelled
  <2> QED
    BY <2>1, HandlersLabel
<1> QED
  BY <1>1, <1>2, <1>3, PTL DEF ServerSpec

\* NotStolen, of the handlers: whose lease has not run out loses the lock only by
\* its own release, the end of its own session, or an e-stop.
ServerNotStolen ==
  [][\A c \in Clients :
       lock.holder = c /\ lock.idle <= Lease /\ lock'.holder # c
         => OnRelease(c) \/ Disconnect(c) \/ OnBadMessage(c) \/ ApiEstop(TRUE)
    ]_serverVars

\* For any number of sessions: no message, clean-up, look or tick of somebody else
\* takes the lock from a holder within its lease.
THEOREM ServerHolderKeeps == ServerSpec => ServerNotStolen
<1>1. ASSUME LockTypeOK, ServerNext, NEW c \in Clients,
             lock.holder = c, lock.idle <= Lease, lock'.holder # c
      PROVE  OnRelease(c) \/ Disconnect(c) \/ OnBadMessage(c) \/ ApiEstop(TRUE)
  <2>1. lock \in Locks /\ ~Lapsed(lock) /\ Expire(lock) = lock /\ c # NoClient
    BY <1>1, LockAssumption DEF LockTypeOK, Lapsed, Expire, Locks
  <2>2. \A d \in Clients : /\ Touch(lock, d) \in Locks /\ Touch(lock, d).holder = c
                            /\ ~Lapsed(Touch(lock, d))
    BY <1>1, <2>1, TouchFacts
  <2>3. ASSUME NEW d \in Clients, lock' = Touch(lock, d) PROVE FALSE
    BY <1>1, <2>2, <2>3
  <2>4. ASSUME lock' = Expire(lock) \/ lock' = Aged(lock) \/ UNCHANGED lock PROVE FALSE
    BY <1>1, <2>1, <2>4, AgedFacts
  <2>5. ASSUME NEW d \in Clients, NEW k \in {lock, Touch(lock, d)}, Cleanup(d, k)
        PROVE  d = c
    <3>1. k.holder = c /\ Expire(k) = k
      BY <1>1, <2>1, <2>2 DEF Expire
    <3> QED
      BY <1>1, <2>5, <3>1 DEF Cleanup
  <2>6. ASSUME NEW d \in Clients, OnAcquire(d) PROVE FALSE
    <3>1. PICK label \in {d, NoClient} : lock' = Acquire(Touch(lock, d), d, label)
      BY <2>6 DEF OnAcquire
    <3>2. lock'.holder = c
      BY <2>1, <2>2, <3>1, AcquireFacts
    <3> QED
      BY <1>1, <3>2
  <2>7. ASSUME NEW d \in Clients, OnRelease(d) PROVE d = c
    BY <1>1, <2>2, <2>7, ReleaseFacts DEF OnRelease
  <2>8. ASSUME ApiEstop(FALSE) PROVE FALSE
    BY <2>4, <2>8 DEF ApiEstop
  <2> QED
    BY <1>1, <2>3, <2>4, <2>5, <2>6, <2>7, <2>8
    DEF ServerNext, Connect, Disconnect, OnBadMessage, OnTwist, OnStop, OnPing,
        PollStatus, ApiAction, ActionServerReady, ActionServerMissing,
        AdminRestart, ActionEnds, NodeStep, ServerTick
<1>2. ServerInv /\ [ServerNext]_serverVars
        => [\A c \in Clients :
              lock.holder = c /\ lock.idle <= Lease /\ lock'.holder # c
                => OnRelease(c) \/ Disconnect(c) \/ OnBadMessage(c) \/ ApiEstop(TRUE)
           ]_serverVars
  BY <1>1 DEF ServerInv
<1> QED
  BY <1>2, ServerInvariant, PTL DEF ServerSpec, ServerNotStolen
=============================================================================
