------------------------------ MODULE WebServer ------------------------------
(***************************************************************************)
(* create3_web/server.py, with the handlers of admin.py that stop the      *)
(* robot: the websocket sessions and REST endpoints in front of the        *)
(* control lock (ControlLock) and the node (Teleop).                       *)
(*                                                                         *)
(* Every handler runs on the one event loop and is a single step up to its *)
(* next await, except that                                                 *)
(*   - stop() and set_estop() publish after letting go of the mutex, and   *)
(*     the timer may run in between (Teleop's LoopPublish);                *)
(*   - start_action() blocks the loop in wait_for_server ("waiting");      *)
(* A client identifier stands for one websocket session; a page that       *)
(* reconnects gets a new one.                                              *)
(***************************************************************************)
EXTENDS Teleop, ControlLock

\* "deliberately much longer than the velocity deadman" (server.py).
ASSUME LeaseAssumption == Deadman + 2 * Stall <= Lease

VARIABLES
  open,        \* sessions whose handler is running
  waiting,     \* the event loop is blocked in wait_for_server
  acting,      \* a dock or undock goal was sent and has not ended
  lastDriver,  \* ghost: whose twist the register last took
  fenced       \* ghost: nobody was granted the lock since the last e-stop

serverVars == <<teleopVars, lock, open, waiting, acting, lastDriver, fenced>>

Ready   == Serving /\ ~waiting
Blocked == Serving /\ waiting

ServerInit ==
  /\ TeleopInit /\ LockInit
  /\ open = {} /\ waiting = FALSE /\ acting = FALSE
  /\ lastDriver = NoClient /\ fenced = FALSE

-----------------------------------------------------------------------------
(* The websocket handler.  Any message that parses touches the lock first. *)

Connect(c) ==
  /\ Ready /\ c \notin open /\ open' = open \cup {c}
  /\ UNCHANGED <<teleopVars, lock, waiting, acting, lastDriver, fenced>>

Receives(c) == Ready /\ c \in open /\ UNCHANGED <<open, waiting, acting>>

\* Variant: the lock is touched and not looked at.
OnTwistFromAnyone(c, v) ==
  /\ Receives(c) /\ ~estop
  /\ lock' = Touch(lock, c) /\ SetTwist(v) /\ lastDriver' = c
  /\ UNCHANGED fenced

OnTwist(c, v) ==
  /\ Receives(c)
  /\ lock' = Touch(lock, c)
  /\ IF lock'.holder = c /\ ~estop
       THEN SetTwist(v) /\ lastDriver' = c
       ELSE UNCHANGED <<teleopVars, lastDriver>>
  /\ UNCHANGED fenced

OnAcquire(c) ==
  /\ Receives(c)
  /\ \E label \in {c, NoClient} : lock' = Acquire(Touch(lock, c), c, label)
  /\ fenced' = (fenced /\ lock'.holder # c)
  /\ UNCHANGED <<teleopVars, lastDriver>>

\* Variant: the lock is given up and the robot left to the deadman.
OnReleaseWithoutStop(c) ==
  /\ Receives(c)
  /\ lock' = Release(Touch(lock, c), c)
  /\ UNCHANGED <<teleopVars, lastDriver, fenced>>

\* node.stop() is called whether or not c held the lock.
OnRelease(c) ==
  /\ Receives(c)
  /\ lock' = Release(Touch(lock, c), c) /\ Stop
  /\ UNCHANGED <<lastDriver, fenced>>

OnStop(c) ==
  /\ Receives(c)
  /\ lock' = Touch(lock, c)
  /\ IF lock'.holder = c THEN Stop ELSE UNCHANGED teleopVars
  /\ UNCHANGED <<lastDriver, fenced>>

\* A ping, or a message of no known kind.
OnPing(c) ==
  /\ Receives(c)
  /\ lock' = Touch(lock, c)
  /\ UNCHANGED <<teleopVars, lastDriver, fenced>>

\* Variant: a closed tab leaves the lock to its lease.
CleanupForgetsLock(c, k) ==
  /\ open' = open \ {c} /\ lock' = Expire(k)
  /\ IF Expire(k).holder = c THEN Stop ELSE UNCHANGED teleopVars
  /\ UNCHANGED <<waiting, acting, lastDriver, fenced>>

\* The finally of the handler of session c, the lock being k when it is entered.
Cleanup(c, k) ==
  /\ open' = open \ {c}
  /\ IF Expire(k).holder = c
       THEN lock' = Release(Expire(k), c) /\ Stop
       ELSE lock' = Expire(k) /\ UNCHANGED teleopVars
  /\ UNCHANGED <<waiting, acting, lastDriver, fenced>>

Disconnect(c) == Ready /\ c \in open /\ Cleanup(c, lock)

\* A message that is no object, or whose velocity is no number: the handler
\* fails after the touch.
OnBadMessage(c) == Ready /\ c \in open /\ Cleanup(c, Touch(lock, c))

-----------------------------------------------------------------------------
(* REST, and the telemetry of the open pages. *)

\* pump_telemetry and /api/state.
PollStatus ==
  /\ Ready /\ lock' = Expire(lock)
  /\ UNCHANGED <<teleopVars, open, waiting, acting, lastDriver, fenced>>

\* Variant: the e-stop leaves the lock alone.
ApiEstopKeepsLock(engaged) ==
  /\ Ready /\ SetEstop(engaged)
  /\ lock' = Expire(lock) /\ fenced' = (fenced \/ engaged)
  /\ UNCHANGED <<open, waiting, acting, lastDriver>>

\* Engaging takes the lock from whoever holds it.
ApiEstop(engaged) ==
  /\ Ready /\ SetEstop(engaged)
  /\ lock' = IF engaged THEN Release(Expire(lock), Expire(lock).holder) ELSE lock
  /\ fenced' = (fenced \/ engaged)
  /\ UNCHANGED <<open, waiting, acting, lastDriver>>

\* start_action: refused under the e-stop, else the loop waits for the server.
ApiAction ==
  /\ Ready /\ ~estop /\ waiting' = TRUE
  /\ UNCHANGED <<teleopVars, lock, open, acting, lastDriver, fenced>>

ActionServerReady ==
  /\ Blocked /\ waiting' = FALSE
  /\ Stop /\ acting' = TRUE
  /\ UNCHANGED <<lock, open, lastDriver, fenced>>

ActionServerMissing ==
  /\ Blocked /\ waiting' = FALSE
  /\ UNCHANGED <<teleopVars, lock, open, acting, lastDriver, fenced>>

\* restart-app and reboot stop the robot before they post the request to it
\* from another thread.
AdminRestart ==
  /\ Ready /\ Stop
  /\ UNCHANGED <<lock, open, waiting, acting, lastDriver, fenced>>

\* The robot has answered the goal.
ActionEnds ==
  /\ acting /\ acting' = FALSE
  /\ UNCHANGED <<teleopVars, lock, open, waiting, lastDriver, fenced>>

-----------------------------------------------------------------------------
(* The node's own steps, and time. *)

NodeStep ==
  /\ \/ TimerTake \/ TimerSkip \/ TimerPublish \/ LoopPublish
     \/ ~waiting /\ MainStop
     \/ ExecutorShutdown \/ Exited
  /\ UNCHANGED <<lock, open, waiting, acting, lastDriver, fenced>>

ServerTick ==
  /\ Tick /\ lock' = Aged(lock)
  /\ UNCHANGED <<open, waiting, acting, lastDriver, fenced>>

ServerNext ==
  \/ \E c \in Clients :
       \/ Connect(c) \/ Disconnect(c) \/ OnBadMessage(c)
       \/ \E v \in Requests : OnTwist(c, v)
       \/ OnAcquire(c) \/ OnRelease(c) \/ OnStop(c) \/ OnPing(c)
  \/ PollStatus
  \/ \E b \in BOOLEAN : ApiEstop(b)
  \/ ApiAction \/ ActionServerReady \/ ActionServerMissing
  \/ AdminRestart \/ ActionEnds
  \/ NodeStep
  \/ ServerTick

ServerSpec == ServerInit /\ [][ServerNext]_serverVars

-----------------------------------------------------------------------------
(* Properties. *)

\* The variables have their types.
ServerTypeOK ==
  /\ TypeOK /\ LockTypeOK
  /\ open \subseteq Clients /\ waiting \in BOOLEAN
  /\ acting \in BOOLEAN
  /\ lastDriver \in Clients \cup {NoClient} /\ fenced \in BOOLEAN

\* The client whose velocity the node is to publish, if any.
Driver == IF cmd # 0 /\ ~Stale THEN lastDriver ELSE NoClient

\* server.py: "One driver at a time."  A velocity the node would still publish
\* was sent by the client that holds the lock now: no way of losing the lock
\* (release, lapse, a closed tab, an e-stop, a new holder) leaves it standing.
DriverHoldsLock == Driver \in {NoClient, lock.holder}

\* server.py: "A closed tab must not leave ... the lock held."
LockHeldByOpenSession == lock.holder \in open \cup {NoClient}

\* After an e-stop the robot moves only for a client that took control anew.
EstopFencesDrivers == cmd # 0 => ~fenced

\* When the lock changes hands by lapsing, the robot is already standing: the
\* lease outlasts the deadman by enough for its zero to be published.
LapsedHolderStands == life # "down" /\ Lapsed(lock) => wire = 0

\* server.py: "A closed tab must not leave the robot driving."  While nobody is in
\* control, because of a release, a lapse, a closed tab or an e-stop, the robot
\* moves for two timer periods after it was stopped at most: no way of giving up
\* the lock leaves the stopping to the deadman.
NobodyInControlStands ==
  life # "down" /\ wire # 0 /\ Owner(lock) = NoClient
    => cmd = 0 /\ zeroAge <= 2 * Stall

Abstract == INSTANCE ExclusiveDrive
              WITH Client <- Clients, Nobody <- NoClient,
                   owner <- lock.holder, driver <- Driver, stopped <- estop

\* The server implements ExclusiveDrive.
ImplementsExclusiveDrive == Abstract!Spec

\* ros_node.py, start_action: "Teleop and an autonomous dock fighting over
\* cmd_vel helps nobody."
ActionDrivesAlone == acting => cmd = 0
=============================================================================
