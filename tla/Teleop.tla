------------------------------- MODULE Teleop -------------------------------
(***************************************************************************)
(* The velocity path of Create3WebNode (create3_web/ros_node.py) and the   *)
(* shutdown of the process around it (create3_web/main.py).                *)
(*                                                                         *)
(* Two threads meet in one command register:                               *)
(*   - the event loop runs set_twist, stop and set_estop; stop and         *)
(*     set_estop write the register under the mutex, let go of it and only *)
(*     then publish a zero;                                                *)
(*   - an executor thread runs the 20 Hz timer, _publish_cmd: it reads the *)
(*     register under the mutex, lets go of it and only then publishes.    *)
(* A publication is therefore a step of its own on both sides, and the     *)
(* robot obeys the last message on the topic, "wire".                      *)
(*                                                                         *)
(* Both components of a Twist are treated alike, so a command is one       *)
(* integer and 0 is "stand still".  Time passes in Ticks of any length;    *)
(* an age counts the ticks since an event and stops growing at AgeCap.     *)
(* The executor is assumed to start a timer callback at least every Stall  *)
(* ticks: nothing in the code bounds it, every deadline is stated from it. *)
(*                                                                         *)
(* An operator under a comment "Variant" is a bug the properties below are *)
(* checked to catch; no specification uses it.                             *)
(***************************************************************************)
EXTENDS Integers

CONSTANTS
  MaxSpeed,   \* max_linear, max_angular: the configured limit
  Requests,   \* the velocities a client may ask for, in range or not
  Deadman,    \* cmd_timeout_s (0.4 s)
  Grace,      \* how long zero is asserted after that (1.0 s)
  Stall,      \* the longest time between two timer callbacks
  AgeCap      \* where ages stop growing; older than every threshold

ASSUME SpeedAssumption == MaxSpeed \in Nat \ {0} /\ Requests \subseteq Int

ASSUME TimingAssumption ==
  /\ Deadman \in Nat /\ Grace \in Nat /\ Stall \in Nat /\ AgeCap \in Nat
  /\ 0 < Stall /\ Stall < Grace
  /\ AgeCap > Deadman + Grace
  /\ AgeCap > Deadman + 2 * Stall

VARIABLES
  cmd,        \* _cmd
  cmdAge,     \* time.time() - _cmd_time
  estop,      \* _estop
  timer,      \* the timer callback: "idle", or "publishing" what it read
  timerOut,   \* the velocity a publishing timer callback holds
  sinceRead,  \* ticks since a timer callback last read the register
  loop,       \* the event loop: "idle", or about to "publish" a zero
  life,       \* main(): "serving", "stopping" (in its finally), "down"
  wire,       \* the last velocity published on cmd_vel
  zeroAge     \* ghost: ticks since the register was last set from moving to 0

teleopVars == <<cmd, cmdAge, estop, timer, timerOut, sinceRead, loop, life,
                wire, zeroAge>>

Speeds == (-MaxSpeed)..MaxSpeed
Ages   == 0..AgeCap

Older(age) == IF age < AgeCap THEN age + 1 ELSE AgeCap

-----------------------------------------------------------------------------
(* The register. *)

\* Variant: the lower limit is forgotten.
ClampUpperOnly(v) == IF v > MaxSpeed THEN MaxSpeed ELSE v

\* max(-limit, min(limit, v))
Clamp(v) == IF v > MaxSpeed THEN MaxSpeed
            ELSE IF v < -MaxSpeed THEN -MaxSpeed ELSE v

Write(v) == /\ cmd' = v
            /\ zeroAge' = IF v = 0 /\ cmd = 0 THEN zeroAge ELSE 0

TeleopInit ==
  /\ cmd = 0 /\ cmdAge = AgeCap /\ estop = FALSE     \* _cmd_time = 0.0
  /\ timer = "idle" /\ timerOut = 0 /\ sinceRead = 0
  /\ loop = "idle" /\ life = "serving"
  /\ wire = 0 /\ zeroAge = AgeCap

-----------------------------------------------------------------------------
(* The event loop. *)

\* Variant: the e-stop is not looked at.
SetTwistUngated(v) ==
  /\ Write(Clamp(v)) /\ cmdAge' = 0
  /\ UNCHANGED <<estop, timer, timerOut, sinceRead, loop, life, wire>>

\* A command under the e-stop is dropped; set_twist publishes nothing itself.
SetTwist(v) ==
  /\ ~estop
  /\ Write(Clamp(v)) /\ cmdAge' = 0
  /\ UNCHANGED <<estop, timer, timerOut, sinceRead, loop, life, wire>>

\* Variant: the time of the stop is not noted, as if no command were there.
StopForgetsTime ==
  /\ Write(0) /\ cmdAge' = AgeCap /\ loop' = "publish"
  /\ UNCHANGED <<estop, timer, timerOut, sinceRead, wire>>

\* stop(), up to the release of the mutex.
StopWrite ==
  /\ Write(0) /\ cmdAge' = 0 /\ loop' = "publish"
  /\ UNCHANGED <<estop, timer, timerOut, sinceRead, wire>>

Stop == StopWrite /\ UNCHANGED life

\* set_estop(), up to the release of the mutex.  Engaging leaves _cmd_time
\* alone; clearing publishes nothing.
SetEstop(engaged) ==
  /\ estop' = engaged
  /\ IF engaged THEN Write(0) /\ loop' = "publish"
                ELSE UNCHANGED <<cmd, zeroAge, loop>>
  /\ UNCHANGED <<cmdAge, timer, timerOut, sinceRead, life, wire>>

\* The publish(Twist()) that ends stop() and set_estop(True).
LoopPublish ==
  /\ loop = "publish"
  /\ wire' = 0 /\ loop' = "idle"
  /\ UNCHANGED <<cmd, cmdAge, estop, timer, timerOut, sinceRead, life, zeroAge>>

-----------------------------------------------------------------------------
(* The timer: _publish_cmd. *)

\* Variant: the two timeouts are confused.
StaleLate == cmdAge > Deadman + Grace

Stale == cmdAge > Deadman

\* Variant: a stale command is dropped and no zero asserted.
QuietAtOnce == Stale /\ ~estop

\* Variant: the node goes quiet even under the e-stop.
QuietUnderEstop == Stale /\ cmdAge >= Deadman + Grace

\* The node stops asserting zero, so as not to fight another publisher.
Quiet == Stale /\ ~estop /\ cmdAge >= Deadman + Grace

TimerTake ==
  /\ timer = "idle" /\ life # "down" /\ ~Quiet
  /\ timer' = "publishing" /\ timerOut' = IF estop \/ Stale THEN 0 ELSE cmd
  /\ sinceRead' = 0
  /\ UNCHANGED <<cmd, cmdAge, estop, loop, life, wire, zeroAge>>

TimerSkip ==
  /\ timer = "idle" /\ life # "down" /\ Quiet
  /\ sinceRead' = 0
  /\ UNCHANGED <<cmd, cmdAge, estop, timer, timerOut, loop, life, wire, zeroAge>>

TimerPublish ==
  /\ timer = "publishing"
  /\ wire' = timerOut /\ timer' = "idle" /\ timerOut' = 0
  /\ UNCHANGED <<cmd, cmdAge, estop, sinceRead, loop, life, zeroAge>>

-----------------------------------------------------------------------------
(* What snapshot() tells the pages. *)

\* Variant: the last command asked for, until an e-stop.
ReportedAsRequested == IF estop THEN 0 ELSE cmd

\* The velocity that is said to be published.  The expression is the timer's, but
\* it is worked out at another moment and from another reading of the clock.
Reported == IF estop \/ Stale THEN 0 ELSE cmd

-----------------------------------------------------------------------------
(* Shutdown, time, and the whole. *)

\* uvicorn.run has returned: main()'s finally calls node.stop().
MainStop ==
  /\ life = "serving" /\ loop = "idle"
  /\ life' = "stopping" /\ StopWrite

\* executor.shutdown(): no callback starts any more, one that runs finishes.
ExecutorShutdown ==
  /\ life = "stopping" /\ loop = "idle" /\ life' = "down"
  /\ UNCHANGED <<cmd, cmdAge, estop, timer, timerOut, sinceRead, loop, wire,
                 zeroAge>>

Tick ==
  /\ life # "down" /\ sinceRead < Stall
  /\ sinceRead' = sinceRead + 1
  /\ cmdAge' = Older(cmdAge)
  /\ zeroAge' = IF cmd = 0 THEN Older(zeroAge) ELSE 0
  /\ UNCHANGED <<cmd, estop, timer, timerOut, loop, life, wire>>

\* The process has ended and nothing of it runs.
Exited == life = "down" /\ timer = "idle" /\ UNCHANGED teleopVars

Serving == life = "serving" /\ loop = "idle"

Background == \/ TimerTake \/ TimerSkip \/ TimerPublish \/ LoopPublish
              \/ MainStop \/ ExecutorShutdown

TeleopNext ==
  \/ Serving /\ (\/ \E v \in Requests : SetTwist(v)
                 \/ Stop
                 \/ \E b \in BOOLEAN : SetEstop(b))
  \/ Background
  \/ Tick
  \/ Exited

TeleopSpec == TeleopInit /\ [][TeleopNext]_teleopVars

-----------------------------------------------------------------------------
(* Properties. *)

\* The variables have their types.  What the register, the timer and the topic
\* hold is within the configured limit whatever a client asks for: "Every
\* command is clamped server-side" (create3_web/README.md).
TypeOK ==
  /\ cmd \in Speeds /\ timerOut \in Speeds /\ wire \in Speeds
  /\ cmdAge \in Ages /\ zeroAge \in Ages /\ sinceRead \in 0..Stall
  /\ estop \in BOOLEAN
  /\ timer \in {"idle", "publishing"} /\ loop \in {"idle", "publish"}
  /\ life \in {"serving", "stopping", "down"}

\* The deadman: while the node is up, the robot is moving only if a client has
\* spoken within the timeout, plus the two timer periods it takes to read the
\* silence and to have its zero overtake the last velocity.
DeadmanBound ==
  life # "down" /\ wire # 0 => cmdAge <= Deadman + 2 * Stall

\* The node never goes quiet on a moving robot: when the window in which it
\* asserts zero has closed and no callback is under way, the robot stands.
QuietMeansStopped ==
  life # "down" /\ Quiet /\ timer = "idle" => wire = 0

\* A stop or an e-stop, once it has zeroed the register, has the robot standing
\* within two timer periods, although a timer callback that read the old
\* velocity may publish it after the zero that stop() itself publishes.
StopBound ==
  life # "down" /\ cmd = 0 /\ wire # 0 => zeroAge <= 2 * Stall

\* Under the e-stop the register holds zero: no command from before the
\* engagement is left to move the robot when the e-stop is cleared.
EstopHoldsRegister == estop => cmd = 0

\* ros_node.py, snapshot: "Report the command that is actually being published,
\* not the last one requested."  A page may be told a velocity that is not on the
\* topic only for the two timer periods that it takes to get there after a
\* client has spoken, after the register was zeroed, or after the deadman fired.
ReportMatchesWire ==
  life # "down" /\ Reported # wire
    => \/ cmdAge <= 2 * Stall
       \/ cmd = 0 /\ zeroAge <= 2 * Stall
       \/ Deadman < cmdAge /\ cmdAge <= Deadman + 2 * Stall

\* main.py: "Never leave the robot with a live velocity command."
ShutdownLeavesStopped == life = "down" /\ timer = "idle" => wire = 0
=============================================================================
