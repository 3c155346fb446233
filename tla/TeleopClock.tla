----------------------------- MODULE TeleopClock -----------------------------
(***************************************************************************)
(* Teleop under a wall clock that is set.  ros_node.py ages the command by *)
(* time.time(), the clock that chrony and date(1) step; cmdAge is that age *)
(* here, so a step of the clock by d adds d to it, and it may go negative. *)
(* trueAge and estopAge are ghosts that count the time that really passed. *)
(***************************************************************************)
EXTENDS Teleop

CONSTANT Steps     \* the steps, in ticks, that the clock may make

ASSUME StepsAssumption == Steps \subseteq Int

VARIABLES
  trueAge,    \* ticks since a client or main() last wrote the register
  estopAge    \* ticks since the e-stop was engaged

clockVars == <<teleopVars, trueAge, estopAge>>

Within(age) == IF age > AgeCap THEN AgeCap
               ELSE IF age < -AgeCap THEN -AgeCap ELSE age

ClockInit == TeleopInit /\ trueAge = AgeCap /\ estopAge = 0

\* The system clock is stepped, forward when d > 0.
ClockStep(d) ==
  /\ life # "down" /\ cmdAge' = Within(cmdAge + d)
  /\ UNCHANGED <<cmd, estop, timer, timerOut, sinceRead, loop, life, wire,
                 zeroAge, trueAge, estopAge>>

Heard == /\ \/ Serving /\ (Stop \/ \E v \in Requests : SetTwist(v))
            \/ MainStop
         /\ trueAge' = 0 /\ UNCHANGED estopAge

SetEstopAged(engaged) ==
  /\ SetEstop(engaged)
  /\ estopAge' = IF engaged /\ estop THEN estopAge ELSE 0
  /\ UNCHANGED trueAge

TickAged == Tick /\ trueAge' = Older(trueAge) /\ estopAge' = Older(estopAge)

ClockNext ==
  \/ Heard
  \/ Serving /\ \E b \in BOOLEAN : SetEstopAged(b)
  \/ /\ TimerTake \/ TimerSkip \/ TimerPublish \/ LoopPublish
        \/ ExecutorShutdown \/ Exited
     /\ UNCHANGED <<trueAge, estopAge>>
  \/ TickAged
  \/ \E d \in Steps : ClockStep(d)

ClockSpec == ClockInit /\ [][ClockNext]_clockVars

\* The variables have their types: speeds stay within the limit, and an age by
\* the wall clock may be negative.
ClockTypeOK ==
  /\ {cmd, timerOut, wire} \subseteq Speeds
  /\ cmdAge \in -AgeCap..AgeCap
  /\ {zeroAge, trueAge, estopAge} \subseteq Ages /\ sinceRead \in 0..Stall

\* Whatever is done to the clock, the robot stands two timer periods after the
\* e-stop was engaged: _publish_cmd asserts zero under it at any age.
EstopStops ==
  life # "down" /\ estop /\ estopAge > 2 * Stall => wire = 0

\* create3_web/README.md: the node "zeroes it after 400 ms of silence"; in time
\* that really passed, with the two timer periods of Teleop's DeadmanBound.
SilenceStops ==
  life # "down" /\ trueAge > Deadman + 2 * Stall => wire = 0
=============================================================================
