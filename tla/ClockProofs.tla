----------------------------- MODULE ClockProofs ------------------------------
(***************************************************************************)
(* What survives a wall clock that is set, by whatever steps: the types,   *)
(* and the e-stop.  The age of a command may then be anything, so nothing  *)
(* here rests on it; EstopInv compares the time since the engagement, that *)
(* really passed, with the time since the timer's last read.               *)
(***************************************************************************)
EXTENDS TeleopClock, TLAPS

\* A velocity that outlives the engagement of the e-stop was read before it.
EstopInv ==
  /\ timer \in {"idle", "publishing"}
  /\ life # "down" /\ estop =>
       /\ timer = "publishing" /\ timerOut # 0 => estopAge <= sinceRead
       /\ timer = "idle" /\ wire # 0 => estopAge <= sinceRead
       /\ timer = "publishing" /\ wire # 0 => estopAge <= sinceRead + Stall

\* Whatever is asked for, the register is given a velocity within the limit.
LEMMA ClockClamp == 0 \in Speeds /\ \A v \in Requests : Clamp(v) \in Speeds
  BY SpeedAssumption DEF Clamp, Speeds

\* The node starts with its types and the e-stop off.
LEMMA ClockStart == ClockInit => ClockTypeOK /\ EstopInv
<1> SUFFICES ASSUME ClockInit PROVE ClockTypeOK /\ EstopInv
  OBVIOUS
<1>1. cmdAge \in -AgeCap..AgeCap /\ zeroAge \in Ages /\ trueAge \in Ages
      /\ estopAge \in Ages /\ sinceRead \in 0..Stall
  BY TimingAssumption DEF ClockInit, TeleopInit, Ages
<1> QED
  BY <1>1, ClockClamp DEF ClockInit, TeleopInit, ClockTypeOK, EstopInv

\* A call that writes the register, or main() on its way out.
LEMMA HeardTypes ==
  ASSUME ClockTypeOK, Heard
  PROVE  /\ cmd' \in Speeds /\ cmdAge' = 0 /\ zeroAge' \in Ages /\ trueAge' = 0
         /\ UNCHANGED <<estop, timer, timerOut, sinceRead, wire, estopAge>>
         /\ life' # "down" => life # "down"
<1> USE TimingAssumption, ClockClamp DEF ClockTypeOK, Ages
<1>1. ASSUME NEW v \in Requests, SetTwist(v), Heard
      PROVE  /\ cmd' \in Speeds /\ cmdAge' = 0 /\ zeroAge' \in Ages /\ trueAge' = 0
             /\ UNCHANGED <<estop, timer, timerOut, sinceRead, wire, estopAge>>
             /\ life' # "down" => life # "down"
  BY <1>1 DEF SetTwist, Write, Heard
<1>2. CASE Stop \/ MainStop
  BY <1>2 DEF Stop, MainStop, StopWrite, Write, Heard
<1> QED
  BY <1>1, <1>2 DEF Heard

\* No step of the node or of the clock breaks the types.
LEMMA ClockTypeStep == ClockTypeOK /\ [ClockNext]_clockVars => ClockTypeOK'
<1> SUFFICES ASSUME ClockTypeOK, [ClockNext]_clockVars PROVE ClockTypeOK'
  OBVIOUS
<1> USE TimingAssumption, ClockClamp DEF ClockTypeOK, Ages
<1>1. CASE Heard
  BY <1>1, HeardTypes
<1>2. ASSUME NEW b \in BOOLEAN, SetEstopAged(b) PROVE ClockTypeOK'
  BY <1>2 DEF SetEstopAged, SetEstop, Write
<1>3. CASE TimerTake /\ UNCHANGED <<trueAge, estopAge>>
  BY <1>3 DEF TimerTake
<1>4. CASE (TimerSkip \/ TimerPublish \/ LoopPublish \/ ExecutorShutdown)
           /\ UNCHANGED <<trueAge, estopAge>>
  BY <1>4 DEF TimerSkip, TimerPublish, LoopPublish, ExecutorShutdown
<1>5. CASE TickAged
  <2>1. cmdAge' \in -AgeCap..AgeCap
    BY <1>5 DEF TickAged, Tick, Older
  <2>2. zeroAge' \in Ages /\ trueAge' \in Ages /\ estopAge' \in Ages
    BY <1>5 DEF TickAged, Tick, Older
  <2> QED
    BY <1>5, <2>1, <2>2 DEF TickAged, Tick
<1>6. ASSUME NEW d \in Steps, ClockStep(d) PROVE ClockTypeOK'
  BY <1>6, StepsAssumption DEF ClockStep, Within
<1>7. CASE (Exited /\ UNCHANGED <<trueAge, estopAge>>) \/ UNCHANGED clockVars
  BY <1>7 DEF Exited, clockVars, teleopVars
<1> QED
  BY <1>1, <1>2, <1>3, <1>4, <1>5, <1>6, <1>7 DEF ClockNext

\* For every choice of timeouts and of steps of the clock, the speeds stay within
\* the limit and the ages within their range.
THEOREM ClockTypeCorrect == ClockSpec => []ClockTypeOK
  BY ClockStart, ClockTypeStep, PTL DEF ClockSpec

-----------------------------------------------------------------------------
(* The e-stop. *)

\* No step, of the clock or of the node, lets a velocity that was read before the
\* engagement outlive the next read: under the e-stop the timer never goes quiet.
LEMMA ClockEstopStep ==
  ClockTypeOK /\ EstopInv /\ [ClockNext]_clockVars => EstopInv'
<1> SUFFICES ASSUME ClockTypeOK, EstopInv, [ClockNext]_clockVars PROVE EstopInv'
  OBVIOUS
<1> USE TimingAssumption DEF EstopInv, ClockTypeOK, Ages
<1>1. CASE Heard
  BY <1>1, HeardTypes
<1>2. ASSUME NEW b \in BOOLEAN, SetEstopAged(b) PROVE EstopInv'
  BY <1>2 DEF SetEstopAged, SetEstop
<1>3. CASE TimerTake /\ UNCHANGED <<trueAge, estopAge>>
  BY <1>3 DEF TimerTake
<1>4. CASE TimerSkip /\ UNCHANGED <<trueAge, estopAge>>
  BY <1>4 DEF TimerSkip, Quiet
<1>5. CASE (TimerPublish \/ LoopPublish \/ ExecutorShutdown)
           /\ UNCHANGED <<trueAge, estopAge>>
  BY <1>5 DEF TimerPublish, LoopPublish, ExecutorShutdown
<1>6. CASE TickAged
  BY <1>6 DEF TickAged, Tick, Older
<1>7. ASSUME NEW d \in Steps, ClockStep(d) PROVE EstopInv'
  BY <1>7 DEF ClockStep
<1>8. CASE (Exited /\ UNCHANGED <<trueAge, estopAge>>) \/ UNCHANGED clockVars
  BY <1>8 DEF Exited, clockVars, teleopVars
<1> QED
  BY <1>1, <1>2, <1>3, <1>4, <1>5, <1>6, <1>7, <1>8 DEF ClockNext

\* Whatever is done to the clock, and however often, the robot stands two timer
\* periods after the e-stop was engaged.
THEOREM EstopStopsAlways == ClockSpec => []EstopStops
<1>1. ClockTypeOK /\ EstopInv => EstopStops
  BY TimingAssumption DEF ClockTypeOK, EstopInv, EstopStops, Ages
<1> QED
  BY <1>1, ClockStart, ClockTypeStep, ClockEstopStep, PTL DEF ClockSpec

-----------------------------------------------------------------------------
(* How good the clock has to be for the deadman. *)

\* The age that the node works out for a command is behind the true one by at most
\* lag ticks, and ahead of it by at most lead.
Tracks(lag, lead) == trueAge <= cmdAge + lag /\ cmdAge <= trueAge + lead

\* Teleop's DeadmanInv in time that really passed.
SilenceInv(lag) ==
  life # "down" =>
    /\ timer = "publishing" /\ timerOut # 0 => trueAge - sinceRead <= Deadman + lag
    /\ timer = "idle" /\ wire # 0 => trueAge - sinceRead <= Deadman + lag
    /\ timer = "publishing" /\ wire # 0 =>
         trueAge - sinceRead <= Deadman + lag + Stall

\* What the deadman promises when the clock is behind by lag ticks at most.
SilenceBound(lag) ==
  life # "down" /\ wire # 0 => trueAge <= Deadman + lag + 2 * Stall

\* No step lets a velocity outlive the true age at which it was read: a clock that
\* is behind delays the zero, and one that is ahead does not skip the time in which
\* it is asserted.
LEMMA SilenceStep ==
  ASSUME NEW lag \in Nat, NEW lead \in Nat, lag + lead + Stall < Grace,
         ClockTypeOK, EstopInv, Tracks(lag, lead), SilenceInv(lag),
         [ClockNext]_clockVars
  PROVE  SilenceInv(lag)'
<1> USE TimingAssumption DEF SilenceInv, ClockTypeOK, Ages
<1>0. timer \in {"idle", "publishing"}
  BY DEF EstopInv
<1>1. CASE Heard
  <2>1. /\ trueAge' = 0 /\ UNCHANGED <<timer, timerOut, sinceRead, wire>>
        /\ life' # "down" => life # "down"
    BY <1>1, HeardTypes
  <2> QED
    BY <2>1
<1>2. ASSUME NEW b \in BOOLEAN, SetEstopAged(b) PROVE SilenceInv(lag)'
  BY <1>2 DEF SetEstopAged, SetEstop
<1>3. CASE TimerTake /\ UNCHANGED <<trueAge, estopAge>>
  BY <1>3 DEF TimerTake, Stale, Tracks
<1>4. CASE TimerSkip /\ UNCHANGED <<trueAge, estopAge>>
  \* A quiet node has nothing on the wire.
  BY <1>4 DEF TimerSkip, Quiet, Tracks
<1>5. CASE (TimerPublish \/ LoopPublish \/ ExecutorShutdown)
           /\ UNCHANGED <<trueAge, estopAge>>
  BY <1>0, <1>5 DEF TimerPublish, LoopPublish, ExecutorShutdown
<1>6. CASE TickAged
  BY <1>6 DEF TickAged, Tick, Older
<1>7. ASSUME NEW d \in Steps, ClockStep(d) PROVE SilenceInv(lag)'
  BY <1>7 DEF ClockStep
<1>8. CASE (Exited /\ UNCHANGED <<trueAge, estopAge>>) \/ UNCHANGED clockVars
  BY <1>8 DEF Exited, clockVars, teleopVars
<1> QED
  BY <1>1, <1>2, <1>3, <1>4, <1>5, <1>6, <1>7, <1>8 DEF ClockNext

\* The clock may be wrong about the age of a command by less than the time for
\* which zero is asserted, less a timer period: then the deadman works, and is late
\* by no more than the clock is behind.  An error of just that time is too much: the
\* node may go quiet on a moving robot.
THEOREM DeadmanTolerance ==
  ASSUME NEW lag \in Nat, NEW lead \in Nat, lag + lead + Stall < Grace
  PROVE  ClockSpec /\ []Tracks(lag, lead) => []SilenceBound(lag)
<1>1. ClockInit => SilenceInv(lag)
  BY DEF ClockInit, TeleopInit, SilenceInv
<1>2. ClockTypeOK /\ EstopInv /\ Tracks(lag, lead) /\ SilenceInv(lag)
      /\ [ClockNext]_clockVars => SilenceInv(lag)'
  BY SilenceStep
<1>3. ClockTypeOK /\ EstopInv /\ SilenceInv(lag) => SilenceBound(lag)
  BY TimingAssumption DEF ClockTypeOK, EstopInv, SilenceInv, SilenceBound, Ages
<1> QED
  BY <1>1, <1>2, <1>3, ClockStart, ClockTypeStep, ClockEstopStep, PTL
  DEF ClockSpec

\* A clock that is only ever ahead, and by less than that, stops a silent robot as
\* punctually as a true one.
COROLLARY AheadIsPunctual ==
  ASSUME NEW lead \in Nat, lead + Stall < Grace
  PROVE  ClockSpec /\ []Tracks(0, lead) => []SilenceStops
<1>1. ClockInit => SilenceInv(0)
  BY DEF ClockInit, TeleopInit, SilenceInv
<1>2. ClockTypeOK /\ EstopInv /\ Tracks(0, lead) /\ SilenceInv(0)
      /\ [ClockNext]_clockVars => SilenceInv(0)'
  BY SilenceStep
<1>3. ClockTypeOK /\ EstopInv /\ SilenceInv(0) => SilenceStops
  BY TimingAssumption DEF ClockTypeOK, EstopInv, SilenceInv, SilenceStops, Ages
<1> QED
  BY <1>1, <1>2, <1>3, ClockStart, ClockTypeStep, ClockEstopStep, PTL
  DEF ClockSpec
=============================================================================
