---------------------------- MODULE TeleopProofs ----------------------------
(***************************************************************************)
(* The safety properties of Teleop, proved for every limit, every set of   *)
(* requests and every choice of timeouts that TimingAssumption admits.     *)
(*                                                                         *)
(* DeadmanBound and StopBound are not inductive: what a velocity on the    *)
(* wire may still mean depends on how far the timer is between reading the *)
(* register and publishing.  DeadmanInv and StopInv say so, by comparing   *)
(* the age of a command with the time since the timer's last read.         *)
(***************************************************************************)
EXTENDS Teleop, TLAPS

\* Age of the register's command when the timer last read it: the callback
\* under way holds a velocity only if the command was fresh then; with no
\* callback under way the wire carries what that read gave; with one under way
\* it carries what the read before it gave, at most Stall earlier.
DeadmanInv ==
  life # "down" =>
    /\ timer = "publishing" /\ timerOut # 0 => cmdAge - sinceRead <= Deadman
    /\ timer = "idle" /\ wire # 0 => cmdAge - sinceRead <= Deadman
    /\ timer = "publishing" /\ wire # 0 => cmdAge - sinceRead <= Deadman + Stall

\* The same for the time since the register was zeroed: a velocity that
\* outlives the zeroing was read before it.
StopInv ==
  life # "down" /\ cmd = 0 =>
    /\ timer = "publishing" /\ timerOut # 0 => zeroAge <= sinceRead
    /\ timer = "idle" /\ wire # 0 => zeroAge <= sinceRead
    /\ timer = "publishing" /\ wire # 0 => zeroAge <= sinceRead + Stall

\* A zero that is still to be published finds the register at zero.
LoopInv == loop = "publish" => cmd = 0

\* A velocity that the timer has read since it was asked for, and read before the
\* deadman, is in the callback under way, and with none under way on the wire;
\* one asked for before the read before is on the wire either way.
ReportInv ==
  cmd # 0 /\ sinceRead < cmdAge /\ cmdAge - sinceRead <= Deadman =>
    /\ timer = "idle" => wire = cmd
    /\ timer = "publishing" => timerOut = cmd
    /\ timer = "publishing" /\ sinceRead + Stall < cmdAge => wire = cmd

\* An age that is read against a threshold has not yet stopped growing.
LEMMA OlderType == \A age \in Ages : Older(age) \in Ages /\ Older(age) <= age + 1
  BY TimingAssumption DEF Older, Ages

\* Whatever is asked for, the register is given a velocity within the limit.
LEMMA ClampType == \A v \in Requests : Clamp(v) \in Speeds
  BY SpeedAssumption DEF Clamp, Speeds

\* Standing still is within every limit.
LEMMA ZeroSpeed == 0 \in Speeds
  BY SpeedAssumption DEF Speeds

-----------------------------------------------------------------------------
(* Type correctness. *)

\* The node starts with its types.
LEMMA TypeInit == TeleopInit => TypeOK
<1> SUFFICES ASSUME TeleopInit PROVE TypeOK
  OBVIOUS
<1>1. cmdAge \in Ages /\ zeroAge \in Ages /\ sinceRead \in 0..Stall
  BY TimingAssumption DEF TeleopInit, Ages
<1>2. estop \in BOOLEAN
  BY DEF TeleopInit
<1> QED
  BY <1>1, <1>2, ZeroSpeed DEF TeleopInit, TypeOK

\* No call, no callback, no shutdown and no tick breaks the types.
LEMMA TypeStep == TypeOK /\ [TeleopNext]_teleopVars => TypeOK'
<1> SUFFICES ASSUME TypeOK, [TeleopNext]_teleopVars PROVE TypeOK'
  OBVIOUS
<1> USE TimingAssumption, ZeroSpeed DEF TypeOK
<1>1. ASSUME NEW v \in Requests, SetTwist(v) PROVE TypeOK'
  BY <1>1, ClampType DEF SetTwist, Write, Ages
<1>2. CASE Stop
  BY <1>2 DEF Stop, StopWrite, Write, Ages
<1>3. ASSUME NEW b \in BOOLEAN, SetEstop(b) PROVE TypeOK'
  BY <1>3 DEF SetEstop, Write, Ages
<1>4. CASE TimerTake
  BY <1>4 DEF TimerTake
<1>5. CASE TimerSkip
  BY <1>5 DEF TimerSkip
<1>6. CASE TimerPublish
  BY <1>6 DEF TimerPublish
<1>7. CASE LoopPublish
  BY <1>7 DEF LoopPublish
<1>8. CASE MainStop
  BY <1>8 DEF MainStop, StopWrite, Write, Ages
<1>9. CASE ExecutorShutdown
  BY <1>9 DEF ExecutorShutdown
<1>10. CASE Tick
  <2>1. zeroAge' \in Ages /\ cmdAge' \in Ages
    BY <1>10, OlderType DEF Tick, Ages
  <2>2. sinceRead' \in 0..Stall
    BY <1>10 DEF Tick
  <2> QED
    BY <1>10, <2>1, <2>2 DEF Tick
<1>11. CASE Exited \/ UNCHANGED teleopVars
  BY <1>11 DEF Exited, teleopVars
<1> QED
  BY <1>1, <1>2, <1>3, <1>4, <1>5, <1>6, <1>7, <1>8, <1>9, <1>10, <1>11
  DEF TeleopNext, Background

\* The variables of every reachable state have their types, and every velocity
\* the node holds or publishes is within the configured limit.
THEOREM TypeCorrect == TeleopSpec => []TypeOK
  BY TypeInit, TypeStep, PTL DEF TeleopSpec

-----------------------------------------------------------------------------
(* The deadman. *)

\* The node starts with nothing on the wire.
LEMMA DeadmanInit == TeleopInit => DeadmanInv
  BY DEF TeleopInit, DeadmanInv

\* No step lets a velocity outlive the age at which it was read.
LEMMA DeadmanStep ==
  TypeOK /\ DeadmanInv /\ [TeleopNext]_teleopVars => DeadmanInv'
<1> SUFFICES ASSUME TypeOK, DeadmanInv, [TeleopNext]_teleopVars
             PROVE DeadmanInv'
  OBVIOUS
<1> USE TimingAssumption DEF DeadmanInv, TypeOK, Ages, Speeds
<1>1. ASSUME NEW v \in Requests, SetTwist(v) PROVE DeadmanInv'
  BY <1>1 DEF SetTwist
<1>2. CASE Stop
  BY <1>2 DEF Stop, StopWrite
<1>3. ASSUME NEW b \in BOOLEAN, SetEstop(b) PROVE DeadmanInv'
  BY <1>3 DEF SetEstop
<1>4. CASE TimerTake
  BY <1>4 DEF TimerTake, Stale
<1>5. CASE TimerSkip
  \* A quiet node has nothing on the wire.
  BY <1>5 DEF TimerSkip, Quiet
<1>6. CASE TimerPublish
  BY <1>6 DEF TimerPublish
<1>7. CASE LoopPublish
  BY <1>7 DEF LoopPublish
<1>8. CASE MainStop
  BY <1>8 DEF MainStop, StopWrite
<1>9. CASE ExecutorShutdown
  BY <1>9 DEF ExecutorShutdown
<1>10. CASE Tick
  <2>1. cmdAge' - sinceRead' <= cmdAge - sinceRead
    BY <1>10, OlderType DEF Tick, Older
  <2> QED
    BY <1>10, <2>1, OlderType DEF Tick
<1>11. CASE Exited \/ UNCHANGED teleopVars
  BY <1>11 DEF Exited, teleopVars
<1> QED
  BY <1>1, <1>2, <1>3, <1>4, <1>5, <1>6, <1>7, <1>8, <1>9, <1>10, <1>11
  DEF TeleopNext, Background

\* DeadmanInv holds of the node, with its types.
LEMMA DeadmanSpec == TeleopSpec => [](TypeOK /\ DeadmanInv)
  BY TypeInit, TypeStep, DeadmanInit, DeadmanStep, PTL DEF TeleopSpec

\* For every timeout, the robot moves only while a client has spoken within the
\* deadman's timeout and two timer periods.
THEOREM DeadmanHolds == TeleopSpec => []DeadmanBound
<1>1. TypeOK /\ DeadmanInv => DeadmanBound
  BY TimingAssumption DEF TypeOK, DeadmanInv, DeadmanBound, Ages
<1> QED
  BY <1>1, DeadmanSpec, PTL

\* For every timeout, provided that the timer never stalls for as long as the
\* node asserts zero, the node stops publishing only when the robot stands.
THEOREM QuietHolds == TeleopSpec => []QuietMeansStopped
<1>1. TypeOK /\ DeadmanInv => QuietMeansStopped
  BY TimingAssumption DEF TypeOK, DeadmanInv, QuietMeansStopped, Quiet, Ages
<1> QED
  BY <1>1, DeadmanSpec, PTL

-----------------------------------------------------------------------------
(* Stopping. *)

\* The node starts stopped.
LEMMA StopInit == TeleopInit => StopInv
  BY DEF TeleopInit, StopInv

\* No step lets a velocity that was read before a stop outlive the next read.
LEMMA StopStep ==
  TypeOK /\ DeadmanInv /\ StopInv /\ [TeleopNext]_teleopVars => StopInv'
<1> SUFFICES ASSUME TypeOK, DeadmanInv, StopInv, [TeleopNext]_teleopVars
             PROVE StopInv'
  OBVIOUS
<1> USE TimingAssumption DEF StopInv, TypeOK, Ages, Speeds
<1>1. ASSUME NEW v \in Requests, SetTwist(v) PROVE StopInv'
  BY <1>1 DEF SetTwist, Write
<1>2. CASE Stop
  BY <1>2 DEF Stop, StopWrite, Write
<1>3. ASSUME NEW b \in BOOLEAN, SetEstop(b) PROVE StopInv'
  BY <1>3 DEF SetEstop, Write
<1>4. CASE TimerTake
  BY <1>4 DEF TimerTake
<1>5. CASE TimerSkip
  \* A quiet node has nothing on the wire, so a late read loses nothing.
  BY <1>5 DEF TimerSkip, Quiet, DeadmanInv
<1>6. CASE TimerPublish
  BY <1>6 DEF TimerPublish
<1>7. CASE LoopPublish
  BY <1>7 DEF LoopPublish
<1>8. CASE MainStop
  BY <1>8 DEF MainStop, StopWrite, Write
<1>9. CASE ExecutorShutdown
  BY <1>9 DEF ExecutorShutdown
<1>10. CASE Tick
  <2>1. cmd = 0 => zeroAge' - sinceRead' <= zeroAge - sinceRead
    BY <1>10, OlderType DEF Tick, Older
  <2> QED
    BY <1>10, <2>1, OlderType DEF Tick
<1>11. CASE Exited \/ UNCHANGED teleopVars
  BY <1>11 DEF Exited, teleopVars
<1> QED
  BY <1>1, <1>2, <1>3, <1>4, <1>5, <1>6, <1>7, <1>8, <1>9, <1>10, <1>11
  DEF TeleopNext, Background

\* For every timeout, a stop or an e-stop has the robot standing within two
\* timer periods of zeroing the register, whatever callback it raced with.
THEOREM StopHolds == TeleopSpec => []StopBound
<1>1. TypeOK /\ StopInv => StopBound
  BY TimingAssumption DEF TypeOK, StopInv, StopBound, Ages
<1> QED
  BY <1>1, TypeInit, TypeStep, DeadmanInit, DeadmanStep, StopInit, StopStep, PTL
  DEF TeleopSpec

\* No step writes a velocity into the register under the e-stop.
LEMMA EstopStep ==
  EstopHoldsRegister /\ [TeleopNext]_teleopVars => EstopHoldsRegister'
<1> SUFFICES ASSUME EstopHoldsRegister, [TeleopNext]_teleopVars
             PROVE EstopHoldsRegister'
  OBVIOUS
<1> USE DEF EstopHoldsRegister
<1>1. ASSUME NEW v \in Requests, SetTwist(v) PROVE EstopHoldsRegister'
  BY <1>1 DEF SetTwist
<1>2. CASE StopWrite
  BY <1>2 DEF StopWrite, Write
<1>3. ASSUME NEW b \in BOOLEAN, SetEstop(b) PROVE EstopHoldsRegister'
  BY <1>3 DEF SetEstop, Write
<1>4. CASE UNCHANGED <<cmd, estop>>
  BY <1>4
<1> QED
  BY <1>1, <1>2, <1>3, <1>4
  DEF TeleopNext, Background, Stop, MainStop, LoopPublish, TimerTake, TimerSkip,
      TimerPublish, ExecutorShutdown, Tick, Exited, teleopVars

\* For every choice of constants, the register holds zero while the e-stop is
\* engaged.
THEOREM EstopHolds == TeleopSpec => []EstopHoldsRegister
<1>1. TeleopInit => EstopHoldsRegister
  BY DEF TeleopInit, EstopHoldsRegister
<1> QED
  BY <1>1, EstopStep, PTL DEF TeleopSpec

-----------------------------------------------------------------------------
(* What the pages are told. *)

\* The node starts with no zero to publish and no velocity in the register.
LEMMA ReportInit == TeleopInit => LoopInv /\ ReportInv
  BY DEF TeleopInit, LoopInv, ReportInv

\* Only what zeroes the register leaves a zero to publish, and the event loop
\* takes no call before it is published.
LEMMA LoopStep == LoopInv /\ [TeleopNext]_teleopVars => LoopInv'
<1> SUFFICES ASSUME LoopInv, [TeleopNext]_teleopVars PROVE LoopInv'
  OBVIOUS
<1> USE DEF LoopInv
<1>1. ASSUME NEW v \in Requests, Serving, SetTwist(v) PROVE LoopInv'
  BY <1>1 DEF SetTwist, Serving
<1>2. CASE StopWrite
  BY <1>2 DEF StopWrite, Write
<1>3. ASSUME NEW b \in BOOLEAN, SetEstop(b) PROVE LoopInv'
  BY <1>3 DEF SetEstop, Write
<1>4. CASE loop' = "idle"
  BY <1>4
<1>5. CASE UNCHANGED <<cmd, loop>>
  BY <1>5
<1> QED
  BY <1>1, <1>2, <1>3, <1>4, <1>5
  DEF TeleopNext, Background, Stop, MainStop, LoopPublish, TimerTake, TimerSkip,
      TimerPublish, ExecutorShutdown, Tick, Exited, teleopVars

\* No step keeps a velocity that was read from getting to the wire.
LEMMA ReportStep ==
  TypeOK /\ LoopInv /\ EstopHoldsRegister /\ ReportInv /\ [TeleopNext]_teleopVars
    => ReportInv'
<1> SUFFICES ASSUME TypeOK, LoopInv, EstopHoldsRegister, ReportInv,
                    [TeleopNext]_teleopVars
             PROVE ReportInv'
  OBVIOUS
<1> USE TimingAssumption DEF ReportInv, TypeOK, Ages, Speeds
<1>1. ASSUME NEW v \in Requests, SetTwist(v) PROVE ReportInv'
  BY <1>1 DEF SetTwist
<1>2. CASE StopWrite
  BY <1>2 DEF StopWrite, Write
<1>3. ASSUME NEW b \in BOOLEAN, SetEstop(b) PROVE ReportInv'
  BY <1>3 DEF SetEstop, Write
<1>4. CASE TimerTake
  BY <1>4 DEF TimerTake, Stale, EstopHoldsRegister
<1>5. CASE TimerSkip
  BY <1>5 DEF TimerSkip, Quiet, Stale
<1>6. CASE TimerPublish
  BY <1>6 DEF TimerPublish
<1>7. CASE LoopPublish
  BY <1>7 DEF LoopPublish, LoopInv
<1>8. CASE Tick
  \* An age that has stopped growing is past the deadman whatever was read.
  <2>1. CASE cmdAge < AgeCap
    BY <1>8, <2>1 DEF Tick, Older
  <2>2. CASE cmdAge = AgeCap
    BY <1>8, <2>2 DEF Tick, Older
  <2> QED
    BY <2>1, <2>2
<1>9. CASE ExecutorShutdown \/ Exited \/ UNCHANGED teleopVars
  BY <1>9 DEF ExecutorShutdown, Exited, teleopVars
<1> QED
  BY <1>1, <1>2, <1>3, <1>4, <1>5, <1>6, <1>7, <1>8, <1>9
  DEF TeleopNext, Background, Stop, MainStop

\* For every timeout, the velocity that the pages are told is on the topic, but
\* for the two timer periods it takes to get there.
THEOREM ReportHolds == TeleopSpec => []ReportMatchesWire
<1>1. ASSUME TypeOK, DeadmanBound, StopBound, EstopHoldsRegister, ReportInv
      PROVE  ReportMatchesWire
  <2> SUFFICES ASSUME life # "down", Reported # wire
               PROVE  \/ cmdAge <= 2 * Stall
                      \/ cmd = 0 /\ zeroAge <= 2 * Stall
                      \/ Deadman < cmdAge /\ cmdAge <= Deadman + 2 * Stall
    BY DEF ReportMatchesWire
  <2>1. CASE cmd = 0
    BY <1>1, <2>1 DEF Reported, StopBound
  <2>2. CASE cmd # 0 /\ cmdAge > Deadman
    BY <1>1, <2>2 DEF Reported, Stale, DeadmanBound, TypeOK, Ages
  <2>3. CASE cmd # 0 /\ cmdAge <= Deadman
    <3>1. wire # cmd
      BY <1>1, <2>3, TimingAssumption
      DEF Reported, Stale, EstopHoldsRegister, TypeOK, Ages
    <3> QED
      BY <1>1, <2>3, <3>1, TimingAssumption DEF ReportInv, TypeOK, Ages
  <2> QED
    BY <1>1, <2>1, <2>2, <2>3, TimingAssumption DEF TypeOK, Ages
<1> QED
  BY <1>1, TypeCorrect, DeadmanHolds, StopHolds, EstopHolds, TypeInit, TypeStep,
     ReportInit, LoopStep, ReportStep, PTL DEF TeleopSpec
=============================================================================
