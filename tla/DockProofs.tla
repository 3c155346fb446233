----------------------------- MODULE DockProofs -----------------------------
(***************************************************************************)
(* The safety properties of DockClient, proved for any number of goals,    *)
(* overlapping or not, in any order of responses, results, cancellations,  *)
(* e-stops and restarts of the robot.                                      *)
(*                                                                         *)
(* What the run checks needs three facts that the properties do not state: *)
(* the loop does not wait for an action server under the e-stop; without   *)
(* overlapping goals only the latest is outstanding (OneGoal); and then    *)
(* the handle is that of the goal being tracked.                           *)
(***************************************************************************)
EXTENDS DockClient, TLAPS

\* While start_action waits, no e-stop is served.
WaitsClear == loop = "waiting" => ~estop

\* Without overlapping goals, the goal sent last is the one outstanding, and
\* the handle is its own as long as its result is awaited.
OneGoal ==
  ~overlap =>
    /\ Outstanding \subseteq {latest}
    /\ \A g \in Goals : phase[g] = "tracked" => handle = g

\* EstopCancelsHeld, from the step in which cancel_action reads the handle to the
\* one in which it sends its request.
CancelInv ==
  estop /\ loop # "cancel" /\ ~overlap =>
    \A g \in Goals : phase[g] = "tracked" =>
      g \in asked \cup late \/ (loop = "send" /\ g = held)

DockInv ==
  /\ NoStaleHandle /\ ActiveMeansOutstanding /\ SucceededHonest
  /\ WaitsClear /\ OneGoal /\ CancelInv

-----------------------------------------------------------------------------
(* Type correctness. *)

\* Before the first goal every variable has its type.
LEMMA DockTypeInit == DockInit => DockTypeOK
<1> SUFFICES ASSUME DockInit PROVE DockTypeOK
  OBVIOUS
<1>1. estop \in BOOLEAN /\ overlap \in BOOLEAN
  BY DEF DockInit
<1>2. action \in [name : Names \cup {"none"}, state : Reports]
  BY DEF DockInit, Reports
<1> QED
  BY <1>1, <1>2 DEF DockInit, DockTypeOK, Phases

\* A report has its type, whatever was reported before.
LEMMA ReportType ==
  ASSUME NEW name \in Names \cup {"none"}, NEW state \in Reports,
         Report(name, state)
  PROVE  action' \in [name : Names \cup {"none"}, state : Reports]
  BY DEF Report

\* Every goal asks to dock or to undock.
LEMMA NameType == \A g \in Goals : NameOf(g) \in Names
  BY DEF NameOf, Names

\* No step of the loop, of a callback or of the robot breaks the types.
LEMMA DockTypeStep == DockTypeOK /\ [DockNext]_dockVars => DockTypeOK'
<1> SUFFICES ASSUME DockTypeOK, [DockNext]_dockVars PROVE DockTypeOK'
  OBVIOUS
<1> USE DEF DockTypeOK, Phases, Ended
<1>1. CASE StartAction \/ ApiCancel \/ \E b \in BOOLEAN : SetEstop(b)
  BY <1>1 DEF StartAction, ApiCancel, SetEstop
<1>2. CASE ServerMissing
  BY <1>2, ReportType DEF ServerMissing, Reports
<1>3. ASSUME NEW g \in Goals, SendGoal(g) PROVE DockTypeOK'
  BY <1>3, ReportType, NameType DEF SendGoal, Reports
<1>4. CASE CancelRead \/ CancelSend
  BY <1>4 DEF CancelRead, CancelSend
<1>5. CASE CancelMark
  BY <1>5, ReportType DEF CancelMark, Reports
<1>6. ASSUME NEW g \in Goals, ResponseFails(g) \/ ResponseRejected(g)
      PROVE  DockTypeOK'
  BY <1>6, ReportType, NameType DEF ResponseFails, ResponseRejected, Reports
<1>7. ASSUME NEW g \in Goals, ResponseAccepted(g) \/ ResultDropsHandle(g)
      PROVE  DockTypeOK'
  BY <1>7 DEF ResponseAccepted, ResultDropsHandle
<1>8. ASSUME NEW g \in Goals, ResultReports(g) PROVE DockTypeOK'
  <2>1. action' \in [name : Names \cup {"none"}, state : Reports]
    BY <1>8, ReportType, NameType DEF ResultReports, Reports
  <2> QED
    BY <1>8, <2>1 DEF ResultReports
<1>9. ASSUME NEW g \in Goals,
             RobotDecides(g) \/ RobotFinishes(g) \/ RobotCancels(g) \/ RobotForgets(g)
      PROVE  DockTypeOK'
  BY <1>9 DEF RobotDecides, RobotFinishes, RobotCancels, RobotForgets, RobotMoves
<1>10. CASE UNCHANGED dockVars
  BY <1>10 DEF dockVars
<1> QED
  BY <1>1, <1>2, <1>3, <1>4, <1>5, <1>6, <1>7, <1>8, <1>9, <1>10
  DEF DockNext, LoopWork, Callbacks

-----------------------------------------------------------------------------
(* The invariant. *)

\* Before the first goal there is nothing to be wrong about.
LEMMA DockInvInit == DockInit => DockInv
  BY DEF DockInit, DockInv, NoStaleHandle, ActiveMeansOutstanding,
         SucceededHonest, WaitsClear, OneGoal, CancelInv, Outstanding

\* A step of the loop that touches neither goals nor handle nor report.
LEMMA LoopKeepsInv ==
  ASSUME DockInv,
         UNCHANGED <<phase, robot, handle, action, latest, overlap>>,
         WaitsClear', CancelInv'
  PROVE  DockInv'
  BY DEF DockInv, NoStaleHandle, ActiveMeansOutstanding, SucceededHonest,
         OneGoal, Outstanding

\* A goal is settled with a report of something else than success.
LEMMA SettleKeepsInv ==
  ASSUME DockTypeOK, DockInv, NEW g \in Goals, phase[g] \in {"requested", "settling"},
         phase' = [phase EXCEPT ![g] = "done"],
         action'.state # "active",
         action'.state = "succeeded" /\ ~overlap => robot[g] = "succeeded",
         UNCHANGED <<robot, handle, asked, estop, loop, held, late, latest, overlap>>
  PROVE  DockInv'
<1> USE DEF DockInv, DockTypeOK
<1>1. NoStaleHandle' /\ ActiveMeansOutstanding' /\ WaitsClear'
  BY DEF NoStaleHandle, ActiveMeansOutstanding, WaitsClear
<1>2. OneGoal' /\ CancelInv'
  BY DEF OneGoal, CancelInv, Outstanding
<1>3. SucceededHonest'
  <2>1. ~overlap => latest = g
    BY DEF OneGoal, Outstanding
  <2> QED
    BY <2>1, GoalAssumption DEF SucceededHonest
<1> QED
  BY <1>1, <1>2, <1>3

\* Neither loop nor callback nor robot breaks the invariant.
LEMMA DockInvStep == DockTypeOK /\ DockInv /\ [DockNext]_dockVars => DockInv'
<1> SUFFICES ASSUME DockTypeOK, DockInv, [DockNext]_dockVars PROVE DockInv'
  OBVIOUS
<1> USE DEF DockTypeOK
<1>1. CASE StartAction \/ ApiCancel
  BY <1>1, LoopKeepsInv DEF StartAction, ApiCancel, DockInv, WaitsClear, CancelInv
<1>2. ASSUME NEW b \in BOOLEAN, SetEstop(b) PROVE DockInv'
  BY <1>2, LoopKeepsInv DEF SetEstop, DockInv, WaitsClear, CancelInv
<1>3. CASE ServerMissing
  <2>1. action'.state = "failed"
    BY <1>3 DEF ServerMissing, Report
  <2> QED
    BY <1>3, <2>1
    DEF ServerMissing, DockInv, NoStaleHandle, ActiveMeansOutstanding,
        SucceededHonest, WaitsClear, OneGoal, CancelInv, Outstanding
<1>4. ASSUME NEW g \in Goals, SendGoal(g) PROVE DockInv'
  <2>1. action' = [name |-> NameOf(g), state |-> "active"]
    BY <1>4 DEF SendGoal, Report
  <2>2. /\ phase[g] = "unused" /\ phase' = [phase EXCEPT ![g] = "requested"]
        /\ loop' = "idle" /\ ~estop /\ latest' = g
        /\ overlap' = (overlap \/ Outstanding # {})
        /\ UNCHANGED <<handle, estop, asked, late>>
    BY <1>4 DEF SendGoal, DockInv, WaitsClear
  <2>3. NoStaleHandle' /\ SucceededHonest' /\ WaitsClear' /\ CancelInv'
    BY <2>1, <2>2
    DEF DockInv, NoStaleHandle, SucceededHonest, WaitsClear, CancelInv
  <2>4. Outstanding' = Outstanding \cup {g}
    BY <2>2 DEF Outstanding
  <2>5. ActiveMeansOutstanding'
    BY <2>1, <2>4 DEF ActiveMeansOutstanding, Outstanding
  <2>6. OneGoal'
    BY <2>2, <2>4 DEF DockInv, OneGoal
  <2> QED
    BY <2>3, <2>5, <2>6 DEF DockInv
<1>5. CASE CancelRead \/ CancelSend
  <2>1. WaitsClear'
    BY <1>5 DEF CancelRead, CancelSend, WaitsClear
  <2>2. CASE CancelRead
    <3>1. CancelInv'
      \* A goal being tracked is the one whose handle is read.
      BY <2>2, GoalAssumption DEF CancelRead, DockInv, CancelInv, OneGoal
    <3> QED
      BY <2>1, <2>2, <3>1, LoopKeepsInv DEF CancelRead
  <2>3. CASE CancelSend
    <3>1. CancelInv'
      BY <2>3 DEF CancelSend, DockInv, CancelInv
    <3> QED
      BY <2>1, <2>3, <3>1, LoopKeepsInv DEF CancelSend
  <2> QED
    BY <1>5, <2>2, <2>3
<1>6. CASE CancelMark
  <2>1. action'.state = "cancelled"
    BY <1>6 DEF CancelMark, Report
  <2> QED
    BY <1>6, <2>1
    DEF CancelMark, DockInv, NoStaleHandle, ActiveMeansOutstanding,
        SucceededHonest, WaitsClear, OneGoal, CancelInv, Outstanding
<1>7. ASSUME NEW g \in Goals, ResponseFails(g) \/ ResponseRejected(g)
      PROVE  DockInv'
  <2>1. action'.state \in {"failed", "rejected"}
    BY <1>7 DEF ResponseFails, ResponseRejected, Report
  <2> QED
    BY <1>7, <2>1, SettleKeepsInv DEF ResponseFails, ResponseRejected
<1>8. ASSUME NEW g \in Goals, ResponseAccepted(g) PROVE DockInv'
  <2>1. /\ phase[g] = "requested" /\ phase' = [phase EXCEPT ![g] = "tracked"]
        /\ handle' = g /\ late' = IF estop THEN late \cup {g} ELSE late
        /\ UNCHANGED <<robot, action, asked, estop, loop, held, latest, overlap>>
    BY <1>8 DEF ResponseAccepted
  <2>2. Outstanding' = Outstanding
    BY <2>1 DEF Outstanding
  <2>3. NoStaleHandle' /\ ActiveMeansOutstanding' /\ SucceededHonest' /\ WaitsClear'
    BY <2>1, <2>2
    DEF DockInv, NoStaleHandle, ActiveMeansOutstanding, SucceededHonest, WaitsClear
  <2>4. OneGoal'
    BY <2>1, <2>2 DEF DockInv, OneGoal, Outstanding
  <2>5. CancelInv'
    BY <2>1 DEF DockInv, CancelInv
  <2> QED
    BY <2>3, <2>4, <2>5 DEF DockInv
<1>9. ASSUME NEW g \in Goals, ResultDropsHandle(g) PROVE DockInv'
  <2>1. /\ phase[g] = "tracked" /\ phase' = [phase EXCEPT ![g] = "settling"]
        /\ handle' = NoGoal
        /\ UNCHANGED <<robot, action, asked, estop, loop, held, late, latest, overlap>>
    BY <1>9 DEF ResultDropsHandle
  <2>2. Outstanding' = Outstanding
    BY <2>1 DEF Outstanding
  <2>3. NoStaleHandle' /\ ActiveMeansOutstanding' /\ SucceededHonest' /\ WaitsClear'
    BY <2>1, <2>2
    DEF DockInv, NoStaleHandle, ActiveMeansOutstanding, SucceededHonest, WaitsClear
  <2>4. OneGoal' /\ CancelInv'
    BY <2>1, <2>2 DEF DockInv, OneGoal, CancelInv
  <2> QED
    BY <2>3, <2>4 DEF DockInv
<1>10. ASSUME NEW g \in Goals, ResultReports(g) PROVE DockInv'
  <2>1. action'.state = "failed"
        \/ (action'.state = "succeeded" /\ robot[g] = "succeeded")
    BY <1>10 DEF ResultReports, Report
  <2> QED
    BY <1>10, <2>1, SettleKeepsInv DEF ResultReports
<1>11. ASSUME NEW g \in Goals,
              RobotDecides(g) \/ RobotFinishes(g) \/ RobotCancels(g) \/ RobotForgets(g)
       PROVE  DockInv'
  <2>1. PICK from \in {"deciding", "executing"},
             to \in Ended \cup {"executing", "rejected", "lost"} :
               RobotMoves(g, from, to)
    BY <1>11 DEF RobotDecides, RobotFinishes, RobotCancels, RobotForgets, Ended
  <2>2. \A h \in Goals : robot[h] = "succeeded" => robot'[h] = "succeeded"
    BY <2>1 DEF RobotMoves
  <2>3. UNCHANGED <<phase, handle, action, asked, estop, loop, held, late, latest, overlap>>
    BY <2>1 DEF RobotMoves
  <2> QED
    BY <2>2, <2>3, GoalAssumption
    DEF DockInv, NoStaleHandle, ActiveMeansOutstanding, SucceededHonest,
        WaitsClear, OneGoal, CancelInv, Outstanding
<1>12. CASE UNCHANGED dockVars
  BY <1>12 DEF dockVars, DockInv, NoStaleHandle, ActiveMeansOutstanding,
               SucceededHonest, WaitsClear, OneGoal, CancelInv, Outstanding
<1> QED
  BY <1>1, <1>2, <1>3, <1>4, <1>5, <1>6, <1>7, <1>8, <1>9, <1>10, <1>11, <1>12
  DEF DockNext, LoopWork, Callbacks

\* The invariant holds of the client, with its types.
LEMMA DockInvariant == DockSpec => [](DockTypeOK /\ DockInv)
  BY DockTypeInit, DockTypeStep, DockInvInit, DockInvStep, PTL DEF DockSpec

-----------------------------------------------------------------------------
(* The theorems. *)

\* For any number of goals, the report, the handle and the phases have their types.
THEOREM DockTypeCorrect == DockSpec => []DockTypeOK
  BY DockInvariant, PTL

\* For any number of goals, the handle the node keeps, if any, is that of a goal
\* whose result is still awaited.
THEOREM HandleFresh == DockSpec => []NoStaleHandle
<1>1. DockInv => NoStaleHandle
  BY DEF DockInv
<1> QED
  BY <1>1, DockInvariant, PTL

\* For any number of goals, the GUI shows "active" only over an outstanding goal.
THEOREM ActiveHonest == DockSpec => []ActiveMeansOutstanding
<1>1. DockInv => ActiveMeansOutstanding
  BY DEF DockInv
<1> QED
  BY <1>1, DockInvariant, PTL

\* For any number of goals sent one after the other, "succeeded" is shown only
\* of a goal the robot completed.
THEOREM SuccessHonest == DockSpec => []SucceededHonest
<1>1. DockInv => SucceededHonest
  BY DEF DockInv
<1> QED
  BY <1>1, DockInvariant, PTL

\* For any number of goals sent one after the other, an e-stop asks for the
\* cancellation of whatever goal's handle had reached the node.
THEOREM EstopCancels == DockSpec => []EstopCancelsHeld
<1>1. DockInv => EstopCancelsHeld
  BY DEF DockInv, CancelInv, EstopCancelsHeld
<1> QED
  BY <1>1, DockInvariant, PTL

\* For any number of goals, none is sent under the e-stop.
THEOREM GoalsClear == DockSpec => GoalsOnlyWhenClear
<1> DEFINE Clear == \A g \in Goals : phase[g] # phase'[g] /\ phase'[g] = "requested"
                                       => ~estop
<1>1. DockTypeOK /\ DockInv /\ [DockNext]_dockVars => [Clear]_dockVars
  <2> SUFFICES ASSUME DockTypeOK, DockInv, DockNext PROVE Clear
    BY DEF dockVars
  <2>1. ASSUME NEW g \in Goals, SendGoal(g) PROVE ~estop
    BY <2>1 DEF SendGoal, DockInv, WaitsClear
  <2>2. ASSUME NEW g \in Goals, NEW to \in {"done", "tracked", "settling"},
               phase' = [phase EXCEPT ![g] = to]
        PROVE  Clear
    BY <2>2 DEF DockTypeOK
  <2>3. ASSUME NEW g \in Goals, Callbacks(g) PROVE Clear
    BY <2>2, <2>3
    DEF Callbacks, ResponseFails, ResponseRejected, ResponseAccepted,
        ResultDropsHandle, ResultReports
  <2>4. CASE UNCHANGED phase
    BY <2>4
  <2> QED
    BY <2>1, <2>3, <2>4
    DEF DockNext, LoopWork, StartAction, SetEstop, ApiCancel, ServerMissing,
        CancelRead, CancelSend, CancelMark, RobotDecides, RobotFinishes, RobotCancels,
        RobotForgets, RobotMoves
<1> QED
  BY <1>1, DockInvariant, PTL DEF DockSpec, GoalsOnlyWhenClear
=============================================================================
