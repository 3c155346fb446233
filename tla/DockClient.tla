----------------------------- MODULE DockClient -----------------------------
(***************************************************************************)
(* The dock and undock actions of Create3WebNode (create3_web/ros_node.py):*)
(* start_action, cancel_action and the cancelling half of set_estop on the *)
(* event loop; the goal response and goal result callbacks on executor     *)
(* threads; and the robot, which is external.                              *)
(*                                                                         *)
(* The node remembers one goal handle and one line of status for the GUI,  *)
(* each guarded by the mutex for one access at a time, so the callbacks of *)
(* several goals and a cancellation interleave between accesses.  The      *)
(* event loop itself is single-threaded, and start_action keeps it while   *)
(* it waits for the action server.                                         *)
(***************************************************************************)
CONSTANTS
  Goals,      \* the goals that may be sent
  DockGoals,  \* those that ask to dock; the others ask to undock
  NoGoal      \* None

ASSUME GoalAssumption == NoGoal \notin Goals /\ DockGoals \subseteq Goals

VARIABLES
  phase,     \* the node's side of a goal
  robot,     \* the robot's side of a goal
  handle,    \* _goal_handle
  action,    \* _action: its name and state
  asked,     \* the goals whose cancellation was requested
  estop,     \* _estop
  loop,      \* the event loop
  held,      \* the handle that cancel_action has read
  late,      \* ghost: goals accepted under the e-stop as last set
  latest,    \* ghost: the goal sent last
  overlap    \* ghost: a goal was sent while another was outstanding

dockVars == <<phase, robot, handle, action, asked, estop, loop, held, late,
              latest, overlap>>

Names      == {"dock", "undock"}
NameOf(g)  == IF g \in DockGoals THEN "dock" ELSE "undock"

Phases  == {"unused", "requested", "tracked", "settling", "done"}
Ended   == {"succeeded", "aborted", "canceled"}
Reports == {"idle", "failed", "active", "rejected", "succeeded", "cancelled"}

Outstanding == {g \in Goals : phase[g] \notin {"unused", "done"}}

Report(name, state) == action' = [name |-> name, state |-> state]

DockInit ==
  /\ phase = [g \in Goals |-> "unused"]
  /\ robot = [g \in Goals |-> "none"]
  /\ handle = NoGoal /\ action = [name |-> "none", state |-> "idle"]
  /\ asked = {} /\ estop = FALSE /\ loop = "idle" /\ held = NoGoal
  /\ late = {} /\ latest = NoGoal /\ overlap = FALSE

-----------------------------------------------------------------------------
(* The event loop. *)

\* start_action, up to wait_for_server: refused under the e-stop.
StartAction ==
  /\ loop = "idle" /\ ~estop
  /\ loop' = "waiting"
  /\ UNCHANGED <<phase, robot, handle, action, asked, estop, held, late, latest, overlap>>

\* Variant: a state the GUI does not know.
ServerMissingUnknown ==
  /\ loop = "waiting" /\ loop' = "idle"
  /\ \E name \in Names : Report(name, "unavailable")
  /\ UNCHANGED <<phase, robot, handle, asked, estop, held, late, latest, overlap>>

ServerMissing ==
  /\ loop = "waiting" /\ loop' = "idle"
  /\ \E name \in Names : Report(name, "failed")
  /\ UNCHANGED <<phase, robot, handle, asked, estop, held, late, latest, overlap>>

SendGoal(g) ==
  /\ loop = "waiting" /\ loop' = "idle" /\ phase[g] = "unused"
  /\ Report(NameOf(g), "active")
  /\ phase' = [phase EXCEPT ![g] = "requested"]
  /\ robot' = [robot EXCEPT ![g] = "deciding"]
  /\ latest' = g /\ overlap' = (overlap \/ Outstanding # {})
  /\ UNCHANGED <<handle, asked, estop, held, late>>

\* Variant: the e-stop is served while start_action waits.
SetEstopWhileWaiting(engaged) ==
  /\ loop \in {"idle", "waiting"}
  /\ estop' = engaged /\ late' = {}
  /\ loop' = IF engaged /\ loop = "idle" THEN "cancel" ELSE loop
  /\ UNCHANGED <<phase, robot, handle, action, asked, held, latest, overlap>>

\* set_estop: engaging goes on to cancel_action.
SetEstop(engaged) ==
  /\ loop = "idle"
  /\ estop' = engaged /\ late' = {}
  /\ loop' = IF engaged THEN "cancel" ELSE "idle"
  /\ UNCHANGED <<phase, robot, handle, action, asked, held, latest, overlap>>

\* /api/cancel.
ApiCancel ==
  /\ loop = "idle" /\ loop' = "cancel"
  /\ UNCHANGED <<phase, robot, handle, action, asked, estop, held, late, latest, overlap>>

\* cancel_action reads the handle under the mutex, and is done if there is none.
CancelRead ==
  /\ loop = "cancel" /\ held' = handle
  /\ loop' = IF handle = NoGoal THEN "idle" ELSE "send"
  /\ UNCHANGED <<phase, robot, handle, action, asked, estop, late, latest, overlap>>

\* Variant: the cancellation is reported and not sent.
CancelUnsent ==
  /\ loop = "send" /\ loop' = "mark" /\ held' = NoGoal
  /\ UNCHANGED <<phase, robot, handle, action, asked, estop, late, latest, overlap>>

\* It sends the request to the goal it has read, which may have been settled since.
CancelSend ==
  /\ loop = "send" /\ loop' = "mark"
  /\ asked' = asked \cup {held} /\ held' = NoGoal
  /\ UNCHANGED <<phase, robot, handle, action, estop, late, latest, overlap>>

\* Then it reports "cancelled" under the name it finds, whatever happened since.
CancelMark ==
  /\ loop = "mark" /\ loop' = "idle"
  /\ Report(action.name, "cancelled")
  /\ UNCHANGED <<phase, robot, handle, asked, estop, held, late, latest, overlap>>

-----------------------------------------------------------------------------
(* The callbacks. *)

\* _on_goal_response when the future raised.
ResponseFails(g) ==
  /\ phase[g] = "requested"
  /\ phase' = [phase EXCEPT ![g] = "done"] /\ Report(NameOf(g), "failed")
  /\ UNCHANGED <<robot, handle, asked, estop, loop, held, late, latest, overlap>>

\* Variant: a rejected goal is dropped without a word.
ResponseRejectedUnreported(g) ==
  /\ phase[g] = "requested" /\ robot[g] = "rejected"
  /\ phase' = [phase EXCEPT ![g] = "done"]
  /\ UNCHANGED <<robot, handle, action, asked, estop, loop, held, late, latest, overlap>>

ResponseRejected(g) ==
  /\ phase[g] = "requested" /\ robot[g] = "rejected"
  /\ phase' = [phase EXCEPT ![g] = "done"] /\ Report(NameOf(g), "rejected")
  /\ UNCHANGED <<robot, handle, asked, estop, loop, held, late, latest, overlap>>

\* The handle is kept, whatever handle was there, and the result asked for.
ResponseAccepted(g) ==
  /\ phase[g] = "requested" /\ robot[g] \in Ended \cup {"executing"}
  /\ phase' = [phase EXCEPT ![g] = "tracked"] /\ handle' = g
  /\ late' = IF estop THEN late \cup {g} ELSE late
  /\ UNCHANGED <<robot, action, asked, estop, loop, held, latest, overlap>>

\* Variant: the handle outlives the goal.
ResultKeepsHandle(g) ==
  /\ phase[g] = "tracked" /\ robot[g] \in Ended
  /\ phase' = [phase EXCEPT ![g] = "settling"]
  /\ UNCHANGED <<robot, handle, action, asked, estop, loop, held, late, latest, overlap>>

\* _on_goal_result drops the handle, whichever goal's it is.
ResultDropsHandle(g) ==
  /\ phase[g] = "tracked" /\ robot[g] \in Ended
  /\ phase' = [phase EXCEPT ![g] = "settling"] /\ handle' = NoGoal
  /\ UNCHANGED <<robot, action, asked, estop, loop, held, late, latest, overlap>>

\* Variant: any result counts as a success.
ResultReportsSuccess(g) ==
  /\ phase[g] = "settling"
  /\ phase' = [phase EXCEPT ![g] = "done"] /\ Report(NameOf(g), "succeeded")
  /\ UNCHANGED <<robot, handle, asked, estop, loop, held, late, latest, overlap>>

\* Variant: a result that cannot be read is not reported.
ResultFailsSilently(g) ==
  /\ phase[g] = "settling"
  /\ phase' = [phase EXCEPT ![g] = "done"]
  /\ \/ robot[g] = "succeeded" /\ Report(NameOf(g), "succeeded")
     \/ UNCHANGED action
  /\ UNCHANGED <<robot, handle, asked, estop, loop, held, late, latest, overlap>>

\* ... and then reports: only a status of 4 is a success, and reading the
\* future may raise.
ResultReports(g) ==
  /\ phase[g] = "settling"
  /\ phase' = [phase EXCEPT ![g] = "done"]
  /\ \/ robot[g] = "succeeded" /\ Report(NameOf(g), "succeeded")
     \/ Report(NameOf(g), "failed")
  /\ UNCHANGED <<robot, handle, asked, estop, loop, held, late, latest, overlap>>

-----------------------------------------------------------------------------
(* The robot (external). *)

RobotMoves(g, from, to) ==
  /\ robot[g] = from /\ robot' = [robot EXCEPT ![g] = to]
  /\ UNCHANGED <<phase, handle, action, asked, estop, loop, held, late, latest, overlap>>

RobotDecides(g) == \E to \in {"executing", "rejected"} : RobotMoves(g, "deciding", to)

RobotFinishes(g) == \E to \in {"succeeded", "aborted"} : RobotMoves(g, "executing", to)

RobotCancels(g) == g \in asked /\ RobotMoves(g, "executing", "canceled")

\* The robot's application restarts and forgets the goal: no answer ever comes.
RobotForgets(g) ==
  \E from \in {"deciding", "executing"} : RobotMoves(g, from, "lost")

-----------------------------------------------------------------------------
Callbacks(g) == \/ ResponseFails(g) \/ ResponseRejected(g) \/ ResponseAccepted(g)
                \/ ResultDropsHandle(g) \/ ResultReports(g)

LoopWork == \/ ServerMissing \/ CancelRead \/ CancelSend \/ CancelMark
            \/ \E g \in Goals : SendGoal(g)

DockNext ==
  \/ StartAction
  \/ \E b \in BOOLEAN : SetEstop(b)
  \/ ApiCancel
  \/ LoopWork
  \/ \E g \in Goals : \/ Callbacks(g)
                      \/ RobotDecides(g) \/ RobotFinishes(g)
                      \/ RobotCancels(g) \/ RobotForgets(g)

\* A handler and a callback that can run do, and the robot decides on every
\* goal and brings it to an end, unless it restarts.
DockFairness ==
  /\ WF_dockVars(LoopWork)
  /\ \A g \in Goals : /\ WF_dockVars(Callbacks(g))
                      /\ WF_dockVars(RobotDecides(g))
                      /\ WF_dockVars(RobotFinishes(g))

DockSpec == DockInit /\ [][DockNext]_dockVars /\ DockFairness

-----------------------------------------------------------------------------
(* Properties. *)

\* The variables have their types.
DockTypeOK ==
  /\ phase \in [Goals -> Phases]
  /\ robot \in [Goals -> Ended \cup
                  {"none", "deciding", "executing", "rejected", "lost"}]
  /\ handle \in Goals \cup {NoGoal} /\ latest \in Goals \cup {NoGoal}
  /\ action \in [name : Names \cup {"none"}, state : Reports]
  /\ asked \subseteq Goals /\ late \subseteq Goals
  /\ estop \in BOOLEAN /\ overlap \in BOOLEAN
  /\ loop \in {"idle", "waiting", "cancel", "send", "mark"}
  /\ held \in IF loop = "send" THEN Goals ELSE {NoGoal}

\* However the callbacks of several goals interleave, the handle the node keeps is
\* that of a goal whose result has not come back: a cancellation that starts finds
\* no goal already settled.  (Its request may still come too late, CancelSend.)
NoStaleHandle == handle # NoGoal => phase[handle] = "tracked"

\* No goal is sent while the e-stop is engaged, although start_action looks at
\* it up to two seconds before it sends.
GoalsOnlyWhenClear ==
  [][\A g \in Goals : phase[g] # phase'[g] /\ phase'[g] = "requested" => ~estop
    ]_dockVars

\* The GUI is shown "active" only while a goal of that name is outstanding: no
\* order of rejections, failures, results and cancellations leaves it standing.
ActiveMeansOutstanding ==
  action.state = "active" => \E g \in Outstanding : NameOf(g) = action.name

\* When the operators do not overlap goals, the e-stop has asked for the
\* cancellation of every goal whose handle reached the node before it was last
\* set: setting it again also reaches the goals accepted under it.
EstopCancelsHeld ==
  estop /\ loop = "idle" /\ ~overlap =>
    \A g \in Goals : phase[g] = "tracked" => g \in asked \cup late

\* When the operators do not overlap goals, "succeeded" is only ever shown of
\* the goal sent last, and only when the robot completed it.
SucceededHonest ==
  action.state = "succeeded" /\ ~overlap =>
    latest # NoGoal /\ robot[latest] = "succeeded"

\* Unless the robot restarts under a goal, the GUI does not show "active" for
\* ever, and every goal that was sent is settled in the end.
ActionSettles ==
  [](\A g \in Goals : robot[g] # "lost") =>
    /\ action.state = "active" ~> action.state # "active"
    /\ \A g \in Goals : phase[g] = "requested" ~> phase[g] = "done"

\* create3_web/README.md: the e-stop "cancels running actions".
EstopCancelsRunning ==
  estop /\ loop = "idle" =>
    \A g \in Goals :
      phase[g] = "tracked" /\ robot[g] = "executing" => g \in asked
=============================================================================
