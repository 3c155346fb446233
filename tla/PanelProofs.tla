----------------------------- MODULE PanelProofs ------------------------------
(***************************************************************************)
(* The safety properties of the admin panel and its ladder, proved on top  *)
(* of those of the configuration tool: a step of the panel is no step of   *)
(* the tool or of the robot, so what ConfigProofs proves holds beside it.  *)
(***************************************************************************)
EXTENDS AdminPanel, ConfigProofs

\* The panel, the tool and the robot, seen through the variables of the latter
\* two, behave as RobotConfig says.
THEOREM PanelImplementsConfig == PanelSpec => ConfigSpec
<1>1. PanelInit => ConfigInit
  BY DEF PanelInit
<1>2. [PanelNext]_panelVars => [ConfigNext]_configVars
  BY DEF PanelNext, ConfigStep, ProbeStep, StartProbe, ProbeSettings, ProbeNodes,
         ProbeData, ProbeTimeout, panelVars
<1> QED
  BY <1>1, <1>2, PTL DEF PanelSpec, ConfigSpec

\* So what is proved of the tool holds with the panel beside it.  A completed apply
\* that nobody interfered with leaves nothing to post;
THEOREM PanelSecondRun == PanelSpec => []SecondRunFindsNothing
  BY PanelImplementsConfig, SecondRunHolds, PTL

\* nodes that were listed, and were there, are those of an application that loaded
\* its settings;
THEOREM PanelApplied == PanelSpec => []AppliedMeansLoaded
  BY PanelImplementsConfig, AppliedHolds, PTL

\* settings stay unloaded only after a broken-off run or another's save, though the
\* panel restarts the application whenever it pleases;
THEOREM PanelUnloaded == PanelSpec => []UnloadedOnlyIfTorn
  BY PanelImplementsConfig, UnloadedHolds, PTL

\* the safety parameter is written only when it was named, and a dry run sends
\* nothing.
THEOREM PanelSends == PanelSpec => SafetyOnlyWhenNamed /\ DryRunHonoured
  BY PanelImplementsConfig, SafetyHolds, DryRunHolds, PTL

-----------------------------------------------------------------------------
(* Type correctness. *)

\* The part of PanelTypeOK that is the panel's own.
ProbeOK == probe \in Probes

\* A run of the ladder that ends leaves a reply.
LEMMA RepliedType ==
  \A p \in Probes :
    /\ Replied(p) \in Probes /\ Replied(p).stage = "none"
    /\ Replied(p).answer = "full"
         => p.verified /\ ~p.failed /\ Replied(p).verified = p.verified
            /\ Replied(p).failed = p.failed /\ Replied(p).fresh = p.fresh
<1> TAKE p \in Probes
<1>1. CASE Exit(p) # 0 \/ p.quick
  BY <1>1 DEF Replied, NoProbe, Probes, Stages
<1>2. CASE Exit(p) = 0 /\ ~p.quick
  <2>1. Replied(p) = [p EXCEPT !.stage = "none", !.answer = "full"]
    BY <1>2 DEF Replied
  <2>2. p.verified /\ ~p.failed
    BY <1>2 DEF Exit
  <2> QED
    BY <2>1, <2>2 DEF Probes, Stages
<1> QED
  BY <1>1, <1>2

\* Layer 4 goes on to layer 5.
LEMMA JudgedType ==
  \A p \in Probes, bad \in BOOLEAN :
    /\ Judged(p, bad) \in Probes /\ Judged(p, bad).stage = "nodes"
    /\ ~Judged(p, bad).failed => Passes(flash)
<1> TAKE p \in Probes, bad \in BOOLEAN
<1>1. (p.failed \/ bad \/ ~Passes(flash)) \in BOOLEAN
  OBVIOUS
<1> QED
  BY <1>1 DEF Judged, Probes, Stages

\* No step breaks the types.
LEMMA ProbeTypeStep ==
  ProbeOK /\ [PanelNext]_panelVars => ProbeOK'
<1> SUFFICES ASSUME probe \in Probes, [PanelNext]_panelVars PROVE probe' \in Probes
  BY DEF ProbeOK
<1>1. CASE ConfigStep
  <2>1. (probe.fresh /\ flash' = flash) \in BOOLEAN
    OBVIOUS
  <2> QED
    BY <1>1, <2>1 DEF ConfigStep, Probes
<1>2. ASSUME NEW quick \in BOOLEAN, StartProbe(quick) PROVE probe' \in Probes
  BY <1>2 DEF StartProbe, NoProbe, Probes, Stages
<1>3. CASE ProbeSettings
  BY <1>3, JudgedType, RepliedType DEF ProbeSettings
<1>4. CASE ProbeNodes
  <2>1. [probe EXCEPT !.stage = "data"] \in Probes /\ [probe EXCEPT !.failed = TRUE] \in Probes
    BY DEF Probes, Stages
  <2> QED
    BY <1>4, <2>1, RepliedType DEF ProbeNodes
<1>5. CASE ProbeData
  <2>1. PICK p \in Probes : probe' = Replied(p)
    <3>1. PICK got \in SUBSET {"battery_state", "dock_status"} :
            probe' = Replied([probe EXCEPT !.verified = got # {},
                                !.failed = @ \/ got # {"battery_state", "dock_status"}])
      BY <1>5 DEF ProbeData
    <3>2. (probe.failed \/ got # {"battery_state", "dock_status"}) \in BOOLEAN
          /\ (got # {}) \in BOOLEAN
      OBVIOUS
    <3> QED
      BY <3>1, <3>2 DEF Probes
  <2> QED
    BY <2>1, RepliedType
<1>6. CASE ProbeTimeout
  BY <1>6 DEF ProbeTimeout, NoProbe, Probes, Stages
<1>7. CASE UNCHANGED panelVars
  BY <1>7 DEF panelVars
<1> QED
  BY <1>1, <1>2, <1>3, <1>4, <1>5, <1>6, <1>7 DEF PanelNext, ProbeStep

\* For every choice of constants, the variables keep their types.
THEOREM PanelTypeCorrect == PanelSpec => []PanelTypeOK
<1>1. PanelInit => ProbeOK
  BY DEF PanelInit, NoProbe, Probes, Stages, ProbeOK
<1>2. ConfigTypeOK /\ ProbeOK => PanelTypeOK
  BY DEF PanelTypeOK, ProbeOK
<1>3. PanelSpec => []ProbeOK
  BY <1>1, ProbeTypeStep, PTL DEF PanelSpec
<1> QED
  BY <1>2, <1>3, PanelImplementsConfig, ConfigTypeCorrect, PTL

-----------------------------------------------------------------------------
(* A green ladder. *)

\* A ladder that has passed layer 4 with nothing failed, and a reply that it was
\* all right, speak of settings that pass, until somebody saves others.
Judgement ==
  /\ (probe.stage \in {"nodes", "data"} \/ probe.answer = "full")
       /\ probe.fresh /\ ~probe.failed => Passes(flash)
  /\ probe.answer = "full" => probe.verified /\ ~probe.failed
  /\ probe.stage # "none" => probe.answer = "none"

\* Replying keeps what layer 4 found.
LEMMA ReplyKeeps ==
  ASSUME NEW p \in Probes, p.fresh /\ ~p.failed => Passes(flash),
         probe' = Replied(p), UNCHANGED configVars
  PROVE  Judgement'
<1>1. Passes(flash)' <=> Passes(flash)
  BY DEF Passes, PeerOk, NtpOk, configVars, robotVars
<1> QED
  BY <1>1, RepliedType DEF Judgement

\* No step lets a ladder speak well of settings that it has not judged.
LEMMA JudgementStep ==
  ProbeOK /\ Judgement /\ [PanelNext]_panelVars => Judgement'
<1> SUFFICES ASSUME probe \in Probes, Judgement, [PanelNext]_panelVars PROVE Judgement'
  BY DEF ProbeOK
<1>1. CASE ConfigStep
  <2>1. /\ probe'.stage = probe.stage /\ probe'.answer = probe.answer
        /\ probe'.failed = probe.failed /\ probe'.verified = probe.verified
        /\ probe'.fresh => probe.fresh /\ flash' = flash
    BY <1>1 DEF ConfigStep, Probes
  <2> QED
    BY <2>1 DEF Judgement, Passes, PeerOk, NtpOk
<1>2. ASSUME NEW quick \in BOOLEAN, StartProbe(quick) PROVE Judgement'
  BY <1>2 DEF StartProbe, NoProbe, Judgement
<1>3. CASE ProbeSettings
  <2>1. PICK bad \in BOOLEAN : LET p == Judged(probe, bad)
                               IN probe' = IF p.quick THEN Replied(p) ELSE p
    BY <1>3 DEF ProbeSettings
  <2>2. UNCHANGED configVars /\ (Passes(flash)' <=> Passes(flash))
    BY <1>3 DEF ProbeSettings, Passes, PeerOk, NtpOk, configVars, robotVars
  <2>3. CASE probe' = Replied(Judged(probe, bad))
    BY <2>2, <2>3, JudgedType, ReplyKeeps
  <2>4. CASE probe' = Judged(probe, bad)
    <3>1. probe'.answer = "none"
      BY <1>3, <2>4 DEF ProbeSettings, Judgement, Judged, Probes
    <3> QED
      BY <2>2, <2>4, <3>1, JudgedType DEF Judgement
  <2> QED
    BY <2>1, <2>3, <2>4
<1>4. CASE ProbeNodes
  <2>1. UNCHANGED configVars /\ (probe.fresh /\ ~probe.failed => Passes(flash))
    BY <1>4 DEF ProbeNodes, Judgement
  <2>2. CASE probe' = Replied(probe)
    BY <2>1, <2>2, ReplyKeeps
  <2>3. CASE probe' = Replied([probe EXCEPT !.failed = TRUE])
    <3>1. [probe EXCEPT !.failed = TRUE] \in Probes /\ [probe EXCEPT !.failed = TRUE].failed
      BY DEF Probes
    <3> QED
      BY <2>1, <2>3, <3>1, ReplyKeeps
  <2>4. CASE probe' = [probe EXCEPT !.stage = "data"]
    <3>1. /\ probe'.stage = "data" /\ probe'.answer = probe.answer
          /\ probe'.fresh = probe.fresh /\ probe'.failed = probe.failed
      BY <2>4 DEF Probes
    <3>2. probe.answer = "none"
      BY <1>4 DEF ProbeNodes, Judgement
    <3>3. Passes(flash)' <=> Passes(flash)
      BY <2>1 DEF Passes, PeerOk, NtpOk, configVars, robotVars
    <3> QED
      BY <2>1, <3>1, <3>2, <3>3 DEF Judgement
  <2> QED
    BY <1>4, <2>2, <2>3, <2>4 DEF ProbeNodes
<1>5. CASE ProbeData
  <2>1. UNCHANGED configVars /\ (probe.fresh /\ ~probe.failed => Passes(flash))
    BY <1>5 DEF ProbeData, Judgement
  <2>2. PICK got \in SUBSET {"battery_state", "dock_status"} :
          probe' = Replied([probe EXCEPT !.verified = got # {},
                              !.failed = @ \/ got # {"battery_state", "dock_status"}])
    BY <1>5 DEF ProbeData
  <2> DEFINE p == [probe EXCEPT !.verified = got # {},
                     !.failed = @ \/ got # {"battery_state", "dock_status"}]
  <2>3. (probe.failed \/ got # {"battery_state", "dock_status"}) \in BOOLEAN
        /\ (got # {}) \in BOOLEAN
    OBVIOUS
  <2>4. p \in Probes /\ p.fresh = probe.fresh
        /\ (p.failed <=> probe.failed \/ got # {"battery_state", "dock_status"})
    BY <2>3 DEF Probes
  <2>5. probe' = Replied(p)
    BY <2>2
  <2> HIDE DEF p
  <2> QED
    BY <2>1, <2>4, <2>5, ReplyKeeps
<1>6. CASE ProbeTimeout
  BY <1>6 DEF ProbeTimeout, NoProbe, Judgement
<1>7. CASE UNCHANGED panelVars
  BY <1>7 DEF panelVars, configVars, robotVars, Judgement, Passes, PeerOk, NtpOk
<1> QED
  BY <1>1, <1>2, <1>3, <1>4, <1>5, <1>6, <1>7 DEF PanelNext, ProbeStep

\* For every choice of constants: exit status 0 means that messages came and, of
\* settings nobody has touched, that those the messages came from pass.
THEOREM GreenHolds == PanelSpec => []GreenMeansConfigured
<1>1. PanelInit => ProbeOK /\ Judgement
  BY DEF PanelInit, NoProbe, Probes, Stages, ProbeOK, Judgement
<1>2. Judgement /\ UnloadedOnlyIfTorn => GreenMeansConfigured
  <2> SUFFICES ASSUME Judgement, UnloadedOnlyIfTorn PROVE GreenMeansConfigured
    OBVIOUS
  <2>1. CASE app = "up" /\ ~torn /\ run.phase # "post"
    <3>1. loaded = flash
      BY <2>1 DEF UnloadedOnlyIfTorn
    <3> QED
      BY <3>1 DEF Judgement, GreenMeansConfigured
  <2>2. CASE ~(app = "up" /\ ~torn /\ run.phase # "post")
    BY <2>2 DEF Judgement, GreenMeansConfigured
  <2> QED
    BY <2>1, <2>2
<1>3. PanelSpec => [](ProbeOK /\ Judgement)
  BY <1>1, ProbeTypeStep, JudgementStep, PTL DEF PanelSpec
<1> QED
  BY <1>2, <1>3, PanelImplementsConfig, UnloadedHolds, PTL

-----------------------------------------------------------------------------
(* What apply wants. *)

\* What a run of apply wants from the moment it has read: no discovery server,
\* and the NUC as the peer and as the time server.
Wanted(w) == ~w.main.server /\ w.ntp.says = w.rmw.says

\* It wants so until it ends, and so did an apply that has completed.
WantsPeer ==
  /\ run.command = "apply" /\ run.phase \in {"confirm", "post", "settle", "wait"}
       => Wanted(run.want)
  /\ run.outcome \in Completed => Wanted(run.want)

\* A run that ends wants what it wanted.
LEMMA EndedWants ==
  ASSUME ConfigTypeOK, NEW o \in Outcomes, End(o), o \in Completed => Wanted(run.want)
  PROVE  WantsPeer'
  BY EndedType DEF End, ConfigTypeOK, WantsPeer

\* No step makes a run want anything else.
LEMMA WantsStep ==
  ConfigTypeOK /\ AfterRead /\ WantsPeer /\ [ConfigNext]_configVars => WantsPeer'
<1> SUFFICES ASSUME ConfigTypeOK, AfterRead, WantsPeer, [ConfigNext]_configVars
             PROVE  WantsPeer'
  OBVIOUS
<1>1. ASSUME NEW c \in Commands, NEW before \in Globals, NEW after \in Typings,
             Invoke(c, before, after)
      PROVE  WantsPeer'
  <2>1. run'.outcome = "none" /\ run'.command = c
    BY <1>1, ParsedPhase
  <2>2. c = "apply" => run'.phase = "read"
    BY <1>1 DEF Invoke, FirstPhase, NoRun
  <2>3. "none" \notin Completed
    BY DEF Completed
  <2> QED
    BY <2>1, <2>2, <2>3 DEF WantsPeer
<1>2. CASE Unreachable \/ ShowRead \/ RestartNtpd \/ Die
  <2>1. \E o \in Outcomes \ Completed : End(o)
    BY <1>2 DEF Unreachable, ShowRead, RestartNtpd, Die, Outcomes, Completed
  <2> QED
    BY <2>1, EndedWants
<1>3. CASE ApplyRead
  <2> DEFINE r == [run EXCEPT !.want = Desired(run.opts, flash),
                     !.todo = Plan(flash, Desired(run.opts, flash)), !.fresh = TRUE]
  <2>1. r \in Runs /\ r.want = Desired(run.opts, flash) /\ r.outcome = "none"
    BY <1>3, DesiredType DEF ApplyRead, ConfigTypeOK, Runs, Plan, AfterRead
  <2>2. Wanted(r.want)
    BY <2>1 DEF Desired, DesiredMain, Wanted
  <2>3. run' = AfterPlan(r)
    BY <1>3 DEF ApplyRead
  <2> HIDE DEF r
  <2>4. CASE run' = Ended(r, "uptodate") \/ run' = Ended(r, "dry")
    <3>1. run'.phase = "idle" /\ (run'.outcome \in Completed => run'.want = r.want)
      BY <2>1, <2>4, EndedType DEF Outcomes, Completed
    <3> QED
      BY <2>2, <3>1 DEF WantsPeer
  <2>5. CASE \E ph \in {"post", "confirm"} : run' = [r EXCEPT !.phase = ph]
    BY <2>1, <2>2, <2>5 DEF WantsPeer, Runs
  <2> QED
    BY <2>3, <2>4, <2>5 DEF AfterPlan
<1>4. CASE /\ run'.want = run.want /\ run'.command = run.command
           /\ run'.outcome = run.outcome
           /\ \/ run'.phase = run.phase
              \/ run.phase \in {"confirm", "post", "settle", "wait"}
  BY <1>4 DEF WantsPeer
<1>5. ASSUME NEW yes \in BOOLEAN, Confirm(yes) PROVE WantsPeer'
  <2>1. CASE yes
    BY <1>5, <2>1, <1>4 DEF Confirm, ConfigTypeOK, Runs
  <2>2. CASE ~yes
    BY <1>5, <2>2, EndedWants DEF Confirm, Outcomes, Completed
  <2> QED
    BY <2>1, <2>2
<1>6. ASSUME NEW f \in Forms, PostForm(f) PROVE WantsPeer'
  BY <1>6, <1>4 DEF PostForm, ConfigTypeOK, Runs
<1>7. CASE PostRestart \/ Settle
  BY <1>7, <1>4 DEF PostRestart, Settle, ConfigTypeOK, Runs
<1>8. CASE WaitNodes
  <2>1. \E o \in Outcomes : End(o) /\ (o \in Completed => run.command = "apply")
    BY <1>8 DEF WaitNodes, Outcomes, Completed
  <2>2. run.command = "apply" => Wanted(run.want)
    BY <1>8 DEF WaitNodes, WantsPeer
  <2> QED
    BY <2>1, <2>2, EndedWants
<1>9. ASSUME NEW f \in Meddled, OtherSave(f) PROVE WantsPeer'
  BY <1>9, <1>4 DEF OtherSave, ConfigTypeOK, Runs
<1>10. CASE AppStops \/ AppStarts \/ OtherRestart \/ UNCHANGED configVars
  BY <1>10, <1>4 DEF AppStops, AppStarts, OtherRestart, configVars
<1> QED
  BY <1>1, <1>2, <1>3, <1>5, <1>6, <1>7, <1>8, <1>9, <1>10
  DEF ConfigNext, ToolStep, RobotStep

\* For every choice of constants: what apply makes of a robot passes the ladder's
\* fourth layer if it was for this NUC, with its domain and RMW, and no other does.
THEOREM AppliedPassesHolds == PanelSpec => []AppliedPasses
<1>1. ConfigInit => WantsPeer
  BY DEF ConfigInit, NoRun, WantsPeer, Completed
<1>2. SecondRunFindsNothing /\ WantsPeer => AppliedPasses
  <2> SUFFICES ASSUME SecondRunFindsNothing, WantsPeer, run.outcome \in Completed,
                      run.fresh
               PROVE  Passes(flash) <=> ForThisNuc(run.want)
    BY DEF AppliedPasses
  <2>1. \A f \in Forms : ~Differs(flash, run.want, f)
    BY DEF SecondRunFindsNothing, Plan
  <2>2. /\ flash.main = run.want.main /\ flash.rmw.says = run.want.rmw.says
        /\ flash.ntp.says = run.want.ntp.says
    BY <2>1 DEF Differs, Norm, Forms
  <2>3. Wanted(run.want)
    BY DEF WantsPeer
  <2> QED
    BY <2>2, <2>3 DEF Wanted, ForThisNuc, Passes, PeerOk, NtpOk
<1>3. ConfigSpec => []WantsPeer
  BY <1>1, ConfigTypeInit, ConfigTypeStep, RunInit, AfterReadStep, WantsStep, PTL
  DEF ConfigSpec
<1> QED
  BY <1>2, <1>3, PanelImplementsConfig, SecondRunHolds, PTL
=============================================================================
