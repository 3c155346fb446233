---------------------------- MODULE ConfigProofs -----------------------------
(***************************************************************************)
(* The safety properties of the configuration tool, proved for every set   *)
(* of names, hosts, options and forms that others save.                    *)
(*                                                                         *)
(* What a run has still to post (todo) and what it wants are compared with *)
(* what the robot stores in every phase of the run: AfterRead says that    *)
(* nothing is left out, Reloaded that an application which is up after the *)
(* restart has read what was posted before it.                             *)
(***************************************************************************)
EXTENDS RobotConfig, TLAPS

-----------------------------------------------------------------------------
(* Type correctness. *)

\* The defaults are options, and a run that has not begun is a run.
LEMMA DefaultTypes == Defaults \in OptionValues /\ NoRun \in Runs
<1>1. Defaults \in OptionValues
  BY ConfigAssumption DEF Defaults, OptionValues, Namespaces
<1> QED
  BY <1>1, ConfigAssumption DEF NoRun, Runs, Commands, Outcomes

\* Options typed before and after a command give options, whichever win.
LEMMA OverlayTypes ==
  \A before \in Globals, after \in Typings :
    /\ Parsed(before, after) \in OptionValues
    /\ Overlay(after, Overlay(before, Defaults)).dry \in BOOLEAN
<1> TAKE before \in Globals, after \in Typings
<1>1. Parsed(before, after) \in OptionValues
  BY ConfigAssumption DEF Parsed
<1>2. DOMAIN Overlay(before, Defaults) = DOMAIN Defaults /\ "dry" \in DOMAIN Defaults
  BY DEF Overlay, Defaults
<1>3. Overlay(before, Defaults).dry \in BOOLEAN /\ Overlay(after, Defaults).dry \in BOOLEAN
  BY ConfigAssumption DEF OptionValues
<1>4. Overlay(after, Overlay(before, Defaults)).dry
        \in {Overlay(before, Defaults).dry, Overlay(after, Defaults).dry}
  BY <1>2 DEF Overlay
<1> QED
  BY <1>1, <1>3, <1>4

\* What is wanted of a robot with settings are settings.
LEMMA DesiredType == \A o \in OptionValues, cur \in Settings : Desired(o, cur) \in Settings
  BY DEF Desired, DesiredMain, Settings, MainForm, OptionValues, Namespaces, Text, Rooted

\* What is saved of settings are settings.
LEMMA SavedType ==
  \A s \in Settings, w \in Settings, f \in Forms :
    [s EXCEPT ![f] = Saved(w[f], f)] \in Settings
<1> TAKE s \in Settings, w \in Settings, f \in Forms
<1>1. CASE f = "main"
  BY <1>1 DEF Saved, Settings
<1>2. CASE f = "params"
  BY <1>2 DEF Saved, Settings, Text
<1>3. CASE f = "rmw"
  BY <1>3 DEF Saved, Settings, Text
<1>4. CASE f = "ntp"
  BY <1>4 DEF Saved, Settings, Text
<1> QED
  BY <1>1, <1>2, <1>3, <1>4 DEF Forms

\* A run that ends leaves a run that has not begun.
LEMMA EndedType ==
  \A r \in Runs, o \in Outcomes :
    /\ Ended(r, o) \in Runs
    /\ Ended(r, o).phase = "idle" /\ Ended(r, o).outcome = o /\ Ended(r, o).todo = {}
    /\ o \in Completed => Ended(r, o).want = r.want /\ Ended(r, o).fresh = r.fresh
<1> TAKE r \in Runs, o \in Outcomes
<1>1. [NoRun EXCEPT !.outcome = o] \in Runs
  BY DefaultTypes DEF Runs
<1>2. [NoRun EXCEPT !.outcome = o, !.want = r.want, !.fresh = r.fresh] \in Runs
  BY DefaultTypes DEF Runs
<1>3. Ended(r, o) \in Runs
  BY <1>1, <1>2 DEF Ended
<1>4. Ended(r, o).phase = "idle" /\ Ended(r, o).outcome = o /\ Ended(r, o).todo = {}
  BY DEF Ended, NoRun
<1>5. o \in Completed => Ended(r, o).want = r.want /\ Ended(r, o).fresh = r.fresh
  BY DEF Ended, NoRun
<1> QED
  BY <1>3, <1>4, <1>5

\* The host hears of namespaces only.
LEMMA AudibleType == \A s \in Settings : Audible(s) \subseteq Names
  BY DEF Audible, Settings, MainForm, Namespaces

\* The robot starts with the settings it is found with.
LEMMA ConfigTypeInit == ConfigInit => ConfigTypeOK
  BY ConfigAssumption, DefaultTypes, AudibleType DEF ConfigInit, ConfigTypeOK

\* No step of the tool, of the robot or of others breaks the types.
LEMMA ConfigTypeStep == ConfigTypeOK /\ [ConfigNext]_configVars => ConfigTypeOK'
<1> SUFFICES ASSUME ConfigTypeOK, [ConfigNext]_configVars PROVE ConfigTypeOK'
  OBVIOUS
<1> USE DEF ConfigTypeOK
<1>1. ASSUME NEW c \in Commands, NEW before \in Globals, NEW after \in Typings,
             Invoke(c, before, after)
      PROVE  ConfigTypeOK'
  <2> DEFINE o == Parsed(before, after)
             d == Overlay(after, Overlay(before, Defaults)).dry
  <2>1. o \in OptionValues /\ d \in BOOLEAN
    BY OverlayTypes
  <2>2. FirstPhase(c, o) \in {"read", "post", "confirm"}
    BY DEF FirstPhase, Commands
  <2>3. run' = [NoRun EXCEPT !.phase = FirstPhase(c, o), !.command = c, !.opts = o,
                             !.dryAsked = d]
    BY <1>1 DEF Invoke
  <2>4. run' \in Runs
    BY <2>1, <2>2, <2>3, DefaultTypes DEF Runs
  <2> QED
    BY <1>1, <2>4 DEF Invoke, robotVars
<1>2. CASE Unreachable \/ ShowRead \/ RestartNtpd
  BY <1>2, EndedType DEF Unreachable, ShowRead, RestartNtpd, End, Outcomes, robotVars
<1>3. CASE ApplyRead
  <2> DEFINE r == [run EXCEPT !.want = Desired(run.opts, flash),
                     !.todo = Plan(flash, Desired(run.opts, flash)), !.fresh = TRUE]
  <2>1. r \in Runs
    BY DesiredType DEF Runs, Plan
  <2>2. run' = AfterPlan(r) /\ UNCHANGED robotVars
    BY <1>3 DEF ApplyRead
  <2>3. AfterPlan(r) \in {Ended(r, "uptodate"), Ended(r, "dry"),
                          [r EXCEPT !.phase = "post"], [r EXCEPT !.phase = "confirm"]}
    BY DEF AfterPlan
  <2>4. [r EXCEPT !.phase = "post"] \in Runs /\ [r EXCEPT !.phase = "confirm"] \in Runs
    BY <2>1 DEF Runs
  <2>5. Ended(r, "uptodate") \in Runs /\ Ended(r, "dry") \in Runs
    BY <2>1, EndedType DEF Outcomes
  <2> HIDE DEF r
  <2>6. run' \in Runs
    BY <2>2, <2>3, <2>4, <2>5
  <2> QED
    BY <2>2, <2>6 DEF robotVars
<1>4. ASSUME NEW yes \in BOOLEAN, Confirm(yes) PROVE ConfigTypeOK'
  <2>1. run' \in Runs
    BY <1>4, EndedType DEF Confirm, End, Runs, Outcomes
  <2> QED
    BY <1>4, <2>1 DEF Confirm, robotVars
<1>5. ASSUME NEW f \in Forms, PostForm(f) PROVE ConfigTypeOK'
  <2>1. flash' \in Settings
    BY <1>5, SavedType DEF PostForm, Runs
  <2>2. run' \in Runs
    BY <1>5 DEF PostForm, Runs
  <2> QED
    BY <1>5, <2>1, <2>2 DEF PostForm
<1>6. CASE PostRestart \/ Settle
  <2>1. run' \in Runs
    BY <1>6 DEF PostRestart, Settle, Runs
  <2> QED
    BY <1>6, <2>1 DEF PostRestart, Settle, GoesDown, robotVars
<1>7. CASE WaitNodes
  <2>1. run' \in Runs
    BY <1>7, EndedType DEF WaitNodes, End, Outcomes
  <2> QED
    BY <1>7, <2>1 DEF WaitNodes, robotVars
<1>8. CASE Die
  <2>1. run' \in Runs
    BY <1>8, EndedType DEF Die, End, Outcomes
  <2>2. torn' \in BOOLEAN
    BY <1>8 DEF Die
  <2> QED
    BY <1>8, <2>1, <2>2 DEF Die
<1>9. CASE AppStops \/ AppStarts
  BY <1>9, AudibleType DEF AppStops, AppStarts
<1>10. ASSUME NEW f \in Meddled, OtherSave(f) PROVE ConfigTypeOK'
  <2>1. flash' \in Settings
    BY <1>10, ConfigAssumption DEF OtherSave, Settings, Forms
  <2>2. run' \in Runs
    BY <1>10 DEF OtherSave, Runs
  <2> QED
    BY <1>10, <2>1, <2>2 DEF OtherSave
<1>11. CASE OtherRestart
  BY <1>11 DEF OtherRestart, GoesDown
<1>12. CASE UNCHANGED configVars
  BY <1>12 DEF configVars, robotVars
<1> QED
  BY <1>1, <1>2, <1>3, <1>4, <1>5, <1>6, <1>7, <1>8, <1>9, <1>10, <1>11, <1>12
  DEF ConfigNext, ToolStep, RobotStep

\* For every choice of constants, the settings of the robot and the state of the
\* tool keep their types.
THEOREM ConfigTypeCorrect == ConfigSpec => []ConfigTypeOK
  BY ConfigTypeInit, ConfigTypeStep, PTL DEF ConfigSpec

-----------------------------------------------------------------------------
(* What a run of apply has still to post. *)

\* Once apply has read, and while nobody else saves, every form that differs from
\* what is wanted is still to be posted; the restart follows the last of them.
AfterRead ==
  /\ run.phase # "idle" => run.outcome = "none"
  /\ run.todo # {} => run.command = "apply"
  /\ run.phase \in {"settle", "wait"} => run.todo = {}
  /\ run.command = "apply" /\ run.phase \in {"confirm", "post", "settle", "wait"}
       /\ run.fresh
     => Plan(flash, run.want) \subseteq run.todo
  /\ SecondRunFindsNothing

\* An application that came up after the restart has loaded what is stored.
Reloaded ==
  /\ run.command = "apply" /\ run.fresh
     => /\ run.phase = "settle" /\ app = "up" => loaded = flash
        /\ run.phase = "wait" /\ app # "starting" => loaded = flash
  /\ AppliedMeansLoaded

\* The parameters are never to be posted unless --safety named a value.
QuietParams == run.opts.safety = Unset => "params" \notin run.todo

\* A form that was posted differs no more, and no other form is changed by it,
\* although the robot rewrites the text that it saves.
LEMMA PlanSaved ==
  \A s, t, w \in Settings : \A f \in Forms :
    t[f] = Saved(w[f], f) /\ (\A g \in Forms \ {f} : t[g] = s[g])
      => Plan(t, w) = Plan(s, w) \ {f}
<1> TAKE s, t, w \in Settings
<1> TAKE f \in Forms
<1> HAVE t[f] = Saved(w[f], f) /\ \A g \in Forms \ {f} : t[g] = s[g]
<1>1. ~Differs(t, w, f)
  <2>1. CASE f = "main"
    BY <2>1 DEF Differs, Saved
  <2>2. CASE f # "main"
    <3>1. Saved(w[f], f).says = w[f].says
      BY <2>2 DEF Saved, Settings, Text, Forms
    <3> QED
      BY <2>2, <3>1 DEF Differs, Norm
  <2> QED
    BY <2>1, <2>2
<1>2. \A g \in Forms \ {f} : Differs(t, w, g) <=> Differs(s, w, g)
  BY DEF Differs
<1> QED
  BY <1>1, <1>2 DEF Plan

\* Without --safety, the parameters that are wanted are those that were read.
LEMMA NoSafetyNoParams ==
  \A o \in OptionValues, cur \in Settings :
    o.safety = Unset => "params" \notin Plan(cur, Desired(o, cur))
  BY DEF Plan, Differs, Desired, Norm

\* The tool starts with no run behind it.
LEMMA RunInit == ConfigInit => AfterRead /\ Reloaded /\ QuietParams /\ UnloadedOnlyIfTorn
  BY DEF ConfigInit, NoRun, AfterRead, Reloaded, QuietParams, UnloadedOnlyIfTorn,
     SecondRunFindsNothing, AppliedMeansLoaded, Completed

\* The phases of a run are distinct from an ended one.
LEMMA ParsedPhase ==
  \A c \in Commands, before \in Globals, after \in Typings :
    Invoke(c, before, after)
      => /\ run'.todo = {} /\ run'.outcome = "none" /\ run'.command = c
         /\ run'.phase \in {"read", "post", "confirm"} /\ ~run'.fresh
         /\ c = "apply" => run'.phase = "read"
         /\ UNCHANGED robotVars
<1> TAKE c \in Commands, before \in Globals, after \in Typings
<1> SUFFICES ASSUME Invoke(c, before, after)
             PROVE  /\ run'.todo = {} /\ run'.outcome = "none" /\ run'.command = c
                    /\ run'.phase \in {"read", "post", "confirm"} /\ ~run'.fresh
                    /\ c = "apply" => run'.phase = "read"
                    /\ UNCHANGED robotVars
  OBVIOUS
<1> DEFINE o == Parsed(before, after)
<1>1. /\ FirstPhase(c, o) \in {"read", "post", "confirm"}
      /\ c = "apply" => FirstPhase(c, o) = "read"
  BY DEF FirstPhase, Commands
<1> QED
  BY <1>1 DEF Invoke, NoRun, robotVars

\* A run that ends without having completed an apply leaves nothing to compare.
LEMMA GivenUp ==
  ASSUME ConfigTypeOK, NEW o \in Outcomes \ Completed, End(o)
  PROVE  AfterRead' /\ AppliedMeansLoaded' /\ run'.phase = "idle" /\ run'.todo = {}
<1>1. run'.phase = "idle" /\ run'.outcome \notin Completed /\ run'.todo = {}
  BY EndedType DEF End, ConfigTypeOK
<1>2. run'.outcome # "applied"
  BY <1>1 DEF Completed
<1> QED
  BY <1>1, <1>2 DEF AfterRead, SecondRunFindsNothing, AppliedMeansLoaded

\* No step drops a form that differs from what is still to be posted.
LEMMA AfterReadStep ==
  ConfigTypeOK /\ AfterRead /\ [ConfigNext]_configVars => AfterRead'
<1> SUFFICES ASSUME ConfigTypeOK, AfterRead, [ConfigNext]_configVars PROVE AfterRead'
  OBVIOUS
<1>1. ASSUME NEW c \in Commands, NEW before \in Globals, NEW after \in Typings,
             Invoke(c, before, after)
      PROVE  AfterRead'
  BY <1>1, ParsedPhase DEF AfterRead, SecondRunFindsNothing, Completed
<1>2. CASE Unreachable \/ ShowRead \/ RestartNtpd \/ Die
  <2>1. \E o \in Outcomes \ Completed : End(o)
    BY <1>2 DEF Unreachable, ShowRead, RestartNtpd, Die, Outcomes, Completed
  <2> QED
    BY <2>1, GivenUp
<1>3. CASE ApplyRead
  <2> DEFINE r == [run EXCEPT !.want = Desired(run.opts, flash),
                     !.todo = Plan(flash, Desired(run.opts, flash)), !.fresh = TRUE]
  <2>1. /\ r \in Runs /\ r.want = Desired(run.opts, flash)
        /\ r.todo = Plan(flash, r.want) /\ r.fresh /\ r.command = "apply"
        /\ r.phase = "read" /\ r.outcome = "none"
    BY <1>3, DesiredType DEF ApplyRead, ConfigTypeOK, Runs, Plan, AfterRead
  <2>2. run' = AfterPlan(r) /\ flash' = flash
    BY <1>3 DEF ApplyRead, robotVars
  <2> HIDE DEF r
  <2>3. CASE r.todo = {}
    <3>1. run' = Ended(r, "uptodate")
      BY <2>2, <2>3 DEF AfterPlan
    <3>2. /\ run'.phase = "idle" /\ run'.todo = {}
          /\ run'.want = r.want
      BY <3>1, <2>1, EndedType DEF Outcomes, Completed
    <3> QED
      BY <3>2, <2>1, <2>2, <2>3 DEF AfterRead, SecondRunFindsNothing
  <2>4. CASE r.todo # {} /\ r.opts.dry
    <3>1. End("dry") \/ run' = Ended(r, "dry")
      BY <2>2, <2>4 DEF AfterPlan
    <3>2. run'.phase = "idle" /\ run'.todo = {} /\ run'.outcome \notin Completed
      BY <3>1, <2>1, EndedType DEF End, ConfigTypeOK, Outcomes, Completed
    <3> QED
      BY <3>2 DEF AfterRead, SecondRunFindsNothing
  <2>5. CASE r.todo # {} /\ ~r.opts.dry
    <3>1. run' = [r EXCEPT !.phase = IF r.opts.yes THEN "post" ELSE "confirm"]
      BY <2>2, <2>5 DEF AfterPlan
    <3>2. /\ run'.phase \in {"post", "confirm"} /\ run'.outcome = "none"
          /\ run'.command = "apply" /\ run'.todo = r.todo /\ run'.want = r.want
      BY <3>1, <2>1 DEF Runs
    <3> QED
      BY <3>2, <2>1, <2>2 DEF AfterRead, SecondRunFindsNothing, Completed
  <2> QED
    BY <2>3, <2>4, <2>5
<1>4. ASSUME NEW yes \in BOOLEAN, Confirm(yes) PROVE AfterRead'
  <2>1. CASE yes
    BY <1>4, <2>1
    DEF Confirm, AfterRead, SecondRunFindsNothing, Completed, ConfigTypeOK, Runs, robotVars
  <2>2. CASE ~yes
    <3>1. End("aborted") /\ "aborted" \in Outcomes \ Completed
      BY <1>4, <2>2 DEF Confirm, Outcomes, Completed
    <3> QED
      BY <3>1, GivenUp
  <2> QED
    BY <2>1, <2>2
<1>5. ASSUME NEW f \in Forms, PostForm(f) PROVE AfterRead'
  <2>1. /\ run'.phase = "post" /\ run'.todo = run.todo \ {f} /\ run'.want = run.want
        /\ run'.fresh = run.fresh /\ run'.command = run.command
        /\ run'.outcome = "none" /\ run.command = "apply" /\ run.phase = "post"
    BY <1>5 DEF PostForm, IsNext, AfterRead, ConfigTypeOK, Runs
  <2>2. Plan(flash', run.want) = Plan(flash, run.want) \ {f}
    <3>1. flash \in Settings /\ run.want \in Settings
      BY DEF ConfigTypeOK, Runs
    <3>2. flash' = [flash EXCEPT ![f] = Saved(run.want[f], f)]
      BY <1>5 DEF PostForm
    <3>3. /\ flash' \in Settings /\ flash'[f] = Saved(run.want[f], f)
          /\ \A g \in Forms \ {f} : flash'[g] = flash[g]
      BY <3>1, <3>2, SavedType DEF Settings, Forms
    <3>4. \A t \in Settings :
            t[f] = Saved(run.want[f], f) /\ (\A g \in Forms \ {f} : t[g] = flash[g])
              => Plan(t, run.want) = Plan(flash, run.want) \ {f}
      BY <3>1, PlanSaved
    <3> QED
      BY <3>3, <3>4
  <2>3. run.fresh => Plan(flash, run.want) \subseteq run.todo
    BY <2>1 DEF AfterRead
  <2>4. run'.fresh => Plan(flash', run'.want) \subseteq run'.todo
    BY <2>1, <2>2, <2>3
  <2>5. SecondRunFindsNothing'
    BY <2>1 DEF SecondRunFindsNothing, Completed
  <2> QED
    BY <2>1, <2>4, <2>5 DEF AfterRead
<1>6. CASE PostRestart \/ Settle
  <2>1. /\ run'.phase \in {"settle", "wait"} /\ run'.todo = {} /\ run.todo = {}
        /\ run'.want = run.want /\ run'.fresh = run.fresh /\ run'.command = run.command
        /\ run'.outcome = "none" /\ flash' = flash /\ run.phase \in {"post", "settle"}
    BY <1>6 DEF PostRestart, Settle, AfterRead, ConfigTypeOK, Runs, robotVars
  <2> QED
    BY <2>1 DEF AfterRead, SecondRunFindsNothing, Completed
<1>7. CASE WaitNodes
  <2>1. run.phase = "wait" /\ flash' = flash
    BY <1>7 DEF WaitNodes, robotVars
  <2>2. CASE run.command = "apply"
    <3>1. PICK o \in Completed : End(o)
      BY <1>7, <2>2 DEF WaitNodes, Completed
    <3>2. /\ run'.phase = "idle" /\ run'.todo = {}
          /\ run'.want = run.want /\ run'.fresh = run.fresh
      BY <3>1, EndedType DEF End, ConfigTypeOK, Outcomes, Completed
    <3>3. run.fresh => Plan(flash, run.want) = {}
      BY <2>1, <2>2 DEF AfterRead
    <3> QED
      BY <2>1, <3>2, <3>3 DEF AfterRead, SecondRunFindsNothing
  <2>3. CASE run.command # "apply"
    <3>1. \E o \in Outcomes \ Completed : End(o)
      BY <1>7, <2>3 DEF WaitNodes, Outcomes, Completed
    <3> QED
      BY <3>1, GivenUp
  <2> QED
    BY <2>2, <2>3
<1>8. CASE UNCHANGED <<flash, run>>
  BY <1>8 DEF AfterRead, SecondRunFindsNothing
<1>9. ASSUME NEW f \in Meddled, OtherSave(f) PROVE AfterRead'
  <2>1. /\ ~run'.fresh /\ run'.todo = run.todo /\ run'.phase = run.phase
        /\ run'.command = run.command /\ run'.outcome = run.outcome
    BY <1>9 DEF OtherSave, ConfigTypeOK, Runs
  <2> QED
    BY <2>1 DEF AfterRead, SecondRunFindsNothing
<1> QED
  BY <1>1, <1>2, <1>3, <1>4, <1>5, <1>6, <1>7, <1>8, <1>9
  DEF ConfigNext, ToolStep, RobotStep, AppStops, AppStarts, OtherRestart, configVars,
      robotVars

\* AfterRead holds of the tool, with its types.
LEMMA RunSpec == ConfigSpec => [](ConfigTypeOK /\ AfterRead)
  BY ConfigTypeInit, ConfigTypeStep, RunInit, AfterReadStep, PTL DEF ConfigSpec

\* For every choice of constants: when apply has ended, whatever was the matter
\* with the nodes, a second apply would find nothing to post.
THEOREM SecondRunHolds == ConfigSpec => []SecondRunFindsNothing
<1>1. AfterRead => SecondRunFindsNothing
  BY DEF AfterRead
<1> QED
  BY <1>1, RunSpec, PTL

-----------------------------------------------------------------------------
(* The restart. *)

\* No step has the application up after the restart with anything but what is
\* stored.
LEMMA ReloadedStep ==
  ConfigTypeOK /\ AfterRead /\ AfterRead' /\ Reloaded /\ [ConfigNext]_configVars
    => Reloaded'
<1> SUFFICES ASSUME ConfigTypeOK, AfterRead, AfterRead', Reloaded,
                    [ConfigNext]_configVars
             PROVE  Reloaded'
  OBVIOUS
<1>1. ASSUME NEW c \in Commands, NEW before \in Globals, NEW after \in Typings,
             Invoke(c, before, after)
      PROVE  Reloaded'
  BY <1>1, ParsedPhase DEF Reloaded, AppliedMeansLoaded
<1>2. CASE Unreachable \/ ShowRead \/ RestartNtpd \/ Die
  <2>1. \E o \in Outcomes \ Completed : End(o)
    BY <1>2 DEF Unreachable, ShowRead, RestartNtpd, Die, Outcomes, Completed
  <2> QED
    BY <2>1, GivenUp DEF Reloaded
<1>3. CASE ApplyRead
  <2> DEFINE r == [run EXCEPT !.want = Desired(run.opts, flash),
                     !.todo = Plan(flash, Desired(run.opts, flash)), !.fresh = TRUE]
  <2>1. r \in Runs /\ r.outcome = "none"
    BY <1>3, DesiredType DEF ApplyRead, ConfigTypeOK, Runs, Plan, AfterRead
  <2>2. run' = AfterPlan(r)
    BY <1>3 DEF ApplyRead
  <2> HIDE DEF r
  <2>3. run' \in {Ended(r, "uptodate"), Ended(r, "dry"),
                  [r EXCEPT !.phase = "post"], [r EXCEPT !.phase = "confirm"]}
    BY <2>2 DEF AfterPlan
  <2>4. run'.phase \in {"idle", "post", "confirm"} /\ run'.outcome # "applied"
    <3>1. CASE run' = Ended(r, "uptodate") \/ run' = Ended(r, "dry")
      BY <3>1, <2>1, EndedType DEF Outcomes
    <3>2. CASE run' = [r EXCEPT !.phase = "post"] \/ run' = [r EXCEPT !.phase = "confirm"]
      BY <3>2, <2>1 DEF Runs
    <3> QED
      BY <2>3, <3>1, <3>2
  <2> QED
    BY <2>4 DEF Reloaded, AppliedMeansLoaded
<1>4. ASSUME NEW yes \in BOOLEAN, Confirm(yes) PROVE Reloaded'
  <2>1. CASE yes
    BY <1>4, <2>1 DEF Confirm, Reloaded, AppliedMeansLoaded, AfterRead, ConfigTypeOK, Runs
  <2>2. CASE ~yes
    <3>1. End("aborted") /\ "aborted" \in Outcomes \ Completed
      BY <1>4, <2>2 DEF Confirm, Outcomes, Completed
    <3> QED
      BY <3>1, GivenUp DEF Reloaded
  <2> QED
    BY <2>1, <2>2
<1>5. ASSUME NEW f \in Forms, PostForm(f) PROVE Reloaded'
  BY <1>5 DEF PostForm, Reloaded, AppliedMeansLoaded, AfterRead, ConfigTypeOK, Runs
<1>6. CASE PostRestart
  \* The application is not up then.
  BY <1>6
  DEF PostRestart, GoesDown, Reloaded, AppliedMeansLoaded, AfterRead, ConfigTypeOK, Runs
<1>7. CASE Settle
  \* Nor does it still run from before.
  BY <1>7
  DEF Settle, Reloaded, AppliedMeansLoaded, AfterRead, ConfigTypeOK, Runs, robotVars
<1>8. CASE WaitNodes
  <2>1. run.phase = "wait" /\ UNCHANGED robotVars
    BY <1>8 DEF WaitNodes
  <2>2. CASE run.command = "apply"
    <3>1. PICK o \in Completed : End(o) /\ (o = "applied" => Live(Awaited))
      BY <1>8, <2>2 DEF WaitNodes, Completed
    <3>2. /\ run'.phase = "idle" /\ run'.outcome = o
          /\ run'.want = run.want /\ run'.fresh = run.fresh
      BY <3>1, EndedType DEF End, ConfigTypeOK, Outcomes, Completed
    <3>3. o = "applied" /\ run.fresh => loaded = flash
      BY <2>1, <2>2, <3>1 DEF Live, Reloaded
    <3>4. run'.outcome \in Completed /\ run'.fresh => Plan(flash', run'.want) = {}
      BY DEF AfterRead, SecondRunFindsNothing
    <3>5. AppliedMeansLoaded'
      BY <2>1, <3>2, <3>3, <3>4 DEF AppliedMeansLoaded, Completed, robotVars
    <3> QED
      BY <3>2, <3>5 DEF Reloaded
  <2>3. CASE run.command # "apply"
    <3>1. \E o \in Outcomes \ Completed : End(o)
      BY <1>8, <2>3 DEF WaitNodes, Outcomes, Completed
    <3> QED
      BY <3>1, GivenUp DEF Reloaded
  <2> QED
    BY <2>2, <2>3
<1>9. CASE AppStops
  BY <1>9 DEF AppStops, Reloaded, AppliedMeansLoaded
<1>10. CASE AppStarts
  BY <1>10
  DEF AppStarts, Reloaded, AppliedMeansLoaded, AfterRead, SecondRunFindsNothing, Completed
<1>11. CASE OtherRestart
  BY <1>11 DEF OtherRestart, GoesDown, Reloaded, AppliedMeansLoaded
<1>12. ASSUME NEW f \in Meddled, OtherSave(f) PROVE Reloaded'
  BY <1>12 DEF OtherSave, Reloaded, AppliedMeansLoaded, ConfigTypeOK, Runs
<1>13. CASE UNCHANGED configVars
  BY <1>13 DEF configVars, robotVars, Reloaded, AppliedMeansLoaded
<1> QED
  BY <1>1, <1>2, <1>3, <1>4, <1>5, <1>6, <1>7, <1>8, <1>9, <1>10, <1>11, <1>12, <1>13
  DEF ConfigNext, ToolStep, RobotStep

\* For every choice of constants: the nodes that apply saw come up are those of an
\* application that runs with what was asked for.
THEOREM AppliedHolds == ConfigSpec => []AppliedMeansLoaded
<1>1. Reloaded => AppliedMeansLoaded
  BY DEF Reloaded
<1> QED
  BY <1>1, ConfigTypeInit, ConfigTypeStep, RunInit, AfterReadStep, ReloadedStep, PTL
  DEF ConfigSpec

\* No step leaves settings unloaded but by breaking off a run, or on somebody
\* else's behalf.
LEMMA UnloadedStep ==
  ConfigTypeOK /\ AfterRead /\ UnloadedOnlyIfTorn /\ [ConfigNext]_configVars
    => UnloadedOnlyIfTorn'
<1> SUFFICES ASSUME ConfigTypeOK, AfterRead, UnloadedOnlyIfTorn, [ConfigNext]_configVars
             PROVE  UnloadedOnlyIfTorn'
  OBVIOUS
<1> USE DEF UnloadedOnlyIfTorn
<1>1. ASSUME NEW f \in Forms, PostForm(f) PROVE UnloadedOnlyIfTorn'
  BY <1>1 DEF PostForm, IsNext, AfterRead, ConfigTypeOK, Runs
<1>2. CASE PostRestart
  BY <1>2 DEF PostRestart, GoesDown
<1>3. CASE Die
  BY <1>3 DEF Die
<1>4. CASE AppStops \/ AppStarts \/ OtherRestart
  BY <1>4 DEF AppStops, AppStarts, OtherRestart, GoesDown
<1>5. ASSUME NEW f \in Meddled, OtherSave(f) PROVE UnloadedOnlyIfTorn'
  BY <1>5 DEF OtherSave
<1>6. CASE UNCHANGED robotVars /\ (run.phase # "post" \/ run.command # "apply")
  BY <1>6 DEF robotVars
<1>7. CASE RestartNtpd \/ UNCHANGED configVars
  BY <1>7 DEF RestartNtpd, configVars, robotVars
<1> QED
  BY <1>1, <1>2, <1>3, <1>4, <1>5, <1>6, <1>7
  DEF ConfigNext, ToolStep, RobotStep, Invoke, Unreachable, ShowRead, ApplyRead, Confirm,
      Settle, WaitNodes

\* For every choice of constants: the application runs with what the robot
\* stores, unless a run is posting, one was broken off, or others saved.
THEOREM UnloadedHolds == ConfigSpec => []UnloadedOnlyIfTorn
  BY ConfigTypeInit, ConfigTypeStep, RunInit, AfterReadStep, UnloadedStep, PTL
  DEF ConfigSpec

-----------------------------------------------------------------------------
(* The safety parameter. *)

\* No step puts the parameters on the list of a run that was not asked to.
LEMMA QuietStep == ConfigTypeOK /\ QuietParams /\ [ConfigNext]_configVars => QuietParams'
<1> SUFFICES ASSUME ConfigTypeOK, QuietParams, [ConfigNext]_configVars PROVE QuietParams'
  OBVIOUS
<1>1. ASSUME NEW c \in Commands, NEW before \in Globals, NEW after \in Typings,
             Invoke(c, before, after)
      PROVE  QuietParams'
  BY <1>1, ParsedPhase DEF QuietParams
<1>2. ASSUME NEW o \in Outcomes, End(o) PROVE QuietParams'
  BY <1>2, EndedType DEF End, QuietParams, ConfigTypeOK
<1>3. CASE ApplyRead
  <2> DEFINE r == [run EXCEPT !.want = Desired(run.opts, flash),
                     !.todo = Plan(flash, Desired(run.opts, flash)), !.fresh = TRUE]
  <2>1. r.opts = run.opts /\ r.todo = Plan(flash, Desired(run.opts, flash)) /\ r \in Runs
    BY DesiredType DEF ConfigTypeOK, Runs, Plan
  <2>2. r.opts.safety = Unset => "params" \notin r.todo
    BY <2>1, NoSafetyNoParams DEF ConfigTypeOK, Runs
  <2>3. run' = AfterPlan(r)
    BY <1>3 DEF ApplyRead
  <2> HIDE DEF r
  <2>4. CASE run' = Ended(r, "uptodate") \/ run' = Ended(r, "dry")
    BY <2>4, <2>1, EndedType DEF QuietParams, Outcomes
  <2>5. CASE \E ph \in {"post", "confirm"} : run' = [r EXCEPT !.phase = ph]
    BY <2>5, <2>1, <2>2 DEF QuietParams, Runs
  <2> QED
    BY <2>3, <2>4, <2>5 DEF AfterPlan
<1>4. CASE run'.opts = run.opts /\ run'.todo \subseteq run.todo
  BY <1>4 DEF QuietParams
<1>5. ASSUME NEW yes \in BOOLEAN, Confirm(yes) PROVE QuietParams'
  BY <1>5, <1>2, <1>4 DEF Confirm, ConfigTypeOK, Runs, Outcomes
<1>6. ASSUME NEW f \in Forms, PostForm(f) PROVE QuietParams'
  BY <1>6, <1>4 DEF PostForm, ConfigTypeOK, Runs
<1>7. CASE PostRestart \/ Settle
  BY <1>7, <1>4 DEF PostRestart, Settle, ConfigTypeOK, Runs
<1>8. CASE Unreachable \/ ShowRead \/ WaitNodes \/ RestartNtpd \/ Die
  BY <1>8, <1>2 DEF Unreachable, ShowRead, WaitNodes, RestartNtpd, Die, Outcomes
<1>9. ASSUME NEW f \in Meddled, OtherSave(f) PROVE QuietParams'
  BY <1>9, <1>4 DEF OtherSave, ConfigTypeOK, Runs
<1>10. CASE AppStops \/ AppStarts \/ OtherRestart \/ UNCHANGED configVars
  BY <1>10, <1>4 DEF AppStops, AppStarts, OtherRestart, configVars
<1> QED
  BY <1>1, <1>3, <1>5, <1>6, <1>7, <1>8, <1>9, <1>10 DEF ConfigNext, ToolStep, RobotStep

\* For every choice of constants: a run posts no parameters unless --safety named
\* a value, whatever others do to them meanwhile.
THEOREM SafetyHolds == ConfigSpec => SafetyOnlyWhenNamed
<1>1. ASSUME ConfigTypeOK, QuietParams, [ConfigNext]_configVars,
             flash'.params # flash.params, ~OtherSave("params")
      PROVE  run.opts.safety # Unset
  <2>1. CASE \E f \in Forms : PostForm(f)
    <3>1. PICK f \in Forms : PostForm(f)
      BY <2>1
    <3>2. f = "params"
      BY <1>1, <3>1 DEF PostForm, ConfigTypeOK, Settings, Forms
    <3> QED
      BY <1>1, <3>1, <3>2 DEF PostForm, IsNext, QuietParams
  <2>2. CASE \E f \in Meddled : OtherSave(f)
    <3>1. PICK f \in Forms : OtherSave(f)
      BY <2>2, ConfigAssumption
    <3>2. f # "params"
      BY <1>1, <3>1
    <3> QED
      BY <1>1, <3>1, <3>2 DEF OtherSave, ConfigTypeOK, Settings, Forms
  <2>3. CASE UNCHANGED flash
    BY <1>1, <2>3
  <2> QED
    BY <1>1, <2>1, <2>2, <2>3
    DEF ConfigNext, ToolStep, RobotStep, Invoke, Unreachable, ShowRead, ApplyRead, Confirm,
        PostRestart, Settle, WaitNodes, RestartNtpd, Die, AppStops, AppStarts,
        OtherRestart, configVars, robotVars
<1>2. ConfigTypeOK /\ QuietParams /\ [ConfigNext]_configVars
        => [flash'.params # flash.params /\ ~OtherSave("params")
              => run.opts.safety # Unset]_configVars
  BY <1>1
<1> QED
  BY <1>2, ConfigTypeInit, ConfigTypeStep, RunInit, QuietStep, PTL
  DEF ConfigSpec, SafetyOnlyWhenNamed

-----------------------------------------------------------------------------
(* Dry runs. *)

\* A dry run of apply ends where it has read and compared.
DryReads == run.command = "apply" /\ run.opts.dry => run.phase \in {"idle", "read"}

\* No step takes a dry run beyond its reading.
LEMMA DryStep == ConfigTypeOK /\ DryReads /\ [ConfigNext]_configVars => DryReads'
<1> SUFFICES ASSUME ConfigTypeOK, DryReads, [ConfigNext]_configVars PROVE DryReads'
  OBVIOUS
<1>1. ASSUME NEW c \in Commands, NEW before \in Globals, NEW after \in Typings,
             Invoke(c, before, after)
      PROVE  DryReads'
  BY <1>1, ParsedPhase DEF DryReads
<1>2. ASSUME NEW o \in Outcomes, End(o) PROVE DryReads'
  BY <1>2, EndedType DEF End, DryReads, ConfigTypeOK
<1>3. CASE ApplyRead
  <2> DEFINE r == [run EXCEPT !.want = Desired(run.opts, flash),
                     !.todo = Plan(flash, Desired(run.opts, flash)), !.fresh = TRUE]
  <2>1. r \in Runs
    BY DesiredType DEF ConfigTypeOK, Runs, Plan
  <2>2. run' = AfterPlan(r)
    BY <1>3 DEF ApplyRead
  <2> HIDE DEF r
  <2>3. CASE run' = Ended(r, "uptodate") \/ run' = Ended(r, "dry")
    BY <2>1, <2>3, EndedType DEF DryReads, Outcomes
  <2>4. CASE /\ ~r.opts.dry
             /\ \E ph \in {"post", "confirm"} : run' = [r EXCEPT !.phase = ph]
    BY <2>1, <2>4 DEF DryReads, Runs
  <2> QED
    BY <2>2, <2>3, <2>4 DEF AfterPlan
<1>4. CASE /\ run'.command = run.command /\ run'.opts = run.opts
           /\ run'.phase = run.phase \/ run.phase \notin {"idle", "read"}
  BY <1>4 DEF DryReads
<1>5. ASSUME NEW yes \in BOOLEAN, Confirm(yes) PROVE DryReads'
  BY <1>5, <1>2, <1>4 DEF Confirm, ConfigTypeOK, Runs, Outcomes
<1>6. ASSUME NEW f \in Forms, PostForm(f) PROVE DryReads'
  BY <1>6, <1>4 DEF PostForm, ConfigTypeOK, Runs
<1>7. CASE PostRestart \/ Settle
  BY <1>7, <1>4 DEF PostRestart, Settle, ConfigTypeOK, Runs
<1>8. CASE Unreachable \/ ShowRead \/ WaitNodes \/ RestartNtpd \/ Die
  BY <1>8, <1>2 DEF Unreachable, ShowRead, WaitNodes, RestartNtpd, Die, Outcomes
<1>9. ASSUME NEW f \in Meddled, OtherSave(f) PROVE DryReads'
  BY <1>9, <1>4 DEF OtherSave, ConfigTypeOK, Runs
<1>10. CASE AppStops \/ AppStarts \/ OtherRestart \/ UNCHANGED configVars
  BY <1>10, <1>4 DEF AppStops, AppStarts, OtherRestart, configVars
<1> QED
  BY <1>1, <1>3, <1>5, <1>6, <1>7, <1>8, <1>9, <1>10 DEF ConfigNext, ToolStep, RobotStep

\* For every choice of constants: an apply parsed as a dry run sends nothing.
THEOREM DryRunHolds == ConfigSpec => DryRunHonoured
<1>1. ConfigInit => DryReads
  BY DEF ConfigInit, NoRun, DryReads
<1>2. ConfigTypeOK /\ DryReads /\ [ConfigNext]_configVars
        => [run.command = "apply" /\ run.opts.dry
              => ~Sends /\ ~\E yes \in BOOLEAN : Confirm(yes)]_configVars
  BY DEF DryReads, Sends, PostForm, PostRestart, Confirm
<1> QED
  BY <1>1, <1>2, ConfigTypeInit, ConfigTypeStep, DryStep, PTL
  DEF ConfigSpec, DryRunHonoured
=============================================================================
