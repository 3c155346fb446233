----------------------------- MODULE RobotConfig -----------------------------
(***************************************************************************)
(* scripts/configure_create3.py: the tool that writes the robot's settings *)
(* through the four forms of its web UI, and the robot at the other end.   *)
(*                                                                         *)
(* The robot keeps its settings in "flash" and runs those its application  *)
(* loaded when it last started, "loaded".  A run of the tool is a sequence *)
(* of HTTP requests; between any two of them somebody else may save a form *)
(* or restart the application, and any of them may fail, which ends the    *)
(* run where it stands (Die).                                              *)
(*                                                                         *)
(* The tool looks for the robot's nodes with "ros2 node list", which the   *)
(* ROS 2 daemon of the host answers: it may list what it once heard of.    *)
(*                                                                         *)
(* The namespace, the profile and ntp.conf are what is said about them,    *)
(* not their text; a saved text comes back with its whitespace rewritten.  *)
(* The robot's clock is not modelled: a reading of it may say anything.    *)
(***************************************************************************)
EXTENDS Naturals

CONSTANTS
  Names,          \* namespaces, without their slash
  Domains,        \* domain ids
  Rmws,           \* RMW implementations
  Hosts,          \* addresses the NUC may have
  Safeties,       \* values of safety_override
  Unset,          \* None: an option not typed, an empty text
  DefaultName,    \* DEFAULT_NAMESPACE
  DefaultDomain,  \* DEFAULT_DOMAIN_ID, and that of the NUC
  DefaultRmw,     \* DEFAULT_RMW
  DefaultNuc,     \* DEFAULT_NUC
  Globals,        \* the options that may be typed before a command
  Typings,        \* the options that may be typed after it
  Meddled,        \* the forms that others save
  Factory         \* the settings the robot is found with

Forms == {"main", "params", "rmw", "ntp"}

\* argparse lets a namespace be typed with its slash or without.
Namespaces == [name : Names, slash : BOOLEAN]

OptionValues ==
  [ns : Namespaces, domain : Domains, rmw : Rmws, nuc : Hosts,
   safety : Safeties \cup {Unset}, dry : BOOLEAN, yes : BOOLEAN]

Text(S) == [says : S \cup {Unset}, tidy : BOOLEAN]

\* The fields of the main form that are compared: fast discovery is "server".
MainForm == [ns : Namespaces, domain : Domains, rmw : Rmws, server : BOOLEAN]

Settings == [main   : MainForm,
             params : Text([ns : Namespaces, safety : Safeties]),
             rmw    : Text(Hosts),
             ntp    : Text(Hosts)]

Defaults == [ns |-> [name |-> DefaultName, slash |-> TRUE], domain |-> DefaultDomain,
             rmw |-> DefaultRmw, nuc |-> DefaultNuc, safety |-> Unset,
             dry |-> FALSE, yes |-> FALSE]

\* The options t, and those of d where t leaves one out.
Overlay(t, d) == [o \in DOMAIN d |-> IF t[o] = Unset THEN d[o] ELSE t[o]]

ASSUME ConfigAssumption ==
  /\ DefaultName \in Names /\ DefaultDomain \in Domains
  /\ DefaultRmw \in Rmws /\ DefaultNuc \in Hosts
  /\ \A t \in Globals \cup Typings : Overlay(t, Defaults) \in OptionValues
  /\ Factory \in Settings /\ Meddled \subseteq Forms

VARIABLES
  flash,   \* the settings the robot stores
  loaded,  \* the settings its application runs with
  app,     \* the application: "up", "stopping" (still up), "starting"
  torn,    \* ghost: forms were saved and the restart that loads them given up
  heard,   \* the namespaces that the host's ROS 2 daemon has heard nodes of
  run      \* the tool's process, or how the last one ended

robotVars  == <<flash, loaded, app, torn, heard>>
configVars == <<robotVars, run>>

Commands == {"show", "apply", "restart-app", "restart-ntpd", "reboot"}

\* "applied", "stale" and "assumed" are one to the operator: the nodes were listed
\* and are there, were listed from memory, or were taken to be there.
Outcomes == {"none", "unreachable", "uptodate", "dry", "aborted", "applied",
             "stale", "assumed", "notclean", "done", "failed", "died"}

\* The ways in which apply ends when it has posted all there was to post.
Completed == {"uptodate", "applied", "stale", "assumed", "notclean"}

Runs ==
  [phase     : {"idle", "read", "confirm", "post", "settle", "wait"},
   command   : Commands,
   opts      : OptionValues,        \* args
   want      : Settings,            \* desired
   todo      : SUBSET Forms,        \* the changes still to be posted
   outcome   : Outcomes,            \* how the run ended
   fresh     : BOOLEAN,             \* ghost: nobody saved since the tool read
   dryAsked  : BOOLEAN]             \* ghost: --dry-run was typed, wherever

NoRun ==
  [phase |-> "idle", command |-> "show", opts |-> Defaults, want |-> Factory,
   todo |-> {}, outcome |-> "none", fresh |-> FALSE, dryAsked |-> FALSE]

-----------------------------------------------------------------------------
(* Reading, comparing and planning. *)

Rooted(ns) == [ns EXCEPT !.slash = TRUE]

\* Variant: the texts are compared as they are.
NormExact(t) == t

\* norm: what a text says, whatever its whitespace.
Norm(t) == t.says

DesiredMain(o) ==
  [ns |-> Rooted(o.ns), domain |-> o.domain, rmw |-> o.rmw, server |-> FALSE]

\* Variant: the parameters are always written from the template.
DesiredWithSafety(o, cur) ==
  [main   |-> DesiredMain(o),
   params |-> [says |-> [ns |-> Rooted(o.ns), safety |-> CHOOSE s \in Safeties : TRUE],
               tidy |-> FALSE],
   rmw    |-> [says |-> o.nuc, tidy |-> FALSE],
   ntp    |-> [says |-> o.nuc, tidy |-> FALSE]]

\* build_desired.  The parameters are rewritten only if --safety names a value.
Desired(o, cur) ==
  [main   |-> DesiredMain(o),
   params |-> IF o.safety = Unset THEN cur.params
              ELSE [says |-> [ns |-> Rooted(o.ns), safety |-> o.safety],
                    tidy |-> FALSE],
   rmw    |-> [says |-> o.nuc, tidy |-> FALSE],
   ntp    |-> [says |-> o.nuc, tidy |-> FALSE]]

\* Variant: main_fields forgets the discovery server.
DiffersButServer(cur, des, f) ==
  IF f = "main" THEN \E k \in {"ns", "domain", "rmw"} : cur.main[k] # des.main[k]
                ELSE Norm(cur[f]) # Norm(des[f])

Differs(cur, des, f) ==
  IF f = "main" THEN cur.main # des.main ELSE Norm(cur[f]) # Norm(des[f])

\* plan: the forms that need posting.
Plan(cur, des) == {f \in Forms : Differs(cur, des, f)}

\* plan lists the forms in this order.
Rank == [main |-> 1, params |-> 2, rmw |-> 3, ntp |-> 4]

IsNext(f, S) == f \in S /\ \A g \in S : Rank[f] <= Rank[g]

\* The web UI rewrites the whitespace of a text it saves.
Saved(v, f) == IF f = "main" THEN v ELSE [v EXCEPT !.tidy = TRUE]

\* Where the host hears the nodes of an application with settings s: not at all
\* in another domain.
Audible(s) == IF s.main.domain = DefaultDomain THEN {s.main.ns.name} ELSE {}

\* The nodes of the namespace are on the network.
Live(ns) == ns.slash /\ app # "starting" /\ ns.name \in Audible(loaded)

\* The daemon may list the nodes of the namespace.
Listed(ns) == ns.slash /\ ns.name \in heard

\* The application is told to go down, or goes down; one that is starting starts
\* anew.
GoesDown == app' = IF app = "up" THEN "stopping" ELSE app

-----------------------------------------------------------------------------
(* A run of the tool. *)

\* The process r ends with o; of a completed apply, what it wanted is noted.
Ended(r, o) ==
  IF o \in Completed
    THEN [NoRun EXCEPT !.outcome = o, !.want = r.want, !.fresh = r.fresh]
    ELSE [NoRun EXCEPT !.outcome = o]

End(o) == run' = Ended(run, o)

\* The options of a command: its subparser has the defaults of its own and
\* writes them over whatever was typed before the command.
Parsed(before, after) == Overlay(after, Defaults)

FirstPhase(c, o) ==
  CASE c \in {"show", "apply"}              -> "read"
    [] c \in {"restart-app", "restart-ntpd"} -> "post"
    [] c = "reboot"                         -> IF o.yes THEN "post" ELSE "confirm"

\* main, up to the handler.  No command at all is "show".
Invoke(c, before, after) ==
  /\ run.phase = "idle"
  /\ LET o == Parsed(before, after)
     IN run' = [NoRun EXCEPT !.phase = FirstPhase(c, o), !.command = c, !.opts = o,
                  !.dryAsked = Overlay(after, Overlay(before, Defaults)).dry]
  /\ UNCHANGED robotVars

\* GET home fails.
Unreachable == run.phase = "idle" /\ End("unreachable") /\ UNCHANGED robotVars

ShowRead ==
  /\ run.phase = "read" /\ run.command = "show" /\ End("done")
  /\ UNCHANGED robotVars

\* Variant: a dry run skips the prompt instead of the posts.
AfterPlanUnprompted(r) ==
  IF r.todo = {} THEN Ended(r, "uptodate")
  ELSE [r EXCEPT !.phase = IF r.opts.yes \/ r.opts.dry THEN "post" ELSE "confirm"]

\* What apply does when it has compared.
AfterPlan(r) ==
  CASE r.todo = {}                 -> Ended(r, "uptodate")
    [] r.todo # {} /\ r.opts.dry   -> Ended(r, "dry")
    [] OTHER -> [r EXCEPT !.phase = IF r.opts.yes THEN "post" ELSE "confirm"]

\* The three pages are read and compared.
ApplyRead ==
  /\ run.phase = "read" /\ run.command = "apply"
  /\ LET desired == Desired(run.opts, flash)
     IN run' = AfterPlan([run EXCEPT !.want = desired, !.todo = Plan(flash, desired),
                                         !.fresh = TRUE])
  /\ UNCHANGED robotVars

Confirm(yes) ==
  /\ run.phase = "confirm"
  /\ IF yes THEN run' = [run EXCEPT !.phase = "post"] ELSE End("aborted")
  /\ UNCHANGED robotVars

PostForm(f) ==
  /\ run.phase = "post" /\ IsNext(f, run.todo)
  /\ flash' = [flash EXCEPT ![f] = Saved(run.want[f], f)]
  /\ run' = [run EXCEPT !.todo = @ \ {f}]
  /\ UNCHANGED <<loaded, app, torn, heard>>

\* Variant: the application is restarted for a new DDS profile only.
PostRestartForProfile ==
  /\ run.phase = "post" /\ run.command # "restart-ntpd" /\ run.todo = {}
  /\ IF run.want.rmw.says = loaded.rmw.says THEN UNCHANGED app ELSE GoesDown
  /\ run' = [run EXCEPT !.phase = "settle"]
  /\ UNCHANGED <<flash, loaded, torn, heard>>

\* POST api/restart-app or api/reboot.
PostRestart ==
  /\ run.phase = "post" /\ run.command # "restart-ntpd" /\ run.todo = {}
  /\ GoesDown /\ run' = [run EXCEPT !.phase = "settle"]
  /\ UNCHANGED <<flash, loaded, torn, heard>>

\* Variant: the nodes are looked for at once.
SettleAtOnce ==
  /\ run.phase = "settle" /\ run' = [run EXCEPT !.phase = "wait"]
  /\ UNCHANGED robotVars

\* The sleep after the restart: the application is gone before it ends.
Settle ==
  /\ run.phase = "settle" /\ app # "stopping"
  /\ run' = [run EXCEPT !.phase = "wait"]
  /\ UNCHANGED robotVars

Awaited == IF run.command = "apply" THEN run.want.main.ns ELSE Rooted(run.opts.ns)

\* wait_for_nodes: all nodes are listed; or the ros2 command cannot be had or
\* takes too long, which counts as good for every command; or the deadline passes.
\* Before apply ends it reads the clock and may restart ntpd.
WaitNodes ==
  /\ run.phase = "wait"
  /\ IF run.command = "apply"
       THEN \/ Listed(Awaited) /\ End(IF Live(Awaited) THEN "applied" ELSE "stale")
            \/ End("assumed")
            \/ End("notclean")
       ELSE End("done") \/ End("failed")
  /\ UNCHANGED robotVars

\* restart-ntpd: the clock is read until it is right, twelve times at most.
RestartNtpd ==
  /\ run.phase = "post" /\ run.command = "restart-ntpd"
  /\ \E o \in {"done", "failed"} : End(o)
  /\ UNCHANGED robotVars

\* A request or its answer is lost, or the operator interrupts: the exception
\* ends the run.  A request lost after it took effect is the step that took
\* effect, and then this one.
Die ==
  /\ run.phase # "idle" /\ End("died")
  /\ torn' = (torn \/ (run.phase = "post" /\ run.command = "apply"))
  /\ UNCHANGED <<flash, loaded, app, heard>>

ToolStep ==
  \/ \E c \in Commands, before \in Globals, after \in Typings :
       Invoke(c, before, after)
  \/ Unreachable \/ ShowRead \/ ApplyRead
  \/ \E yes \in BOOLEAN : Confirm(yes)
  \/ \E f \in Forms : PostForm(f)
  \/ PostRestart \/ Settle \/ WaitNodes \/ RestartNtpd
  \/ Die

-----------------------------------------------------------------------------
(* The robot, and others who use its web UI. *)

AppStops ==
  /\ app = "stopping" /\ app' = "starting"
  /\ UNCHANGED <<flash, loaded, torn, heard, run>>

AppStarts ==
  /\ app = "starting" /\ app' = "up" /\ loaded' = flash /\ torn' = FALSE
  /\ heard' = heard \cup Audible(flash)
  /\ UNCHANGED <<flash, run>>

\* Somebody puts a form back to what it was.
OtherSave(f) ==
  /\ flash' = [flash EXCEPT ![f] = Factory[f]]
  /\ torn' = TRUE /\ run' = [run EXCEPT !.fresh = FALSE]
  /\ UNCHANGED <<loaded, app, heard>>

\* The application goes down: restarted by somebody else, crashed, or the robot
\* lost power.
OtherRestart == GoesDown /\ UNCHANGED <<flash, loaded, torn, heard, run>>

RobotStep == \/ AppStops \/ AppStarts \/ OtherRestart
             \/ \E f \in Meddled : OtherSave(f)

ConfigInit ==
  /\ flash = Factory /\ loaded = Factory /\ app = "up" /\ torn = FALSE
  /\ heard = Audible(Factory) /\ run = NoRun

ConfigNext == ToolStep \/ RobotStep

\* The operator runs the tool again and again, a run takes its next step, and an
\* application that was told to stop stops.
ConfigFairness == WF_configVars(ToolStep) /\ WF_configVars(AppStops)

ConfigSpec == ConfigInit /\ [][ConfigNext]_configVars /\ ConfigFairness

-----------------------------------------------------------------------------
(* Properties. *)

\* The variables have their types.
ConfigTypeOK ==
  /\ flash \in Settings /\ loaded \in Settings
  /\ app \in {"up", "stopping", "starting"}
  /\ torn \in BOOLEAN /\ heard \subseteq Names /\ run \in Runs

\* configure_create3.py: "Run it twice and the second run reports 'already up to
\* date' and touches nothing."  When apply has ended, however the robot came up,
\* comparing the robot with what was asked for finds no form to post, unless
\* somebody else saved one since the tool had read them.
SecondRunFindsNothing ==
  run.outcome \in Completed /\ run.fresh => Plan(flash, run.want) = {}

\* "Configuration applied and the robot is publishing", as far as it is so: when
\* the nodes that were listed were on the network, they are those of an application
\* that loaded what was asked for and not of the one that was running before.  Of a
\* list from the daemon's memory ("stale") and of no list ("assumed") the message
\* says the same and means nothing.
AppliedMeansLoaded ==
  run.outcome = "applied" /\ run.fresh => Plan(loaded, run.want) = {}

\* An application never runs with other settings than the robot stores, except
\* while they are being posted or because a run was broken off between a form
\* and the restart, or somebody saved a form and left it at that.
UnloadedOnlyIfTorn ==
  app = "up" /\ loaded # flash
    => torn \/ (run.phase = "post" /\ run.command = "apply")

\* build_desired: safety_override "is only ever rewritten when the operator names
\* a value explicitly".  Whatever else a run rewrites, and whatever somebody else
\* did to the parameters since it read them, it posts none it was not asked to.
SafetyOnlyWhenNamed ==
  [][flash'.params # flash.params /\ ~OtherSave("params")
       => run.opts.safety # Unset]_configVars

\* A step of runs of apply with options o that nothing breaks, among robot steps
\* that save nothing.
Steady(o) ==
  /\ run.phase = "idle" /\ run'.phase # "idle"
       => run'.command = "apply" /\ run'.opts = o
  /\ run'.outcome \notin {"died", "unreachable", "aborted", "dry"}
  /\ \A f \in Meddled : ~OtherSave(f)

\* Repeating apply stores what a run that broke off anywhere left to store: once
\* requests get through and nobody else saves, every run of apply with the same
\* options is in the end told that the robot is up to date, and what is stored is.
\* What the application runs with is so too, unless a run broke off before its
\* restart: no later run makes up for that.
RetriesConverge ==
  \A o \in {Overlay(t, Defaults) : t \in Typings} :
    <>[][Steady(o)]_configVars
      => <>[](run.phase = "idle" =>
                /\ run.outcome = "uptodate" /\ Plan(flash, run.want) = {}
                /\ app = "up" /\ ~torn => Plan(loaded, run.want) = {})

\* The run sends the robot a form or a restart.
Sends == PostRestart \/ \E f \in Forms : PostForm(f)

\* "--dry-run: nothing was sent to the robot."  Whatever the settings were found to
\* be, whoever saves them meanwhile and however the run ends, an apply that was
\* parsed as a dry run posts no form, prompts for none and restarts nothing.
DryRunHonoured ==
  [][run.command = "apply" /\ run.opts.dry
       => ~Sends /\ ~\E yes \in BOOLEAN : Confirm(yes)]_configVars

\* scripts/README.md: options are accepted "before or after the subcommand" and
\* --dry-run is to "show the diff without sending anything".
DryRunSendsNothing ==
  [][run.command = "apply" /\ run.dryAsked => ~Sends]_configVars
=============================================================================
