# Verification of the Create 3 web console

TLA+ specifications of the programs in this repository, the TLC runs that check
them on small instances, and TLAPS proofs of their main properties for every
value of the parameters. Paths below are relative to the root of the repository;
`ros_node.py`, `server.py`, `main.py` and `admin.py` are in
`src/create3_web/create3_web/`, `app.js` in `src/create3_web/web/`.

## 1. The system

| Component | State it keeps | Operations | Talks to |
|---|---|---|---|
| Node, teleop (`ros_node.py`) | command register `_cmd`, its time `_cmd_time`, `_estop`, one mutex | `set_twist`, `stop`, `set_estop`; the 20 Hz timer `_publish_cmd` | publishes `cmd_vel`; called by the web server |
| Node, dock/undock (`ros_node.py`) | one goal handle, one status line | `start_action`, `cancel_action`, goal response and result callbacks | the robot's action servers |
| Node, telemetry (`ros_node.py`) | last value and time per topic | subscription callbacks, `snapshot` | topics of the robot; the server's telemetry pump |
| `ControlLock` (`server.py`) | holder, label, last time heard | `acquire`, `release`, `touch`, `status` | the websocket and e-stop handlers |
| Web server (`server.py`) | open websocket sessions, the lock | one handler per message and endpoint, the telemetry pump, the clean-up of a session | lock and node; browsers |
| Process (`main.py`) | executor thread, event loop | start, final stop, shutdown | all of the above |
| Admin panel (`admin.py`) | none of its own | config, preflight, restart-app, reboot | robot's web server, scripts, node |
| Browser page (`app.js`) | copies of control and e-stop, keys held | buttons, keys, command loop, heartbeat, reconnect | websocket and REST |
| Robot configuration (`scripts/configure_create3.py`) | the robot's forms | plan, apply, restart, verify | robot's web server |
| Preflight (`scripts/preflight_create3.sh`, `scripts/deps/`) | counters | layered checks, early ends, exit status | network, robot, ROS graph |
| Host bootstrap (`scripts/bootstrap_host.sh`) | files and services of the host | idempotent steps, dry run | the host |
| Odometry republisher (`src/odom_repub/`) | none | one forwarding callback | two topics |
| Launch files, containers | none | process start | - |

### Threads

The node is spun by an executor whose threads run the timer, the subscription
and the goal callbacks. The web handlers run on one asyncio loop in the main
thread and call the node directly, so both sides meet in the node's fields. The
mutex guards each access and is released before anything is published; what is
interleaved is therefore *read, publish* of the timer against *write, publish*
of `stop()` and `set_estop()`, and the accesses of several goal callbacks
against each other and against a cancellation. (`main.py:5-6` says that no ROS
object is touched from the event loop; the handlers do publish and send goals.)

### What makes it correct, and hard to test

- The robot obeys the last message on `cmd_vel`. A velocity read before a stop
  may be published after the stop's zero. It must not stay.
- A silent client must lead to zero, once, and then to silence, so that nav2 may
  drive; the node must not go silent before the zero is out.
- Control passes between sessions by release, by a closed tab, by an e-stop, or
  by a lease that lapses only when somebody looks. No velocity of a former
  driver may survive the passage.
- The e-stop is open to everybody, takes the lock away, blocks commands and
  cancels actions, at any moment of all the other protocols.
- One handle and one status line serve any number of goals, whose responses and
  results come in any order or never.
- Ages come from the wall clock, which chrony steps.
- The page acts on copies of control and e-stop that it was sent some time ago.
- The configuration tool changes the robot in several requests, each of which may
  fail, while the robot restarts and others use the same forms.

`PROJECT.json` lists these at their lines, with the property that covers each.

## 2. The modules

| Module | Models | Built on |
|---|---|---|
| `Teleop` | the velocity path of the node, event loop against timer, and `main()`'s shutdown | |
| `TeleopClock` | the same under steps of the wall clock | `Teleop` |
| `TimedLease` | abstract: a lease that ends on time | |
| `ControlLock` | the lease, method by method | refines `TimedLease` |
| `ExclusiveDrive` | abstract: who owns and who drives the robot | |
| `WebServer` | websocket, REST and admin handlers over lock and node | `Teleop`, `ControlLock`; refines `ExclusiveDrive` |
| `DockClient` | dock and undock goals, their callbacks, cancellation, the robot | |
| `Console` | the page, its socket and the server's telemetry; who is told what, how late | `ControlLock` |
| `RobotConfig` | the configuration tool and the robot it writes to | |
| `AdminPanel` | the panel's preflight beside runs of the tool | `RobotConfig` |
| `MCTeleop`, `MCTeleopClock`, `MCWebServer`, `MCConsole`, `MCAdminPanel` | constants for TLC | |
| `TeleopProofs`, `ClockProofs`, `LockProofs`, `WebProofs`, `DockProofs`, `ConfigProofs`, `PanelProofs`, `ConsoleProofs` | theorems | the module each is named for |

An operator under a comment `Variant` is a plausible bug in the operator that
follows it. No specification uses one. Each property is known to be violated when
some variant takes the place of the operator it varies, which shows that the
property depends on the code and not on the shape of the model.

### Teleop

| TLA+ | Code |
|---|---|
| `cmd`, `cmdAge`, `estop` | `_cmd`, `time.time() - _cmd_time`, `_estop` |
| `timer`, `timerOut` | a `_publish_cmd` in progress and the velocity it has read |
| `loop` | the event loop between the mutex and the `publish` of `stop`/`set_estop` |
| `wire` | the last Twist on `cmd_vel` |
| `life` | `main()`: serving, in its `finally`, executor shut down |
| `sinceRead`, `zeroAge` | no counterpart: time since the timer read, since the register was zeroed |
| `SetTwist`, `StopWrite`/`LoopPublish`, `SetEstop`/`LoopPublish` | `set_twist`, `stop`, `set_estop` |
| `TimerTake`/`TimerPublish`, `TimerSkip` | `_publish_cmd` publishing, and keeping quiet |
| `MainStop`, `ExecutorShutdown` | `main.py:82-91` |
| `Reported` | the command in `snapshot()`, worked out from another reading of the clock than the timer's |

The linear and angular components are treated alike by the code, so one integer
stands for both. Time is a counter of ticks; an age stops growing at `AgeCap`,
which is beyond every threshold it is compared with.

*The scheduling assumption.* Nothing in the code says how late a timer callback
may be. `Stall` is the largest number of ticks between two reads of the register,
a parameter (`Tick` does not pass it); every bound is stated from it. The one
thing asked of it is `Stall < Grace`: an executor that stalled for a whole second
could find the window for asserting zero closed and leave the robot moving.

### TeleopClock

`ClockStep(d)` adds `d` to the age the code computes and to nothing else.
`trueAge` and `estopAge` count the time that really passed.

### ControlLock

Each method is an operator from a lock to a lock; a handler that calls `touch`
and then `acquire` composes them. `idle` is the age of `_last_seen`. Expiry is
lazy, as in the code: a lapsed holder stays in the record until `Expire` looks,
and `release` does not look. `TimedLease` is what a client may take it for: an
owner, who loses the lease at the tick after `Lease` ticks of silence. The two
are related by `Owner` and `Silent`, which count a holder that has lapsed as
nobody although no call has swept it out yet.

### WebServer

A handler is one step up to its next `await`. Two things inside a handler are
visible to other threads and are steps of their own: the publication after a stop
(`LoopPublish`), and the time `start_action` blocks the loop in
`wait_for_server` (`waiting`: no handler runs, the timer does). A malformed
message touches the lock and then ends the session through the `finally` of its
handler (`OnBadMessage`). `acting`, `lastDriver` and `fenced` are ghosts. The
token check, the static files and the text of the replies are left out.

### DockClient

`phase[g]` is the node's side of a goal: requested, tracked (its handle stored
and its result asked for), settling (handle dropped, not yet reported), done.
`robot[g]` is the robot's side, external: it decides, executes, finishes, cancels
when asked, or restarts and forgets the goal. `cancel_action` is three steps
(read the handle under the mutex, `CancelRead`; send the request to the handle
read, `CancelSend`; report "cancelled"), and `_on_goal_result` is two (drop the
handle; report), because callbacks run in between: a request may go out to a goal
whose result has come meanwhile, which `NoStaleHandle` does not exclude. A
future that is already done when `add_done_callback` is called runs its callback
in the calling thread, the event loop's, beside those the executor runs.

### Console

`WebServer` has sessions without their clients; `Console` has the client. `up` and
`down` are the two directions of a page's websocket, `shown` is `hasControl` and
`estopEngaged`, `nth` counts the page's sessions, because the server gives a
reconnecting page a new identifier while the handler of the old one may still
run. A lost socket takes with it what was under way and is noticed by each end
when it pleases. The velocity has no part in it: a twist, a stop and a ping do
the same to the lock and are one message, "touch". `Others` are sessions seen
from outside: they may send anything, so one page in front of them stands for any
page among any number. The pump is one round per session and tick or more
(`Pump`); the code's ten per second are more than the bound needs.

One tick is a second. Three delays are assumed and stated in `Pass`: a message is
under way for less than a tick; what has arrived waits for less than a tick while
the event loop runs; and when a dock request has blocked the loop, what waited
meanwhile is handled before the next one blocks it again (`rested`). The last is
not enforced by anything in the code: dock requests that queue up one behind the
other while no action server answers block the loop for two seconds each, and
enough of them outlast any lease. `wrong` is a ghost that counts for how long the
`watched` badge has differed from the fact; one badge, chosen at the start, keeps
the state space small.

### RobotConfig

| TLA+ | Code |
|---|---|
| `flash`, `loaded`, `app` | external: the robot's stored settings, those its application runs, its application up, told to stop, or starting |
| `run.phase`, `run.command`, `run.opts` | where the process is, and `args` |
| `run.want`, `run.todo` | `desired`, and what is left of `changes` |
| `run.outcome` | how the last run ended: its exit status and last line |
| `Norm`, `Desired`, `Plan` | `norm`, `build_desired`, `plan` |
| `heard`, `Listed` | external: the memory of the host's ROS 2 daemon, and what `ros2 node list` may answer from it; `Live` is what is on the network |
| `Parsed`, `Invoke`, `Unreachable` | `main()`: the parsers, the handler, the first GET |
| `ApplyRead`, `Confirm`, `PostForm`, `PostRestart`, `Settle`, `WaitNodes` | `cmd_apply`; the last three also `cmd_restart_app` and `cmd_reboot` |
| `Die` | an exception out of any request, or Ctrl-C |
| `torn`, `fresh`, `dryAsked` | no counterpart |

A text is what it says and whether its whitespace is as the web UI writes it
(`tidy`): `Saved` tidies, `norm` does not see it. A request that took effect and
whose answer was lost is the effect followed by `Die`. The robot's clock may read
anything, so the tail of `apply` that compares it and restarts ntpd leaves no
trace here. One assumption is made of the robot: an application told to stop has
stopped before the sleep after the restart request is over (`Settle`). Without it
the tool would find the old nodes and call them the new ones, which is the
mutant `SettleAtOnce`.

The tool runs plain `ros2 node list` (`configure_create3.py:311`), which the
host's daemon answers from a graph it may have cached
(`preflight_create3.sh:358-366`, `docs/tutorials/04_dds_pitfalls.md:21-23`). So
`Listed` is about what the daemon ever heard of, and the model tells three endings
of `apply` apart which print the same: "applied" (listed, and on the network),
"stale" (listed from memory only: the application is down, or has moved to another
domain) and "assumed" (no `ros2` command, or a slow one). `AppliedMeansLoaded` is
about the first. Of the other two nothing can be promised. For `restart-app` and
`reboot` all three are "done".

### AdminPanel

`probe` is a preflight in progress or the answer shown for the last one. Layers 1
to 3 look at the host and the cable and come out either way. Layer 4 judges the
*stored* settings (`Judged`, `Passes`); layer 5 hears the application that runs.
The panel's own requests to restart are `OtherRestart`, which the tool has to
live with. `Passes` has the checks of layer 4 that fail: domain, RMW, discovery
server, peer and time server; the namespace only warns. `AppliedPasses` says of
which runs of `apply` they hold: those for this NUC's domain, RMW and address, and
no others (`apply --domain-id 5` completes and fails layer 4). Layer 5 uses
`--no-daemon`, hence `Live`.

## 3. What TLC checks

| Run | Instance | Distinct states | Shows |
|---|---|---|---|
| `teleop` | limit 1, requests -2, 0, 1, 3; `Deadman`=5, `Grace`=3, `Stall`=2, `AgeCap`=10 | 7 023 | deadman, quiet only when standing, stop and e-stop bounds, the report against the topic |
| `teleop_clock` | `Deadman`=2, `AgeCap`=7, clock steps of +6 and -6 | 390 410 | the e-stop stops the robot whatever the clock does |
| `control_lock` | 3 clients, `Lease`=20 | 154 | labels, no theft, a silent holder loses the lock (liveness), refinement of `TimedLease` |
| `web_server` | 2 sessions (symmetric), requests -2 and 0, `Deadman`=1, `Grace`=2, `Stall`=1, `Lease`=3 | 111 376 | one driver, lock of open sessions, e-stop fence, lapse only when standing, a robot nobody controls is halted, refinement of `ExclusiveDrive` |
| `dock_client` | a dock and an undock goal | 124 545 | handle, status line and e-stop agree with the goals; goals settle (liveness) |
| `console` | one page with 2 sessions, another session, 2 messages per direction; `Lease`=5, `PingPeriod`=2, `Block`=2 | 1 131 094 | a live driver keeps the lock, and loses it in three ways only; no badge is wrong for longer than `Block` + 1 |
| `robot_config` | 2 namespaces, domains, RMWs and hosts, 2 values of `--safety`, three ways of typing options, others save the parameters | 124 133 | what apply stores is what was asked for, and passes layer 4 if that was for this NUC, a repeated apply converges (liveness), safety is written only when named, a dry run sends nothing, a full green light is earned |
| `teleop_shutdown`, `clock_backward`, `web_action`, `dock_estop`, `dry_run` | as above | | counterexamples, section 5 |

*Why these bounds are enough.* The teleop code compares ages with two thresholds
only; the values leave states strictly inside, on and beyond each, with `Deadman`
longer than two timer periods as in the code, so that the windows of
`ReportMatchesWire` are apart; in `teleop_clock` a callback is overtaken by a
whole deadman. A clock step of 6 crosses both thresholds at once. In the server a third session can do nothing to
the first two that one of them cannot do to the other: the lock tells apart the
holder and the rest. Two goals of different kinds are the least that overlap, and
either may be sent first. In `console` the periods are those of the code, but for
the lease, which is half as long: `LiveDriverKeeps` still holds for `Lease`=4 and
fails for 3, which `ConsoleAssumption` rules out, and `BadgesHonest` fails with one tick less, so neither holds for
want of time. Two sessions of the page are a reconnect; two messages per
direction let an answer and a telemetry message, or a click and a ping, be under
way together. In `robot_config` the parameters are the form that others save,
because it is the one whose text the tool copies from the robot; the three ways
of typing are nothing, a dry run, and an unattended run with another namespace,
domain and RMW and a value for `--safety`; the other domain makes the daemon's
memory and the network differ. The robot is found with another NUC as its peer
and with the right ntp.conf, so that a plan may leave forms out. `--nuc` itself is
left at its default: varying it varies two more forms and takes the state space
from 124 thousand to half a million without a new kind of behaviour, and
`AppliedPassesHolds` has it for every address. The theorems of section 4 remove the bounds for
everything but the liveness properties.

*Fairness.* `control_lock`: time passes, and somebody looks at the lock, which the
telemetry pump of any open page does ten times a second. `dock_client`: the event
loop finishes the handler it is in (`LoopWork`), the executor runs a callback
that is due (`Callbacks`), and the robot decides on a goal and brings it to an
end (`RobotDecides`, `RobotFinishes`). The last is the robot's duty, not this
code's, and `ActionSettles` is stated for behaviours in which the robot's
application does not restart under a goal: when it does, no result ever comes and
"active" stays, since nothing in the node times out. `robot_config`: the operator runs the tool again and again and a run takes its
next step (`WF` of `ToolStep`), and an application told to stop stops. That
requests get through is not assumed of all behaviours: `RetriesConverge` is about
those in which, from some point on, they do, nobody else saves, and the operator
types the same options. No other specification assumes fairness.

*Deadlock* is checked in every run. A process that has ended takes `Exited` steps.

## 4. What is proved

For every value of the constants that the named assumptions admit:
`SpeedAssumption`, `TimingAssumption` (`0 < Stall < Grace`, caps beyond the
thresholds), `LockAssumption`, `ConsoleAssumption`, `LeaseAssumption`
(`Deadman + 2 * Stall <= Lease`; the code has 0.4 s against 10 s),
`GoalAssumption`, `ConfigAssumption`. What is proved of `Teleop`, `ControlLock`
and `RobotConfig` is stated again of the modules that compose them with others.

**Teleop.** `TypeCorrect`, `DeadmanHolds`, `QuietHolds`, `StopHolds`,
`EstopHolds`. `DeadmanBound` and `StopBound` are not inductive: what a velocity on
the wire may still mean depends on where the timer is between its read and its
publication. `DeadmanInv` compares the age of the command with the time since
that read: `cmdAge - sinceRead` is the age at which it was read, at most
`Deadman` for the velocity a callback holds and for the one on the wire, and
`Stall` more while the next callback is about to replace it. `StopInv` says the
same of the time since the register was zeroed. Both need that a quiet node has
nothing on the wire, which `DeadmanInv` yields together with `Stall < Grace`.

**ControlLock.** `LabelHolds`, `HolderKeeps` (`NotStolen`), and one lemma per
method on what it does to holder and age. `LazyLease` is the refinement of
`TimedLease`: a lazily expired lease is as good as one that ends on time. Each
method keeps the owner, renews it for one client, or leaves nobody (`Keeps`,
`Renews`, `Frees`); `MovesTwice` composes two methods into one such move, which is
what the handlers need: `ServerLease` and `ConsoleLease` state the refinement of
the server and of the server behind pages and sockets, where one handler calls the
lock up to three times and a clock tick may come between any two handlers. Likewise
`LabelKept`, on the labels each method leaves, yields `LabelHolds` and
`ServerLabel`, and `ServerHolderKeeps` is `NotStolen` of the handlers: its own
release, the end of its own session and an e-stop are all that takes the lock from
a holder within its lease.

**WebServer.** `ServerImplementsTeleop`: the server is a client of the node, so
each theorem of `Teleop` holds of it (`ServerDeadman`, `ServerStop`,
`ServerQuiet`, `ServerReport`). What is new
is `DriverInv`: a fresh velocity in the register was sent by the holder of the
lock, who has been heard since (`lock.idle <= cmdAge`), so its lease cannot lapse
under it. With `FenceInv` (nobody holds the lock between an e-stop and the next
grant) it gives `OneDriver`, `HolderIsOpen`, `EstopFences` and the refinement of
`ExclusiveDrive` (`Refinement`). `LapseHolds` repeats the argument of
`DeadmanInv` with the age of the lease in the place of the age of the command
(`LapseInv`). `NobodyStands` is the other side of `OneDriver`: whichever way
control ended (release, lapse, closed tab, e-stop), the command is zero and has
been for two timer periods before anything else can be on the wire. It needs
that whoever drives was heard within the deadman and two periods, so that a holder
who has lapsed cannot still have a velocity on the wire (`DriverInv`).

**DockClient.** `HandleFresh`, `ActiveHonest`, `SuccessHonest`, `EstopCancels`,
`GoalsClear`, for any number of goals. `DockInv` adds that the loop does not wait
for an action server under the e-stop (`WaitsClear`), that without overlap only
the latest goal is outstanding and its handle is the one kept (`OneGoal`), and
carries `EstopCancelsHeld` from the step in which the handle is read to the one
in which the request goes out (`CancelInv`).

**TeleopClock.** `EstopStopsAlways`: with the age of the command worthless,
`EstopInv` compares the time since the engagement with the time since the timer's
last read; a velocity that outlives the engagement was read before it.
`DeadmanTolerance` says how much of a clock error the deadman stands. While the
age the node computes is behind the true one by at most `lag` ticks and ahead by
at most `lead`, and `lag + lead + Stall < Grace`, the robot stands
`Deadman + lag + 2 * Stall` after the last command. `AheadIsPunctual` is the case
`lag = 0`: a clock that was only put forward, and by less than that, delays
nothing. The condition cannot be relaxed: with `lag + lead + Stall = Grace` TLC
finds a node that goes quiet on a moving robot. With the code's values it allows
for errors of almost a second in all, which an NTP daemon that slews keeps and one
that steps does not.

**RobotConfig.** `DryRunHolds` needs that a dry run of apply is never beyond its
reading (`DryReads`): what was parsed *after* the command is honoured, whoever
saves meanwhile; what was typed before it is the finding `dry_run`. `SafetyHolds`
needs that in a run without `--safety` the
parameters are never to be posted (`QuietParams`). `SecondRunHolds` needs
`AfterRead`: while nobody else saved, every form that differs from what is wanted
is still to be posted, and the restart comes after the last. `AppliedHolds`
needs `Reloaded`: after the restart request an application
that is up has loaded what is stored. It is about lists that the network bears
out; whether it does is not assumed but a case of `WaitNodes`. `UnloadedHolds`
needs that nothing is left to post when the restart is.

**AdminPanel.** `PanelImplementsConfig`: with the panel beside it the tool behaves
as without, so its theorems hold of the composition (`PanelSecondRun`,
`PanelApplied`, `PanelUnloaded`, `PanelSends`). `GreenHolds` needs
`Judgement` (a ladder that has not failed by layer 5, with nothing saved since it
read, has read settings that pass), `AppliedPassesHolds` needs `WantsPeer` (what
apply wants of the peer and the time server is one and the same host, and of the
discovery server that it is off).

**Console.** For any number of pages, sessions and messages under way, and from
`ConsoleAssumption` (`PingPeriod + Block <= Lease`; the code has 2 s and 2 s
against 10 s, and a session identifier is never used twice). `LiveDriverHolds`:
`HeardInv` bounds the lease of a page that drives by its ping timer while nothing
of it is under way, and by a ping period and what is left of the blocked wait
while something is. A page pings only if it shows that it drives, so that needs
`KnowsInv`: unless its release is under way, the last it was told is that it
drives, and it has been told nothing else since the server last heard of it.
`DriverKeeps` turns it into what a step may do: of all messages, clean-ups of older
sessions and ticks only three things take the lock from a connected page that
drives: its own release, an e-stop, the loss of its socket. A page that merely
connects anew does so under a new identifier, and the late clean-up of its old
session leaves the new one's lock alone (`HandledLeaves`, `ServerLeaves`).
`BadgesHold`: `BadgeInv` says that a page which is wrong although telemetry was
sent to it in this tick has the truth of the watched badge waiting in its socket
(`Correcting`), and that it was wrong for a tick at most when the loop was
blocked. What the other pages do is dealt with once (`BystanderFacts`): it takes
the lock from p or leaves it as it is.

*Types.* `TypeCorrect`, `ClockTypeCorrect`, `LockTypeCorrect`,
`ServerTypeCorrect`, `DockTypeCorrect`, `ConfigTypeCorrect`, `PanelTypeCorrect`,
`ConsoleTypeCorrect`.

*Only model-checked:* the liveness properties (`SilentHolderLoses`,
`ActionSettles`, `RetriesConverge`). They depend on fairness, whose proofs need
`ENABLED`, which the prover does not have. Every invariant and every action
property of the passing runs, and both refinements, are theorems; of
`SilentHolderLoses`, `LazyLease` gives the safe half: the silent holder has lost
the lease on the tick, whether or not anybody has looked.

## 5. Disagreements found

| Run | The repository says | The code does |
|---|---|---|
| `teleop_shutdown` | `main.py:84`: never leave the robot with a live velocity command | The final `stop()` comes before the executor is shut down. A timer callback that has read a velocity publishes it after the zero, and the timer that would have corrected it has ended. |
| `clock_backward` | `src/create3_web/README.md:41-42`: zero after 400 ms of silence | After a backward step of the clock the command's age is negative and it is republished until the clock has caught up. (A *forward* step of `Grace` or more does harm too: the command is at once too old for its zero to be asserted, and the node goes quiet on a moving robot.) |
| `web_action` | `ros_node.py:256`: teleop and a dock fighting over `cmd_vel` helps nobody | `start_action` stops once; the driver's next twist is accepted while the action drives. |
| `dock_estop` | `src/create3_web/README.md:46-47`: the e-stop cancels running actions | Between sending a goal and its acceptance there is no handle; the e-stop cancels nothing and the goal is accepted under it. |
| `dry_run` | `configure_create3.py:540-542`, `scripts/README.md:168`: options are accepted before and after the command; `--dry-run` sends nothing | The command's parser writes its own defaults over what was typed before the command: `--dry-run apply --yes` posts the forms and restarts the robot. The same holds for every shared option. |

Disagreements that no run refutes a property for, because the models follow the
code:

| Where | The repository says | The code does |
|---|---|---|
| `RobotConfig`, "stale" and "assumed" | `configure_create3.py:461`: "Configuration applied and the robot is publishing." | It is printed of a node list that the ROS 2 daemon may have answered from memory (`:311`; the preflight uses `--no-daemon` for that reason, `preflight_create3.sh:358-366`), and without a list where there is no `ros2` command (`:328-331`). |
| `AdminPanel`, `Exit` | `scripts/README.md:37-38` and `:134-138`: without `ros2` the preflight still prints "The Create 3 link is healthy" and exits with 0 | It says that the result is inconclusive and exits with 2 (`preflight_create3.sh:438-449`). `GreenMeansConfigured` is what the code does; the document is out of date. |
| `WebServer`, `OnRelease` | `server.py:14-15`: everyone but the holder is a "read-only observer"; `src/create3_web/README.md:43-44`: "everyone else is read-only" | The `release` of a session that does not hold the lock stops the present driver (`server.py:238-240`). |

Seen in the models and not stated as properties, since no line of the repository
promises otherwise: the driver may go on driving
while the restart of the robot is posted (`admin.py:140-142`); of two overlapping
goals only the one whose handle came last can be cancelled; a goal that succeeded
while being cancelled is shown as cancelled, and a cancelled one is later shown
as failed (`ros_node.py:285-295`). A press of the e-stop button asks for the
opposite of what its page shows, and may so clear an e-stop that somebody else
engaged a moment before (`app.js:337`); nobody drives on then without taking
control anew. A run of apply that breaks off between the last form and the
restart leaves settings stored and not loaded, and the next run says "already up
to date" and does not restart the application (`configure_create3.py:388-393`):
`RetriesConverge` promises what is stored, and what is loaded only where no run
broke off there. The preflight's layer 4
judges what the robot stores, not what it runs: `GreenMeansConfigured` states when
the two agree.

## 6. Plan

Done: sections 2 to 5. What is left, in this order:

1. Sensor readings in the snapshot: that a reading and its age belong together,
   and "online" when the wall clock is stepped.
2. `set-wired-subnet` of the configuration tool, which moves the robot to another
   network.

## 7. Not modelled

- Odometry republisher: one stateless callback that sets two frame names.
- Launch files, compose files, entry points, documentation: configuration.
- Host bootstrap: it edits files of the host once, as root, and meets nothing of
  the running system.
- Layers 1 to 3 of the preflight: examinations of the host that keep nothing; one
  arbitrary outcome stands for them.
- The sensor readings: each callback stores one reading and its time under the
  mutex, and the page draws them as they come.
- Of the page: drawing, sliders, the held keys, the panel of settings.
- The token check, static files, texts and layout of replies; the environment
  variables of `main()`.
- Conversions of telemetry messages (rounding, names of hazards).
- `set-wired-subnet`: one post behind a prompt, after which the tool cannot reach
  the robot.
