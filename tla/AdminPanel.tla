----------------------------- MODULE AdminPanel ------------------------------
(***************************************************************************)
(* create3_web/admin.py and the diagnostic ladder that it runs, scripts/   *)
(* preflight_create3.sh, on the robot that the configuration tool is used  *)
(* on at the same time (RobotConfig).                                      *)
(*                                                                         *)
(* Layer 4 of the ladder judges the settings the robot stores; layer 5     *)
(* what the application it runs publishes.  The panel's own requests to    *)
(* restart the application or the robot are RobotConfig's OtherRestart.    *)
(***************************************************************************)
EXTENDS RobotConfig

VARIABLE probe  \* a run of the ladder, or what the panel said of the last one

panelVars == <<configVars, probe>>

Stages == {"none", "settings", "nodes", "data"}   \* what is looked at next

Probes ==
  [stage    : Stages,
   quick    : BOOLEAN,             \* QUICK
   failed   : BOOLEAN,             \* FAILED > 0
   verified : BOOLEAN,             \* DATA_VERIFIED
   fresh    : BOOLEAN,             \* ghost: nobody saved since layer 4 read
   answer   : {"none", "ok", "full", "bad"}]  \* ok of the panel's reply

NoProbe == [stage |-> "none", quick |-> FALSE, failed |-> FALSE,
            verified |-> FALSE, fresh |-> FALSE, answer |-> "none"]

-----------------------------------------------------------------------------
(* What the ladder and the panel make of the robot's settings. *)

PeerOk(s) == s.rmw.says = DefaultNuc
NtpOk(s)  == s.ntp.says = DefaultNuc

\* The checks of layer 4 that fail, where that of the namespace only warns.
Passes(s) ==
  /\ s.main.domain = DefaultDomain /\ s.main.rmw = DefaultRmw /\ ~s.main.server
  /\ PeerOk(s) /\ NtpOk(s)

-----------------------------------------------------------------------------
(* The ladder.  It goes on to its end whatever fails. *)

\* Variant: a link on which nothing failed is healthy.
ExitUnverified(p) == IF p.failed THEN 1 ELSE 0

\* The exit status.
Exit(p) == IF p.failed THEN 1 ELSE IF p.quick \/ p.verified THEN 0 ELSE 2

\* Variant: exit status 2 is given a word of its own, which the page lacks.
RepliedUnknown(p) ==
  IF Exit(p) # 0 THEN [NoProbe EXCEPT !.answer = IF Exit(p) = 2 THEN "unknown" ELSE "bad"]
  ELSE IF p.quick THEN [NoProbe EXCEPT !.answer = "ok"]
  ELSE [p EXCEPT !.stage = "none", !.answer = "full"]

\* The panel's reply when the ladder has ended with p.
Replied(p) ==
  IF Exit(p) # 0 THEN [NoProbe EXCEPT !.answer = "bad"]
  ELSE IF p.quick THEN [NoProbe EXCEPT !.answer = "ok"]
  ELSE [p EXCEPT !.stage = "none", !.answer = "full"]

\* Layers 1 to 3 look at the host and the cable, and may fail.
StartProbe(quick) ==
  /\ probe.stage = "none"
  /\ \E bad \in BOOLEAN :
       probe' = [NoProbe EXCEPT !.stage = "settings", !.quick = quick, !.failed = bad]
  /\ UNCHANGED configVars

\* Layer 4, which also fails if the settings cannot be read or the clock is off.
Judged(p, bad) ==
  [p EXCEPT !.stage = "nodes", !.failed = @ \/ bad \/ ~Passes(flash), !.fresh = TRUE]

ProbeSettings ==
  /\ probe.stage = "settings"
  /\ \E bad \in BOOLEAN :
       LET p == Judged(probe, bad) IN probe' = IF p.quick THEN Replied(p) ELSE p
  /\ UNCHANGED configVars

ProbedNs == [name |-> DefaultName, slash |-> TRUE]

\* Layer 5 is skipped with a warning where there is no ros2 command, and ends
\* where no node is listed.  It does not ask the daemon.
ProbeNodes ==
  /\ probe.stage = "nodes"
  /\ \/ probe' = Replied(probe)
     \/ probe' = IF Live(ProbedNs) THEN [probe EXCEPT !.stage = "data"]
                 ELSE Replied([probe EXCEPT !.failed = TRUE])
  /\ UNCHANGED configVars

\* A message is awaited on each of two topics; none may come from a robot that
\* is up either.
ProbeData ==
  /\ probe.stage = "data"
  /\ \E got \in SUBSET {"battery_state", "dock_status"} :
       /\ got # {} => Live(ProbedNs)
       /\ probe' = Replied([probe EXCEPT
                      !.verified = got # {},
                      !.failed = @ \/ got # {"battery_state", "dock_status"}])
  /\ UNCHANGED configVars

\* The panel gives up after two minutes and kills the ladder.
ProbeTimeout ==
  /\ probe.stage # "none" /\ probe' = [NoProbe EXCEPT !.answer = "bad"]
  /\ UNCHANGED configVars

ProbeStep == \/ \E quick \in BOOLEAN : StartProbe(quick)
             \/ ProbeSettings \/ ProbeNodes \/ ProbeData \/ ProbeTimeout

\* A step of the tool or of the robot, which may write the settings.
ConfigStep ==
  /\ ConfigNext
  /\ probe' = [probe EXCEPT !.fresh = @ /\ flash' = flash]

PanelInit == ConfigInit /\ probe = NoProbe

PanelNext == ConfigStep \/ ProbeStep

PanelSpec == PanelInit /\ [][PanelNext]_panelVars /\ ConfigFairness

-----------------------------------------------------------------------------
(* Properties. *)

\* The variables have their types.
PanelTypeOK == ConfigTypeOK /\ probe \in Probes

\* The settings are for this NUC: its domain, its RMW, its address.
ForThisNuc(s) ==
  /\ s.main.domain = DefaultDomain /\ s.main.rmw = DefaultRmw
  /\ s.rmw.says = DefaultNuc

\* The tool and the ladder agree on what a configured robot is: layer 4 passes what
\* a completed apply has left, if and only if it was told of no domain, RMW or
\* address but the NUC's own.
AppliedPasses ==
  run.outcome \in Completed /\ run.fresh => (Passes(flash) <=> ForThisNuc(run.want))

\* "Reporting a healthy link having never seen a message is the worst thing this
\* script could do", and in spite of what scripts/README.md still says of a host
\* without ros2 it does not.  Exit status 0 without --quick means that messages came from
\* the robot, and, unless settings were saved or left unloaded, that the
\* application they came from runs with settings that layer 4 passes.
GreenMeansConfigured ==
  probe.answer = "full"
    => /\ probe.verified
       /\ probe.fresh /\ app = "up" /\ ~torn /\ run.phase # "post" => Passes(loaded)
=============================================================================
