------------------------------- MODULE Console --------------------------------
(***************************************************************************)
(* The browser pages (web/app.js) and the server's end of their websockets *)
(* (server.py): who is told what, how late, and what a page does meanwhile *)
(* with its copy.                                                          *)
(*                                                                         *)
(* A page shows "you are driving" and the e-stop as it was told last, and  *)
(* acts on what it shows.  Messages travel in order within a socket, which *)
(* may be lost without either end noticing.  While no action server        *)
(* answers, the event loop stands still (ros_node.py, start_action).       *)
(*                                                                         *)
(* One tick is a second.  A message is under way, and a message that has   *)
(* arrived waits for an event loop that runs, for less than a tick; and    *)
(* everything that waits is handled before the loop is blocked again.      *)
(* Nothing in the code bounds these: the bounds below are stated from them.*)
(***************************************************************************)
EXTENDS ControlLock, Sequences

CONSTANTS
  Pages,        \* browser tabs
  Others,       \* sessions of pages that are looked at from outside only
  Connections,  \* how often a page connects; for TLC only
  Backlog,      \* how many messages wait in a socket; for TLC only
  PingPeriod,   \* how often a page that drives sends a ping (2 s)
  Block         \* how long start_action waits for the action server (2 s)

ASSUME ConsoleAssumption ==
  /\ Clients = (Pages \X (1..Connections)) \cup Others  \* a new client_id each time
  /\ Others \cap (Pages \X (1..Connections)) = {}
  /\ Connections \in Nat \ {0} /\ Backlog \in Nat \ {0}
  /\ PingPeriod \in Nat \ {0} /\ Block \in Nat \ {0}
  /\ PingPeriod + Block <= Lease

VARIABLES
  estop,   \* Create3WebNode._estop
  blocked, \* for how many ticks more the event loop is blocked
  rested,  \* all that waited for the last blocked loop has been handled
  open,    \* sessions whose handler is running
  nth,     \* how many sessions a page has had: its last is the current one
  sock,    \* the page's websocket: "open", "lost" unnoticed, "closed"
  up,      \* what the page has sent and the server not handled
  down,    \* what the server has sent and the page not handled
  pumped,  \* sessions that were sent telemetry in this tick
  ping,    \* ticks since the page's ping timer fired
  shown,   \* what the page shows
  watched, \* ghost: one of the badges
  wrong    \* ghost: for how many ticks a page has shown it wrong

consoleVars == <<lock, estop, blocked, rested, open, nth, sock, up, down,
                 pumped, ping, shown, watched, wrong>>

Badges == {"control", "estop"}

\* hasControl and estopEngaged.
Showing == [control : BOOLEAN, estop : BOOLEAN]

\* Telemetry has all of it, the answer to an acquire only who drives.
DownMessages == Showing \cup [control : BOOLEAN]

\* A twist, a stop or a ping is a "touch": they do the same to the lock.
UpMessages == {"acquire", "release", "touch"}

Session(p) == <<p, nth[p]>>
Linked(p)  == sock[p] = "open" /\ Session(p) \in open
Running    == blocked = 0

\* A page is wrong at most until the loop runs again, it is sent telemetry in the
\* tick after, and that arrives.
Lag == Block + 1

ConsoleInit ==
  /\ LockInit /\ estop = FALSE
  /\ blocked = 0 /\ rested = TRUE /\ open = {} /\ pumped = {}
  /\ nth = [p \in Pages |-> 0] /\ sock = [p \in Pages |-> "closed"]
  /\ up = [p \in Pages |-> <<>>] /\ down = [p \in Pages |-> <<>>]
  /\ ping \in [Pages -> 0..(PingPeriod - 1)]
  /\ shown = [p \in Pages |-> [b \in Badges |-> FALSE]]
  /\ watched \in Badges /\ wrong = [p \in Pages |-> 0]

-----------------------------------------------------------------------------
(* The server. *)

\* Variant: the lease is refreshed by commands only, not by a ping.
HandledPingIgnored(k, s, m) ==
  CASE m = "touch"   -> Expire(k)
    [] m = "acquire" -> Acquire(Touch(k, s), s, s)
    [] m = "release" -> Release(Touch(k, s), s)

\* The lock after session s has sent m.
Handled(k, s, m) ==
  CASE m = "touch"   -> Touch(k, s)
    [] m = "acquire" -> Acquire(Touch(k, s), s, s)
    [] m = "release" -> Release(Touch(k, s), s)

Receive(p) ==
  /\ Running /\ Linked(p) /\ up[p] # <<>> /\ Len(down[p]) < Backlog
  /\ up' = [up EXCEPT ![p] = Tail(@)]
  /\ lock' = Handled(lock, Session(p), Head(up[p]))
  /\ down' = IF Head(up[p]) = "acquire"
               THEN [down EXCEPT ![p] =
                       Append(@, [control |-> lock'.holder = Session(p)])]
               ELSE down
  /\ UNCHANGED <<estop, blocked, rested, open, nth, sock, pumped, ping, shown>>

\* The facts, as a telemetry message would state them to page p now.
Facts(p) == [control |-> Expire(lock).holder = Session(p), estop |-> estop]

\* One round of pump_telemetry.
Pump(p) ==
  /\ Running /\ Linked(p) /\ Len(down[p]) < Backlog
  /\ lock' = Expire(lock) /\ down' = [down EXCEPT ![p] = Append(@, Facts(p))]
  /\ pumped' = pumped \cup {Session(p)}
  /\ UNCHANGED <<estop, blocked, rested, open, nth, sock, up, ping, shown>>

\* The handler of a session whose socket is gone ends.
ServerNotices(s) ==
  /\ Running /\ s \in open /\ ~(Linked(s[1]) /\ s = Session(s[1]))
  /\ open' = open \ {s} /\ lock' = Release(Expire(lock), s)
  /\ UNCHANGED <<estop, blocked, rested, nth, sock, up, down, pumped, ping,
                 shown>>

\* A session of another page sends something, and is told something.
OtherSends(s, m) ==
  /\ Running /\ lock' = Handled(lock, s, m)
  /\ UNCHANGED <<estop, blocked, rested, open, nth, sock, up, down, pumped,
                 ping, shown>>

\* A dock or undock is asked for, is not refused, and no action server is there.
StartBlock(n) ==
  /\ Running /\ rested /\ ~estop
  /\ blocked' = n /\ rested' = FALSE
  /\ UNCHANGED <<lock, estop, open, nth, sock, up, down, pumped, ping, shown>>

-----------------------------------------------------------------------------
(* A page. *)

\* connect(), and the handler that accepts it.
Connect(p) ==
  /\ Running /\ sock[p] = "closed" /\ nth[p] < Connections
  /\ nth' = [nth EXCEPT ![p] = @ + 1] /\ sock' = [sock EXCEPT ![p] = "open"]
  /\ open' = open \cup {<<p, nth'[p]>>}
  /\ UNCHANGED <<lock, estop, blocked, rested, up, down, pumped, ping, shown>>

\* The network or the browser's machine goes away, with all that is under way.
LoseSocket(p) ==
  /\ sock[p] = "open" /\ sock' = [sock EXCEPT ![p] = "lost"]
  /\ up' = [up EXCEPT ![p] = <<>>] /\ down' = [down EXCEPT ![p] = <<>>]
  /\ UNCHANGED <<lock, estop, blocked, rested, open, nth, pumped, ping, shown>>

\* onclose.
PageNotices(p) ==
  /\ sock[p] = "lost" /\ sock' = [sock EXCEPT ![p] = "closed"]
  /\ shown' = [shown EXCEPT ![p].control = FALSE]
  /\ UNCHANGED <<lock, estop, blocked, rested, open, nth, up, down, pumped,
                 ping>>

\* Variant: only the answer to an acquire says who drives.
ShownByAnswer(s, m) ==
  [b \in Badges |-> IF b \in DOMAIN m /\ (b = "control" => DOMAIN m = {b})
                      THEN m[b] ELSE s[b]]

\* What a page that showed s shows after message m.
ShownAfter(s, m) == [b \in Badges |-> IF b \in DOMAIN m THEN m[b] ELSE s[b]]

\* onmessage.
Show(p) ==
  /\ sock[p] = "open" /\ down[p] # <<>>
  /\ down' = [down EXCEPT ![p] = Tail(@)]
  /\ shown' = [shown EXCEPT ![p] = ShownAfter(@, Head(down[p]))]
  /\ UNCHANGED <<lock, estop, blocked, rested, open, nth, sock, up, pumped,
                 ping>>

\* The page sends m, if its socket lets it.
Sent(p, m) ==
  up' = IF Linked(p) THEN [up EXCEPT ![p] = Append(@, m)] ELSE up

\* The button under which a page shows "you are driving" or not.
ClickControl(p) ==
  /\ Len(up[p]) < Backlog
  /\ IF shown[p].control
       THEN Sent(p, "release") /\ shown' = [shown EXCEPT ![p].control = FALSE]
       ELSE Sent(p, "acquire") /\ UNCHANGED shown
  /\ UNCHANGED <<lock, estop, blocked, rested, open, nth, sock, down, pumped,
                 ping>>

\* The ping timer.  A second touch in a row would be handled with the first.
Ping(p) ==
  /\ ping[p] = PingPeriod /\ ping' = [ping EXCEPT ![p] = 0]
  /\ IF shown[p].control /\ (up[p] = <<>> \/ up[p][Len(up[p])] # "touch")
       THEN Sent(p, "touch") ELSE UNCHANGED up
  /\ UNCHANGED <<lock, estop, blocked, rested, open, nth, sock, down, pumped,
                 shown>>

\* api_estop: engaging takes the lock from whoever holds it.
ApiEstop(engaged) ==
  /\ Running /\ estop' = engaged
  /\ lock' = IF engaged THEN Release(Expire(lock), Expire(lock).holder) ELSE lock
  /\ UNCHANGED <<blocked, rested, open, nth, sock, up, down, pumped, ping,
                 shown>>

-----------------------------------------------------------------------------
(* Time, and the whole. *)

\* The e-stop button of a page asks for the opposite of what the page shows; those
\* of the other pages may show anything.
ClickEstop == \E engaged \in BOOLEAN :
                /\ Others # {} \/ \E p \in Pages : engaged = ~shown[p].estop
                /\ ApiEstop(engaged)

\* A tick passes when all that takes less than a tick has happened in it.
Pass ==
  /\ \A p \in Pages : ping[p] < PingPeriod /\ down[p] = <<>>
  /\ Running => \A p \in Pages : /\ up[p] = <<>>
                                 /\ Linked(p) => Session(p) \in pumped
  /\ ping' = [p \in Pages |-> ping[p] + 1]
  /\ blocked' = IF Running THEN 0 ELSE blocked - 1
  /\ rested' = (rested \/ Running) /\ pumped' = {}
  /\ lock' = Aged(lock)
  /\ UNCHANGED <<estop, open, nth, sock, up, down, shown>>

Step == \/ \E p \in Pages : \/ Receive(p) \/ Pump(p) \/ Connect(p) \/ LoseSocket(p)
                            \/ PageNotices(p) \/ Show(p) \/ ClickControl(p)
                            \/ Ping(p)
        \/ \E s \in Clients : ServerNotices(s)
        \/ \E s \in Others, m \in UpMessages : OtherSends(s, m)
        \/ ClickEstop
        \/ \E n \in 1..Block : StartBlock(n)

\* The ghost counts the ticks that leave the page wrong, until it is right.
Count(d) ==
  /\ wrong' = [p \in Pages |->
                 IF ~Linked(p)' \/ shown'[p][watched] = Facts(p)'[watched] THEN 0
                 ELSE IF wrong[p] + d > Lag + 1 THEN Lag + 1 ELSE wrong[p] + d]
  /\ UNCHANGED watched

ConsoleNext == \/ Step /\ Count(0)
               \/ Pass /\ Count(1)

ConsoleSpec == ConsoleInit /\ [][ConsoleNext]_consoleVars

-----------------------------------------------------------------------------
(* Properties. *)

\* The variables have their types.
ConsoleTypeOK ==
  /\ LockTypeOK /\ estop \in BOOLEAN
  /\ blocked \in 0..Block /\ rested \in BOOLEAN
  /\ open \subseteq Clients /\ pumped \subseteq Clients
  /\ nth \in [Pages -> 0..Connections]
  /\ sock \in [Pages -> {"open", "lost", "closed"}]
  /\ up \in [Pages -> Seq(UpMessages)] /\ down \in [Pages -> Seq(DownMessages)]
  /\ ping \in [Pages -> 0..PingPeriod] /\ shown \in [Pages -> Showing]
  /\ watched \in Badges /\ wrong \in [Pages -> 0..(Lag + 1)]

\* server.py: "control does not evaporate between key presses."  The lease of a
\* page that is connected does not lapse, keys pressed or not, whatever the other
\* pages do and although the loop may be blocked between a ping and its handling:
\* the page keeps the lock until it gives it up or an e-stop takes it.
LiveDriverKeeps ==
  \A p \in Pages : Linked(p) /\ lock.holder = Session(p) => ~Lapsed(lock)

Drives(p) == Linked(p) /\ lock.holder = Session(p)

\* A page that drives stops driving in three ways only: its socket is lost, the
\* server handles a release the page has sent, or somebody engages the e-stop.
\* No other page's message, no clean-up of an older session and no lapse does it.
DriverKeepsUntil ==
  [][\A p \in Pages : Drives(p) /\ ~Drives(p)'
       => \/ LoseSocket(p)
          \/ Receive(p) /\ Head(up[p]) = "release"
          \/ ApiEstop(TRUE)]_consoleVars

\* app.js: "responsible for never lying to the operator about which of those is
\* currently true."  A connected page that shows the wrong driver or the wrong
\* state of the e-stop does so until the event loop runs again and one tick more,
\* whatever messages cross.
BadgesHonest == \A p \in Pages : wrong[p] <= Lag
=============================================================================
