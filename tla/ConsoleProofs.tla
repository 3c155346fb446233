---------------------------- MODULE ConsoleProofs -----------------------------
(***************************************************************************)
(* What holds of the pages for any number of them, of reconnects and of    *)
(* messages under way, and for every lease that is at least a ping period  *)
(* and a blocked event loop long.                                          *)
(***************************************************************************)
EXTENDS Console, LockProofs, SequenceTheorems

-----------------------------------------------------------------------------
(* Queues. *)

\* A message is put behind those that wait.
LEMMA AppendFacts ==
  ASSUME NEW S, NEW q \in Seq(S), NEW m \in S
  PROVE  /\ Append(q, m) \in Seq(S) /\ Append(q, m) # <<>>
         /\ Len(q) \in Nat /\ Len(Append(q, m)) = Len(q) + 1
         /\ \A i \in 1..Len(q) : Append(q, m)[i] = q[i]
         /\ Append(q, m)[Len(q) + 1] = m
  OBVIOUS

\* The first message is taken and the rest moves up.
LEMMA TailFacts ==
  ASSUME NEW S, NEW q \in Seq(S), q # <<>>
  PROVE  /\ Head(q) = q[1] /\ Head(q) \in S /\ Tail(q) \in Seq(S)
         /\ Len(q) \in Nat \ {0} /\ Len(Tail(q)) = Len(q) - 1
         /\ Tail(q) = <<>> <=> Len(q) = 1
         /\ \A i \in 1..(Len(q) - 1) : Tail(q)[i] = q[i + 1]
         /\ Len(q) > 1 => Tail(q)[Len(q) - 1] = q[Len(q)]
<1>1. /\ Head(q) = q[1] /\ Head(q) \in S /\ Tail(q) \in Seq(S)
      /\ Len(q) \in Nat \ {0} /\ Len(Tail(q)) = Len(q) - 1
      /\ \A i \in 1..(Len(q) - 1) : Tail(q)[i] = q[i + 1]
  BY HeadTailProperties, EmptySeq
<1>2. Tail(q) = <<>> <=> Len(q) = 1
  BY <1>1, EmptySeq
<1>3. ASSUME Len(q) > 1 PROVE Tail(q)[Len(q) - 1] = q[Len(q)]
  <2>1. Len(q) - 1 \in 1..(Len(q) - 1) /\ (Len(q) - 1) + 1 = Len(q)
    BY <1>1, <1>3
  <2> QED
    BY <1>1, <2>1
<1> QED
  BY <1>1, <1>2, <1>3

-----------------------------------------------------------------------------
(* The lock, as the handlers use it. *)

\* A message makes nobody a holder but its sender, and is news of its sender.
LEMMA HandledFacts ==
  ASSUME NEW k \in Locks, NEW s \in Clients, NEW m \in UpMessages
  PROVE  /\ Handled(k, s, m) \in Locks
         /\ Handled(k, s, m).holder \in {k.holder, NoClient, s}
         /\ Handled(k, s, m).holder = s => Handled(k, s, m).idle = 0
         /\ m = "release" => Handled(k, s, m).holder # s
         /\ m = "touch" /\ Handled(k, s, m).holder = s => k.holder = s
<1>1. /\ Touch(k, s) \in Locks /\ ~Lapsed(Touch(k, s))
      /\ Touch(k, s).holder \in {k.holder, NoClient}
      /\ Touch(k, s).holder = s => Touch(k, s).idle = 0 /\ k.holder = s
  BY TouchFacts, ExpireFacts, LockAssumption
<1>2. CASE m = "touch"
  BY <1>1, <1>2 DEF Handled
<1>3. CASE m = "acquire"
  <2>1. Handled(k, s, m) = Acquire(Touch(k, s), s, s)
    BY <1>3 DEF Handled
  <2> QED
    BY <1>1, <1>3, <2>1, AcquireFacts
<1>4. CASE m = "release"
  <2>1. Handled(k, s, m) = Release(Touch(k, s), s)
    BY <1>4 DEF Handled
  <2> QED
    BY <1>1, <1>4, <2>1, ReleaseFacts, LockAssumption
<1> QED
  BY <1>2, <1>3, <1>4 DEF UpMessages

\* A message of another session is nothing to a holder whose lease runs.
LEMMA HandledLeaves ==
  ASSUME NEW k \in Locks, NEW s \in Clients, NEW m \in UpMessages,
         ~Lapsed(k), k.holder \notin {NoClient, s}
  PROVE  Handled(k, s, m) = k
<1>1. Expire(k) = k
  BY DEF Expire
<1>2. Touch(k, s) = k
  BY <1>1 DEF Touch
<1>3. Release(k, s) = k
  BY DEF Release
<1>4. Acquire(k, s, s) = k
  BY <1>1 DEF Acquire, Obtainable
<1> QED
  BY <1>1, <1>2, <1>3, <1>4 DEF Handled, UpMessages

\* A message of one session that leaves another with the lock leaves the lock.
LEMMA HandledElsewhere ==
  ASSUME NEW k \in Locks, NEW s \in Clients, NEW m \in UpMessages,
         Handled(k, s, m).holder \notin {s, NoClient}
  PROVE  Handled(k, s, m) = k
<1>1. k.holder \notin {s, NoClient}
  BY HandledFacts
<1>2. ~Lapsed(k)
  <2> SUFFICES ASSUME Lapsed(k) PROVE FALSE
    OBVIOUS
  <2>1. Touch(k, s) \in Locks /\ Touch(k, s).holder = NoClient /\ ~Lapsed(Touch(k, s))
    BY TouchFacts, ExpireFacts
  <2> QED
    BY <2>1, AcquireFacts, ReleaseFacts DEF Handled, UpMessages
<1> QED
  BY <1>1, <1>2, HandledLeaves

-----------------------------------------------------------------------------
(* The invariants. *)

\* A session is numbered within what its page has had, and whoever has the lock
\* is still served.
SessionInv ==
  /\ open \subseteq Pages \X (1..Connections)
  /\ \A p \in Pages : \A n \in 1..Connections : <<p, n>> \in open => n <= nth[p]
  /\ lock.holder \in open \cup Others \cup {NoClient}

\* A blocked loop has handled nothing since it was blocked.
BlockInv == blocked > 0 => ~rested

Releasing(p) == \E i \in 1..Len(up[p]) : up[p][i] = "release"

\* What p will show of the lock when it has read all it was sent.
ToldLast(p) == IF down[p] = <<>> THEN shown[p].control
                                 ELSE down[p][Len(down[p])].control

ToldAlways(p) == shown[p].control /\ \A i \in 1..Len(down[p]) : down[p][i].control

\* A page that drives, and is not about to release, will know; and it has known
\* ever since, but for the news of this tick.
KnowsInv(p) ==
  Drives(p) /\ ~Releasing(p) => ToldLast(p) /\ (lock.idle = 0 \/ ToldAlways(p))

\* The server has heard of a page that drives since the last ping, or a message is
\* under way that it will handle when the loop runs again.
HeardInv(p) ==
  Drives(p) =>
    /\ up[p] = <<>> => lock.idle <= ping[p]
    /\ up[p] # <<>> => lock.idle + blocked <= PingPeriod + Block
    /\ up[p] # <<>> /\ rested => lock.idle <= PingPeriod

ConsoleInv ==
  /\ ConsoleTypeOK /\ SessionInv /\ BlockInv
  /\ \A p \in Pages : KnowsInv(p) /\ HeardInv(p)

\* The truth about the watched badge is on its way to p.
Correcting(p) ==
  \E i \in 1..Len(down[p]) : /\ watched \in DOMAIN down[p][i]
                             /\ down[p][i][watched] = Facts(p)[watched]

\* A page is wrong for the ticks the loop was blocked and one more, and not for
\* another once it has been sent telemetry.
BadgeInv(p) ==
  /\ ~Linked(p) \/ shown[p][watched] = Facts(p)[watched] => wrong[p] = 0
  /\ wrong[p] + blocked <= Block + 1
  /\ rested => wrong[p] <= 1
  /\ wrong[p] > 0 /\ Session(p) \in pumped => Correcting(p)

BadgesInv == \A p \in Pages : BadgeInv(p)

-----------------------------------------------------------------------------
(* The type. *)

\* What a page shows is what it may show.
LEMMA ShownFacts ==
  ASSUME NEW s \in Showing, NEW m \in DownMessages
  PROVE  /\ ShownAfter(s, m) \in Showing
         /\ ShownAfter(s, m).control = m.control
         /\ \A b \in Badges : ShownAfter(s, m)[b] = IF b \in DOMAIN m THEN m[b] ELSE s[b]
<1>1. "control" \in DOMAIN m /\ m["control"] \in BOOLEAN
  BY DEF DownMessages, Showing
<1>2. "estop" \in DOMAIN m => m["estop"] \in BOOLEAN
  BY DEF DownMessages, Showing
<1>3. \A b \in Badges : ShownAfter(s, m)[b] = IF b \in DOMAIN m THEN m[b] ELSE s[b]
  BY DEF ShownAfter
<1>4. ShownAfter(s, m) \in Showing
  BY <1>1, <1>2 DEF ShownAfter, Showing, Badges
<1> QED
  BY <1>1, <1>3, <1>4 DEF Badges

\* A session whose handler runs is a client.
LEMMA SessionFacts ==
  ASSUME ConsoleTypeOK, NEW p \in Pages, Linked(p)
  PROVE  Session(p) \in Clients /\ Session(p) # NoClient
  BY LockAssumption DEF ConsoleTypeOK, Linked

\* No step breaks the type.
LEMMA ConsoleTypeStep ==
  ASSUME ConsoleTypeOK, ConsoleNext
  PROVE  ConsoleTypeOK'
<1> USE DEF ConsoleTypeOK, LockTypeOK
<1> DEFINE Typed ==
      /\ lock \in Locks /\ estop \in BOOLEAN
      /\ blocked \in 0..Block /\ rested \in BOOLEAN
      /\ open \subseteq Clients /\ pumped \subseteq Clients
      /\ nth \in [Pages -> 0..Connections]
      /\ sock \in [Pages -> {"open", "lost", "closed"}]
      /\ up \in [Pages -> Seq(UpMessages)] /\ down \in [Pages -> Seq(DownMessages)]
      /\ ping \in [Pages -> 0..PingPeriod] /\ shown \in [Pages -> Showing]
<1>1. ASSUME NEW p \in Pages, Receive(p) PROVE Typed'
  <2>1. Head(up[p]) \in UpMessages /\ Tail(up[p]) \in Seq(UpMessages)
    BY <1>1, TailFacts DEF Receive
  <2>2. lock' \in Locks
    BY <1>1, <2>1, SessionFacts, HandledFacts DEF Receive
  <2>3. up' \in [Pages -> Seq(UpMessages)]
    BY <1>1, <2>1 DEF Receive
  <2>4. [control |-> lock'.holder = Session(p)] \in DownMessages
    BY DEF DownMessages
  <2>5. down' \in [Pages -> Seq(DownMessages)]
    BY <1>1, <2>4, AppendFacts DEF Receive
  <2> QED
    BY <1>1, <2>2, <2>3, <2>5 DEF Receive
<1>2. ASSUME NEW p \in Pages, Pump(p) PROVE Typed'
  <2>1. Facts(p) \in DownMessages
    BY DEF Facts, DownMessages, Showing
  <2>2. down' \in [Pages -> Seq(DownMessages)]
    BY <1>2, <2>1, AppendFacts DEF Pump
  <2> QED
    BY <1>2, <2>2, ExpireFacts, SessionFacts DEF Pump
<1>3. ASSUME NEW p \in Pages, Connect(p) PROVE Typed'
  <2>1. nth' \in [Pages -> 0..Connections] /\ nth'[p] \in 1..Connections
    BY <1>3, ConsoleAssumption DEF Connect
  <2> QED
    BY <1>3, <2>1, ConsoleAssumption DEF Connect
<1>4. ASSUME NEW p \in Pages, LoseSocket(p) PROVE Typed'
  BY <1>4 DEF LoseSocket
<1>5. ASSUME NEW p \in Pages
      PROVE  [shown EXCEPT ![p].control = FALSE] \in [Pages -> Showing]
  BY DEF Showing
<1>6. ASSUME NEW p \in Pages, PageNotices(p) PROVE Typed'
  BY <1>5, <1>6 DEF PageNotices
<1>7. ASSUME NEW p \in Pages, Show(p) PROVE Typed'
  BY <1>7, TailFacts, ShownFacts DEF Show
<1>8. ASSUME NEW p \in Pages, NEW m \in UpMessages, Sent(p, m)
      PROVE  up' \in [Pages -> Seq(UpMessages)]
  BY <1>8, AppendFacts DEF Sent
<1>9. ASSUME NEW p \in Pages, ClickControl(p) PROVE Typed'
  BY <1>5, <1>8, <1>9 DEF ClickControl, UpMessages
<1>10. ASSUME NEW p \in Pages, Ping(p) PROVE Typed'
  <2>1. up' \in [Pages -> Seq(UpMessages)]
    BY <1>8, <1>10 DEF Ping, UpMessages
  <2>2. ping' \in [Pages -> 0..PingPeriod]
    BY <1>10, ConsoleAssumption DEF Ping
  <2> QED
    BY <1>10, <2>1, <2>2 DEF Ping
<1>11. ASSUME NEW s \in Clients, ServerNotices(s) PROVE Typed'
  BY <1>11, ExpireFacts, ReleaseFacts DEF ServerNotices
<1>12. ASSUME NEW s \in Others, NEW m \in UpMessages, OtherSends(s, m) PROVE Typed'
  BY <1>12, HandledFacts, ConsoleAssumption DEF OtherSends
<1>13. ASSUME ClickEstop PROVE Typed'
  <2>1. PICK engaged \in BOOLEAN : ApiEstop(engaged)
    BY <1>13 DEF ClickEstop
  <2>2. lock' \in Locks
    BY <2>1, ExpireFacts, ReleaseFacts DEF ApiEstop
  <2>3. estop' \in BOOLEAN
    BY <2>1 DEF ApiEstop
  <2> QED
    BY <2>1, <2>2, <2>3 DEF ApiEstop
<1>14. ASSUME NEW n \in 1..Block, StartBlock(n) PROVE Typed'
  <2>1. n \in 0..Block
    BY ConsoleAssumption
  <2> QED
    BY <1>14, <2>1 DEF StartBlock
<1>15. ASSUME Pass PROVE Typed'
  <2>1. ping' \in [Pages -> 0..PingPeriod] /\ blocked' \in 0..Block
    BY <1>15, ConsoleAssumption DEF Pass, Running
  <2>2. rested' \in BOOLEAN
    BY <1>15 DEF Pass
  <2> QED
    BY <1>15, <2>1, <2>2, AgedFacts DEF Pass
<1>16. ASSUME NEW d \in 0..1, Count(d)
       PROVE  watched' \in Badges /\ wrong' \in [Pages -> 0..(Lag + 1)]
  BY <1>16, ConsoleAssumption DEF Count, Lag
<1>17. CASE Step /\ Count(0)
  <2>1. Typed'
    BY <1>1, <1>2, <1>3, <1>4, <1>6, <1>7, <1>9, <1>10, <1>11, <1>12, <1>13,
       <1>14, <1>17 DEF Step
  <2> QED
    BY <1>16, <1>17, <2>1
<1>18. CASE Pass /\ Count(1)
  BY <1>15, <1>16, <1>18
<1> QED
  BY <1>17, <1>18 DEF ConsoleNext

-----------------------------------------------------------------------------
(* Sessions. *)

\* A page's session is over when it connects again, and its lock is given up by the
\* handler that ends.
LEMMA SessionStep ==
  ASSUME ConsoleTypeOK, SessionInv, Step \/ Pass
  PROVE  SessionInv'
<1> USE DEF ConsoleTypeOK, LockTypeOK
<1>1. ASSUME open' = open, nth' = nth, lock'.holder \in {lock.holder, NoClient}
      PROVE  SessionInv'
  BY <1>1 DEF SessionInv
<1>2. ASSUME NEW p \in Pages, Receive(p) PROVE SessionInv'
  <2>1. Head(up[p]) \in UpMessages
    BY <1>2, TailFacts DEF Receive
  <2>2. lock'.holder \in {lock.holder, NoClient, Session(p)} /\ Session(p) \in open
    BY <1>2, <2>1, SessionFacts, HandledFacts DEF Receive, Linked
  <2> QED
    BY <1>2, <2>2 DEF Receive, SessionInv
<1>3. ASSUME NEW p \in Pages, Pump(p) PROVE SessionInv'
  BY <1>1, <1>3, ExpireFacts DEF Pump
<1>4. ASSUME NEW p \in Pages, Connect(p) PROVE SessionInv'
  <2>1. nth'[p] \in 1..Connections /\ \A q \in Pages : nth[q] <= nth'[q]
    BY <1>4, ConsoleAssumption DEF Connect
  <2>2. ASSUME NEW q \in Pages, NEW n \in 1..Connections, <<q, n>> \in open'
        PROVE  n <= nth'[q]
    <3>1. CASE <<q, n>> \in open
      <4>1. n <= nth[q] /\ nth[q] \in Int /\ nth'[q] \in Int
        BY <1>4, <3>1, ConsoleAssumption DEF SessionInv, Connect
      <4> QED
        BY <2>1, <4>1
    <3>2. CASE <<q, n>> = <<p, nth'[p]>>
      BY <2>1, <3>2
    <3> QED
      BY <1>4, <2>2, <3>1, <3>2 DEF Connect
  <2>3. open' \subseteq Pages \X (1..Connections) /\ open \subseteq open'
    BY <1>4, <2>1 DEF Connect, SessionInv
  <2> QED
    BY <1>4, <2>2, <2>3 DEF Connect, SessionInv
<1>5. ASSUME NEW s \in Clients, ServerNotices(s) PROVE SessionInv'
  <2>1. lock'.holder = NoClient \/ (lock'.holder = lock.holder /\ lock'.holder # s)
    <3>1. Expire(lock) \in Locks /\ Expire(lock).holder \in {lock.holder, NoClient}
      BY ExpireFacts
    <3>2. lock' = Release(Expire(lock), s)
      BY <1>5 DEF ServerNotices
    <3> QED
      BY <3>1, <3>2, ReleaseFacts
  <2> QED
    BY <1>5, <2>1 DEF ServerNotices, SessionInv
<1>6. ASSUME NEW s \in Others, NEW m \in UpMessages, OtherSends(s, m)
      PROVE  SessionInv'
  <2>1. lock'.holder \in {lock.holder, NoClient, s}
    BY <1>6, HandledFacts, ConsoleAssumption DEF OtherSends
  <2> QED
    BY <1>6, <2>1 DEF OtherSends, SessionInv
<1>7. CASE ClickEstop
  BY <1>1, <1>7, ExpireFacts, ReleaseFacts DEF ClickEstop, ApiEstop
<1>8. CASE Pass
  BY <1>1, <1>8, AgedFacts DEF Pass
<1>9. ASSUME NEW p \in Pages,
             LoseSocket(p) \/ PageNotices(p) \/ Show(p) \/ ClickControl(p) \/ Ping(p)
      PROVE  SessionInv'
  BY <1>1, <1>9 DEF LoseSocket, PageNotices, Show, ClickControl, Ping
<1>10. ASSUME NEW n \in 1..Block, StartBlock(n) PROVE SessionInv'
  BY <1>1, <1>10 DEF StartBlock
<1> QED
  BY <1>2, <1>3, <1>4, <1>5, <1>6, <1>7, <1>8, <1>9, <1>10 DEF Step

\* The loop blocks when nothing waits, and rests when it runs.
LEMMA BlockStep ==
  ASSUME ConsoleTypeOK, BlockInv, Step \/ Pass
  PROVE  BlockInv'
<1> USE DEF ConsoleTypeOK, BlockInv
<1>1. ASSUME NEW n \in 1..Block, StartBlock(n) PROVE BlockInv'
  BY <1>1 DEF StartBlock
<1>2. CASE Pass
  <2>1. CASE Running
    BY <1>2, <2>1 DEF Pass, Running
  <2>2. CASE ~Running
    <3>1. blocked > 0 /\ ~rested
      BY <2>2 DEF Running
    <3> QED
      BY <1>2, <2>2, <3>1 DEF Pass
  <2> QED
    BY <2>1, <2>2
<1>3. CASE ~Pass /\ \A n \in 1..Block : ~StartBlock(n)
  <2>1. blocked' = blocked /\ rested' = rested
    BY <1>3 DEF Step, Receive, Pump, Connect, LoseSocket, PageNotices, Show,
                ClickControl, Ping, ServerNotices, OtherSends, ClickEstop, ApiEstop
  <2> QED
    BY <2>1
<1> QED
  BY <1>1, <1>2, <1>3

-----------------------------------------------------------------------------
(* A page that drives. *)

\* Whoever loses its socket, or gets a new one, does not drive.
LEMMA ConnectionFacts ==
  ASSUME ConsoleTypeOK, SessionInv, NEW p \in Pages,
         Connect(p) \/ LoseSocket(p) \/ PageNotices(p)
  PROVE  ~Drives(p)'
<1>1. CASE Connect(p)
  <2>1. nth'[p] \in 1..Connections /\ nth'[p] = nth[p] + 1
    BY <1>1, ConsoleAssumption DEF Connect, ConsoleTypeOK
  <2>2. nth[p] \in Nat /\ <<p, nth'[p]>> \notin open
    BY <2>1 DEF SessionInv, ConsoleTypeOK
  <2>3. <<p, nth'[p]>> \notin Others \cup {NoClient}
    BY <2>1, ConsoleAssumption, LockAssumption
  <2> QED
    BY <1>1, <2>2, <2>3 DEF Drives, Session, Connect, SessionInv
<1>2. CASE LoseSocket(p) \/ PageNotices(p)
  BY <1>2 DEF LoseSocket, PageNotices, Drives, Linked, ConsoleTypeOK
<1> QED
  BY <1>1, <1>2

\* The step is none of p's, and does not touch the lock p has.
Bystander(p) ==
  /\ up'[p] = up[p] /\ down'[p] = down[p] /\ shown'[p] = shown[p]
  /\ ping'[p] = ping[p] /\ blocked' = blocked /\ rested' = rested
  /\ Drives(p)' => Drives(p) /\ lock' = lock

\* What the other pages, their sessions and the e-stop do is none of p's.
LEMMA BystanderFacts ==
  ASSUME ConsoleTypeOK, SessionInv, NEW p \in Pages,
         \/ \E q \in Pages \ {p} : \/ Receive(q) \/ Pump(q) \/ Connect(q)
                                   \/ LoseSocket(q) \/ PageNotices(q) \/ Show(q)
                                   \/ ClickControl(q) \/ Ping(q)
         \/ \E s \in Clients : ServerNotices(s)
         \/ \E s \in Others, m \in UpMessages : OtherSends(s, m)
         \/ ClickEstop
  PROVE  Bystander(p)
<1> USE DEF ConsoleTypeOK, LockTypeOK
<1>1. ASSUME NEW q \in Pages, q # p, Receive(q) PROVE Bystander(p)
  <2>1. up'[p] = up[p] /\ down'[p] = down[p]
    BY <1>1 DEF Receive
  <2>2. Session(q) # Session(p)
    BY <1>1 DEF Session
  <2>3. Head(up[q]) \in UpMessages /\ Session(q) \in Clients
    BY <1>1, TailFacts, SessionFacts DEF Receive
  <2>4. ASSUME Drives(p)' PROVE Drives(p) /\ lock' = lock
    <3>1. Linked(p) /\ lock'.holder = Session(p) /\ Session(p) # NoClient
      BY <1>1, <2>4, SessionFacts DEF Receive, Drives, Linked, Session
    <3>2. lock' = lock
      BY <1>1, <2>2, <2>3, <3>1, HandledElsewhere DEF Receive
    <3> QED
      BY <3>1, <3>2 DEF Drives
  <2> QED
    BY <1>1, <2>1, <2>4 DEF Receive, Bystander
<1>2. ASSUME NEW k \in Locks, NEW s, Linked(p), Release(Expire(k), s).holder = Session(p)
      PROVE  Release(Expire(k), s) = k /\ Expire(k) = k
  <2>1. Session(p) # NoClient
    BY <1>2, SessionFacts
  <2>2. Expire(k).holder = Session(p) /\ s # Session(p)
    BY <1>2, <2>1, ExpireFacts, ReleaseFacts
  <2> QED
    BY <2>1, <2>2, ExpireFacts DEF Expire, Release
<1>3. ASSUME NEW q \in Pages, q # p, Pump(q) PROVE Bystander(p)
  <2>1. down'[p] = down[p]
    BY <1>3 DEF Pump
  <2>2. ASSUME Drives(p)' PROVE Drives(p) /\ lock' = lock
    <3>1. Linked(p) /\ Expire(lock).holder = Session(p)
      BY <1>3, <2>2 DEF Pump, Drives, Linked, Session
    <3>2. Expire(lock) = lock
      BY <3>1, SessionFacts, ExpireFacts DEF Expire
    <3> QED
      BY <1>3, <3>1, <3>2 DEF Pump, Drives
  <2> QED
    BY <1>3, <2>1, <2>2 DEF Pump, Bystander
<1>4. ASSUME NEW q \in Pages, q # p, Connect(q) PROVE Bystander(p)
  <2>1. nth'[p] = nth[p] /\ sock'[p] = sock[p] /\ Session(p)' # <<q, nth'[q]>>
    BY <1>4 DEF Connect, Session
  <2>2. Drives(p)' => Drives(p)
    BY <1>4, <2>1 DEF Connect, Drives, Linked, Session
  <2> QED
    BY <1>4, <2>2 DEF Connect, Bystander
<1>5. ASSUME NEW q \in Pages, q # p,
             LoseSocket(q) \/ PageNotices(q) \/ Show(q) \/ ClickControl(q) \/ Ping(q)
      PROVE  Bystander(p)
  <2>1. /\ up'[p] = up[p] /\ down'[p] = down[p] /\ shown'[p] = shown[p]
        /\ ping'[p] = ping[p] /\ blocked' = blocked /\ rested' = rested
        /\ lock' = lock /\ sock'[p] = sock[p] /\ nth' = nth /\ open' = open
    BY <1>5 DEF LoseSocket, PageNotices, Show, ClickControl, Ping, Sent
  <2> QED
    BY <2>1 DEF Bystander, Drives, Linked, Session
<1>6. ASSUME NEW s \in Clients, ServerNotices(s) PROVE Bystander(p)
  <2>1. ASSUME Drives(p)' PROVE Drives(p) /\ lock' = lock
    <3>1. Linked(p) /\ Release(Expire(lock), s).holder = Session(p)
      BY <1>6, <2>1 DEF ServerNotices, Drives, Linked, Session
    <3> QED
      BY <1>2, <1>6, <3>1 DEF ServerNotices, Drives
  <2> QED
    BY <1>6, <2>1 DEF ServerNotices, Bystander
<1>7. ASSUME NEW s \in Others, NEW m \in UpMessages, OtherSends(s, m)
      PROVE  Bystander(p)
  <2>1. ASSUME Drives(p)' PROVE Drives(p) /\ lock' = lock
    <3>1. Linked(p) /\ lock'.holder = Session(p) /\ Session(p) # NoClient
      BY <1>7, <2>1, SessionFacts DEF OtherSends, Drives, Linked, Session
    <3>2. s \in Clients /\ s # Session(p)
      BY <3>1, ConsoleAssumption DEF SessionInv, Linked
    <3>3. lock' = lock
      BY <1>7, <3>1, <3>2, HandledElsewhere DEF OtherSends
    <3> QED
      BY <3>1, <3>3 DEF Drives
  <2> QED
    BY <1>7, <2>1 DEF OtherSends, Bystander
<1>8. ASSUME ClickEstop PROVE Bystander(p)
  <2>1. PICK engaged \in BOOLEAN : ApiEstop(engaged)
    BY <1>8 DEF ClickEstop
  <2>2. ASSUME Drives(p)' PROVE Drives(p) /\ lock' = lock
    <3>1. Linked(p) /\ lock'.holder = Session(p)
      BY <2>1, <2>2 DEF ApiEstop, Drives, Linked, Session
    <3>2. CASE engaged
      BY <1>2, <2>1, <3>1, <3>2 DEF ApiEstop, Drives
    <3>3. CASE ~engaged
      BY <2>1, <3>1, <3>3 DEF ApiEstop, Drives
    <3> QED
      BY <3>2, <3>3
  <2> QED
    BY <2>1, <2>2 DEF ApiEstop, Bystander
<1> QED
  BY <1>1, <1>3, <1>4, <1>5, <1>6, <1>7, <1>8

\* A page that drives is heard of within the lease.
LEMMA HeardInTime ==
  ASSUME ConsoleTypeOK, NEW p \in Pages, HeardInv(p), Drives(p)
  PROVE  ~Lapsed(lock)
  BY ConsoleAssumption, LockAssumption
     DEF HeardInv, Lapsed, Locks, ConsoleTypeOK, LockTypeOK

\* What a bystander knew, and what was heard of it, is still so.
LEMMA BystanderStep ==
  ASSUME NEW p \in Pages, KnowsInv(p), HeardInv(p), Bystander(p)
  PROVE  KnowsInv(p)' /\ HeardInv(p)'
  BY DEF Bystander, KnowsInv, HeardInv, Releasing, ToldLast, ToldAlways

\* What the page puts behind what waits does not undo a release.
LEMMA SentFacts ==
  ASSUME ConsoleTypeOK, NEW p \in Pages, NEW m \in UpMessages, Sent(p, m), Linked(p)
  PROVE  /\ up'[p] # <<>> /\ (Releasing(p) => Releasing(p)')
         /\ m = "release" => Releasing(p)'
<1> USE DEF ConsoleTypeOK
<1>1. up'[p] = Append(up[p], m)
  BY DEF Sent
<1>2. /\ up'[p] # <<>> /\ Len(up'[p]) = Len(up[p]) + 1 /\ Len(up[p]) \in Nat
      /\ \A i \in 1..Len(up[p]) : up'[p][i] = up[p][i]
      /\ up'[p][Len(up[p]) + 1] = m
  <2>1. up[p] \in Seq(UpMessages)
    OBVIOUS
  <2>2. /\ Append(up[p], m) # <<>> /\ Len(Append(up[p], m)) = Len(up[p]) + 1
        /\ Len(up[p]) \in Nat
        /\ \A i \in 1..Len(up[p]) : Append(up[p], m)[i] = up[p][i]
        /\ Append(up[p], m)[Len(up[p]) + 1] = m
    BY <2>1, AppendFacts
  <2> QED
    BY <1>1, <2>2, Zenon
<1>3. Len(up[p]) + 1 \in 1..Len(up'[p]) /\ 1..Len(up[p]) \subseteq 1..Len(up'[p])
  BY <1>2
<1> QED
  BY <1>2, <1>3 DEF Releasing

\* The steps of the page and of its handler.
LEMMA DriverStep ==
  ASSUME ConsoleTypeOK, SessionInv, BlockInv, NEW p \in Pages,
         KnowsInv(p), HeardInv(p),
         Receive(p) \/ Pump(p) \/ Show(p) \/ ClickControl(p) \/ Ping(p)
  PROVE  KnowsInv(p)' /\ HeardInv(p)'
<1> USE DEF ConsoleTypeOK, LockTypeOK
<1> SUFFICES ASSUME Drives(p)'
             PROVE  KnowsInv(p)' /\ HeardInv(p)'
  BY DEF KnowsInv, HeardInv
<1>1. /\ Linked(p) /\ Session(p)' = Session(p) /\ lock'.holder = Session(p)
      /\ nth' = nth /\ open' = open /\ sock' = sock
      /\ blocked' = blocked /\ rested' = rested
  BY DEF Receive, Pump, Show, ClickControl, Ping, Drives, Linked, Session
<1>2. Session(p) \in Clients /\ Session(p) # NoClient
  BY <1>1, SessionFacts
<1>3. lock.idle \in Nat /\ blocked \in Nat /\ ping[p] \in 0..PingPeriod
  BY ConsoleAssumption DEF Locks
<1>4. CASE Receive(p)
  <2>1. /\ Head(up[p]) = up[p][1] /\ Head(up[p]) \in UpMessages
        /\ Tail(up[p]) \in Seq(UpMessages) /\ Len(up[p]) \in Nat \ {0}
        /\ Len(Tail(up[p])) = Len(up[p]) - 1
        /\ \A i \in 1..(Len(up[p]) - 1) : Tail(up[p])[i] = up[p][i + 1]
    BY <1>4, TailFacts DEF Receive
  <2>2. up'[p] = Tail(up[p]) /\ lock' = Handled(lock, Session(p), Head(up[p]))
    BY <1>4 DEF Receive
  <2>3. lock'.idle = 0 /\ Head(up[p]) # "release"
    BY <1>1, <1>2, <2>1, <2>2, HandledFacts
  <2>4. HeardInv(p)'
    BY <1>1, <1>3, <1>4, <2>3, ConsoleAssumption DEF HeardInv, Receive, Running
  <2>5. ASSUME ~Releasing(p)' PROVE ToldLast(p)'
    <3>1. CASE Head(up[p]) = "acquire"
      <4>1. down'[p] = Append(down[p], [control |-> TRUE])
        BY <1>1, <1>4, <3>1 DEF Receive
      <4>2. [control |-> TRUE] \in DownMessages
        BY DEF DownMessages
      <4>3. /\ down'[p] # <<>> /\ Len(down'[p]) = Len(down[p]) + 1
            /\ down'[p][Len(down[p]) + 1] = [control |-> TRUE]
        BY <4>1, <4>2, AppendFacts
      <4> QED
        BY <4>3 DEF ToldLast
    <3>2. CASE Head(up[p]) = "touch"
      <4>1. Drives(p)
        BY <1>1, <1>2, <2>1, <2>2, <3>2, HandledFacts DEF Drives
      <4>2. ~Releasing(p)
        <5>1. SUFFICES ASSUME NEW i \in 1..Len(up[p]), up[p][i] = "release"
                       PROVE  FALSE
          BY DEF Releasing
        <5>2. i # 1
          BY <2>1, <3>2, <5>1
        <5>3. /\ i - 1 \in 1..(Len(up[p]) - 1) /\ (i - 1) + 1 = i
          BY <2>1, <5>2
        <5>4. Tail(up[p])[i - 1] = "release"
          BY <2>1, <5>1, <5>3
        <5> QED
          BY <2>1, <2>2, <2>5, <5>3, <5>4 DEF Releasing
      <4> QED
        BY <1>4, <3>2, <4>1, <4>2 DEF KnowsInv, ToldLast, Receive
    <3> QED
      BY <2>1, <2>3, <3>1, <3>2 DEF UpMessages
  <2> QED
    BY <2>3, <2>4, <2>5 DEF KnowsInv
<1>5. CASE Pump(p)
  <2>1. Expire(lock).holder = Session(p) /\ lock' = lock /\ Drives(p)
    BY <1>1, <1>2, <1>5, ExpireFacts DEF Pump, Expire, Drives
  <2>2. HeardInv(p)'
    BY <1>1, <1>5, <2>1 DEF HeardInv, Pump
  <2>3. PICK m \in DownMessages : m.control /\ down'[p] = Append(down[p], m)
    <3>1. Facts(p).control /\ Facts(p) \in DownMessages
      BY <2>1 DEF Facts, DownMessages, Showing
    <3> QED
      BY <1>5, <3>1 DEF Pump
  <2>4. /\ down'[p] # <<>> /\ Len(down'[p]) = Len(down[p]) + 1
        /\ Len(down[p]) \in Nat
        /\ \A i \in 1..Len(down[p]) : down'[p][i] = down[p][i]
        /\ down'[p][Len(down[p]) + 1] = m
    <3>1. down[p] \in Seq(DownMessages)
      OBVIOUS
    <3>2. /\ Append(down[p], m) # <<>> /\ Len(Append(down[p], m)) = Len(down[p]) + 1
          /\ Len(down[p]) \in Nat
          /\ \A i \in 1..Len(down[p]) : Append(down[p], m)[i] = down[p][i]
          /\ Append(down[p], m)[Len(down[p]) + 1] = m
      BY <3>1, AppendFacts
    <3> QED
      BY <2>3, <3>2
  <2>5. ToldLast(p)'
    BY <2>3, <2>4 DEF ToldLast
  <2>6. ToldAlways(p) => ToldAlways(p)'
    BY <1>5, <2>3, <2>4 DEF ToldAlways, Pump
  <2>7. Releasing(p)' <=> Releasing(p)
    BY <1>5 DEF Pump, Releasing
  <2> QED
    BY <2>1, <2>2, <2>5, <2>6, <2>7 DEF KnowsInv
<1>6. CASE Show(p)
  <2>1. Drives(p) /\ HeardInv(p)' /\ (Releasing(p)' <=> Releasing(p)) /\ lock' = lock
    BY <1>1, <1>6 DEF Show, Drives, HeardInv, Releasing
  <2>2. /\ Head(down[p]) = down[p][1] /\ Head(down[p]) \in DownMessages
        /\ Len(down[p]) \in Nat \ {0} /\ Tail(down[p]) \in Seq(DownMessages)
        /\ Len(Tail(down[p])) = Len(down[p]) - 1
        /\ Tail(down[p]) = <<>> <=> Len(down[p]) = 1
        /\ \A i \in 1..(Len(down[p]) - 1) : Tail(down[p])[i] = down[p][i + 1]
        /\ Len(down[p]) > 1 => Tail(down[p])[Len(down[p]) - 1] = down[p][Len(down[p])]
    <3>1. down[p] \in Seq(DownMessages) /\ down[p] # <<>>
      BY <1>6 DEF Show
    <3> QED
      BY <3>1, TailFacts, Zenon
  <2>3. down'[p] = Tail(down[p]) /\ shown'[p].control = down[p][1].control
    BY <1>6, <2>2, ShownFacts DEF Show
  <2>4. ToldLast(p) => ToldLast(p)'
    <3>1. CASE Len(down[p]) = 1
      BY <1>6, <2>2, <2>3, <3>1 DEF ToldLast, Show
    <3>2. CASE Len(down[p]) > 1
      BY <1>6, <2>2, <2>3, <3>2 DEF ToldLast, Show
    <3> QED
      BY <2>2, <3>1, <3>2
  <2>5. ToldAlways(p) => ToldAlways(p)'
    <3>1. /\ 1 \in 1..Len(down[p])
          /\ \A i \in 1..(Len(down[p]) - 1) : i + 1 \in 1..Len(down[p])
      BY <2>2
    <3> QED
      BY <2>2, <2>3, <3>1 DEF ToldAlways
  <2> QED
    BY <2>1, <2>4, <2>5 DEF KnowsInv
<1>7. CASE ClickControl(p)
  <2>1. Drives(p) /\ lock' = lock /\ down' = down /\ ping' = ping
    BY <1>1, <1>7 DEF ClickControl, Drives
  <2>2. PICK m \in {"acquire", "release"} :
          Sent(p, m) /\ (m = "release" \/ shown' = shown)
    BY <1>7 DEF ClickControl
  <2>3. /\ up'[p] # <<>> /\ (Releasing(p) => Releasing(p)')
        /\ m = "release" => Releasing(p)'
    BY <1>1, <2>2, SentFacts DEF UpMessages
  <2>4. HeardInv(p)'
    BY <1>1, <1>3, <2>1, <2>3, ConsoleAssumption DEF HeardInv, BlockInv
  <2>5. KnowsInv(p)'
    BY <2>1, <2>2, <2>3 DEF KnowsInv, ToldLast, ToldAlways
  <2> QED
    BY <2>4, <2>5
<1>8. CASE Ping(p)
  <2>1. Drives(p) /\ lock' = lock /\ down' = down /\ shown' = shown /\ ping'[p] = 0
    BY <1>1, <1>8 DEF Ping, Drives
  <2>2. Releasing(p) => Releasing(p)'
    BY <1>1, <1>8, SentFacts DEF Ping, UpMessages, Releasing
  <2>3. KnowsInv(p)'
    BY <2>1, <2>2 DEF KnowsInv, ToldLast, ToldAlways
  <2>4. CASE up'[p] = up[p]
    \* The page may show that it does not drive, but then it was just granted.
    <3>1. up[p] = <<>> => ~shown[p].control
      <4>1. SUFFICES ASSUME up[p] = <<>>, shown[p].control PROVE FALSE
        OBVIOUS
      <4>2. Sent(p, "touch")
        BY <1>8, <4>1 DEF Ping
      <4> QED
        BY <1>1, <2>4, <4>1, <4>2, SentFacts DEF UpMessages
    <3>2. up[p] = <<>> => ~Releasing(p)
      BY DEF Releasing
    <3>3. up[p] = <<>> => lock.idle = 0
      BY <2>1, <3>1, <3>2 DEF KnowsInv, ToldAlways
    <3> QED
      BY <1>1, <1>3, <2>1, <2>3, <2>4, <3>3 DEF HeardInv
  <2>5. CASE up'[p] # up[p]
    <3>1. up'[p] # <<>>
      BY <1>1, <1>8, <2>5, SentFacts DEF Ping, UpMessages
    <3> QED
      BY <1>1, <1>3, <2>1, <2>3, <3>1, ConsoleAssumption DEF HeardInv, BlockInv
  <2> QED
    BY <2>4, <2>5
<1> QED
  BY <1>4, <1>5, <1>6, <1>7, <1>8

\* A blocked loop.  Nothing it does is p's.
LEMMA BlockedStep ==
  ASSUME ConsoleTypeOK, BlockInv, NEW p \in Pages, KnowsInv(p), HeardInv(p),
         NEW n \in 1..Block, StartBlock(n)
  PROVE  KnowsInv(p)' /\ HeardInv(p)'
<1>1. /\ Drives(p)' <=> Drives(p)
      /\ lock' = lock /\ up' = up /\ down' = down /\ shown' = shown /\ ping' = ping
      /\ rested /\ ~rested' /\ blocked' = n
  BY DEF StartBlock, Drives, Linked, Session
<1>2. KnowsInv(p)'
  BY <1>1 DEF KnowsInv, Releasing, ToldLast, ToldAlways
<1>3. HeardInv(p)'
  BY <1>1, ConsoleAssumption DEF HeardInv, ConsoleTypeOK, LockTypeOK, Locks
<1> QED
  BY <1>2, <1>3

\* A tick.  What p was told it has read, and what it sent has been handled, unless
\* the loop is blocked.
LEMMA PassStep ==
  ASSUME ConsoleTypeOK, BlockInv, NEW p \in Pages, KnowsInv(p), HeardInv(p), Pass
  PROVE  KnowsInv(p)' /\ HeardInv(p)'
<1>0. /\ lock \in Locks /\ ping[p] \in Nat /\ blocked \in Nat
      /\ PingPeriod \in Nat /\ Block \in Nat /\ rested \in BOOLEAN
  BY ConsoleAssumption DEF ConsoleTypeOK, LockTypeOK
<1>1. /\ up' = up /\ down' = down /\ shown' = shown /\ down[p] = <<>>
      /\ Linked(p)' = Linked(p) /\ Session(p)' = Session(p)
      /\ lock' = Aged(lock) /\ ping'[p] = ping[p] + 1
      /\ Running => up[p] = <<>> /\ blocked' = 0
      /\ ~Running => blocked' = blocked - 1 /\ rested' = rested
  BY DEF Pass, Linked, Session, ConsoleTypeOK
<1>2. /\ lock.idle \in Nat /\ lock'.idle \in Nat
      /\ lock'.idle <= lock.idle + 1 /\ lock'.holder = lock.holder
  BY <1>0, <1>1, AgedFacts, LockAssumption DEF Locks
<1>3. Drives(p)' => Drives(p)
  BY <1>1, <1>2 DEF Drives
<1>4. KnowsInv(p)'
  <2>1. ToldLast(p) => ToldLast(p)' /\ ToldAlways(p)'
    <3>1. Len(down[p]) = 0
      BY <1>1
    <3> QED
      BY <1>1, <3>1 DEF ToldLast, ToldAlways
  <2>2. Releasing(p)' <=> Releasing(p)
    BY <1>1 DEF Releasing
  <2> QED
    BY <1>3, <2>1, <2>2 DEF KnowsInv
<1>5. HeardInv(p)'
  <2> SUFFICES ASSUME Drives(p)'
               PROVE  /\ up[p] = <<>> => lock'.idle <= ping'[p]
                      /\ up[p] # <<>> => lock'.idle + blocked' <= PingPeriod + Block
                      /\ up[p] # <<>> /\ rested' => lock'.idle <= PingPeriod
    BY <1>1 DEF HeardInv
  <2>0. /\ up[p] = <<>> => lock.idle <= ping[p]
        /\ up[p] # <<>> => lock.idle + blocked <= PingPeriod + Block
    BY <1>3 DEF HeardInv
  <2>1. CASE Running
    BY <1>0, <1>1, <1>2, <2>0, <2>1
  <2>2. CASE ~Running
    <3>1. blocked > 0 /\ ~rested'
      BY <1>0, <1>1, <2>2 DEF BlockInv, Running
    <3> QED
      BY <1>0, <1>1, <1>2, <2>0, <2>2, <3>1
  <2> QED
    BY <2>1, <2>2
<1> QED
  BY <1>4, <1>5

\* All of it is kept.
LEMMA ConsoleStep == ConsoleInv /\ [ConsoleNext]_consoleVars => ConsoleInv'
<1> SUFFICES ASSUME ConsoleInv, [ConsoleNext]_consoleVars PROVE ConsoleInv'
  OBVIOUS
<1> USE DEF ConsoleInv
<1>1. CASE ConsoleNext
  <2>1. Step \/ Pass
    BY <1>1 DEF ConsoleNext
  <2>2. ConsoleTypeOK' /\ SessionInv' /\ BlockInv'
    BY <1>1, <2>1, ConsoleTypeStep, SessionStep, BlockStep
  <2>3. ASSUME NEW p \in Pages PROVE KnowsInv(p)' /\ HeardInv(p)'
    <3>1. CASE Bystander(p)
      BY <2>3, <3>1, BystanderStep
    <3>2. CASE Connect(p) \/ LoseSocket(p) \/ PageNotices(p)
      <4>1. ~Drives(p)'
        BY <2>3, <3>2, ConnectionFacts
      <4> QED
        BY <4>1 DEF KnowsInv, HeardInv
    <3>3. CASE Receive(p) \/ Pump(p) \/ Show(p) \/ ClickControl(p) \/ Ping(p)
      BY <2>3, <3>3, DriverStep
    <3>4. ASSUME NEW n \in 1..Block, StartBlock(n)
          PROVE  KnowsInv(p)' /\ HeardInv(p)'
      BY <2>3, <3>4, BlockedStep
    <3>5. CASE Pass
      BY <2>3, <3>5, PassStep
    <3> QED
      BY <2>1, <2>3, <3>1, <3>2, <3>3, <3>4, <3>5, BystanderFacts DEF Step
  <2> QED
    BY <2>2, <2>3
<1>2. CASE UNCHANGED consoleVars
  BY <1>2 DEF consoleVars, ConsoleTypeOK, LockTypeOK, SessionInv, BlockInv, KnowsInv,
              HeardInv, Drives, Linked, Session, Releasing, ToldLast, ToldAlways
<1> QED
  BY <1>1, <1>2

\* And it holds at first.
LEMMA ConsoleStart == ConsoleInit => ConsoleInv
<1> SUFFICES ASSUME ConsoleInit PROVE ConsoleInv
  OBVIOUS
<1>1. lock = Free /\ Free \in Locks /\ Free.holder = NoClient
  BY LockAssumption DEF ConsoleInit, LockInit, Free, Locks
<1>2. [p \in Pages |-> [b \in Badges |-> FALSE]] \in [Pages -> Showing]
  BY DEF Showing, Badges
<1>3. ConsoleTypeOK
  <2>1. estop \in BOOLEAN /\ rested \in BOOLEAN
    BY DEF ConsoleInit
  <2>2. /\ up \in [Pages -> Seq(UpMessages)] /\ down \in [Pages -> Seq(DownMessages)]
        /\ sock \in [Pages -> {"open", "lost", "closed"}]
    BY DEF ConsoleInit
  <2>3. /\ blocked \in 0..Block /\ nth \in [Pages -> 0..Connections]
        /\ ping \in [Pages -> 0..PingPeriod] /\ wrong \in [Pages -> 0..(Lag + 1)]
    BY ConsoleAssumption DEF ConsoleInit, Lag
  <2> QED
    BY <1>1, <1>2, <2>1, <2>2, <2>3 DEF ConsoleInit, ConsoleTypeOK, LockTypeOK
<1>4. SessionInv /\ BlockInv
  BY <1>1 DEF ConsoleInit, SessionInv, BlockInv
<1>5. ASSUME NEW p \in Pages PROVE ~Drives(p)
  BY <1>5 DEF ConsoleInit, Drives, Linked
<1> QED
  BY <1>3, <1>4, <1>5 DEF ConsoleInv, KnowsInv, HeardInv

\* The invariant holds.
LEMMA ConsoleInvariant == ConsoleSpec => []ConsoleInv
  BY ConsoleStart, ConsoleStep, PTL DEF ConsoleSpec

\* For any number of pages and reconnects, the queues and what the pages show have
\* their types.
THEOREM ConsoleTypeCorrect == ConsoleSpec => []ConsoleTypeOK
<1>1. ConsoleInv => ConsoleTypeOK
  BY DEF ConsoleInv
<1> QED
  BY <1>1, ConsoleInvariant, PTL

\* For any number of pages, of reconnects and of messages under way, and for every
\* lease that is at least a ping period and a blocked loop long, a page that is
\* connected does not lose the lock by silence.
THEOREM LiveDriverHolds == ConsoleSpec => []LiveDriverKeeps
<1>1. ConsoleInv => LiveDriverKeeps
  BY HeardInTime DEF ConsoleInv, LiveDriverKeeps, Drives
<1> QED
  BY <1>1, ConsoleInvariant, PTL

\* A message of the holder's own other than a release leaves it the lock.
LEMMA HandledOwn ==
  ASSUME NEW k \in Locks, NEW s \in Clients, NEW m \in UpMessages,
         ~Lapsed(k), k.holder = s, m # "release"
  PROVE  Handled(k, s, m).holder = s
<1>1. Touch(k, s) \in Locks /\ ~Lapsed(Touch(k, s)) /\ Touch(k, s).holder = s
  BY TouchFacts, ExpireFacts
<1>2. Acquire(Touch(k, s), s, s).holder = s
  BY <1>1, AcquireFacts
<1> QED
  BY <1>1, <1>2 DEF Handled, UpMessages

\* The steps of the server that may take the lock from a page that drives: only a
\* release of its own does.
LEMMA ServerLeaves ==
  ASSUME ConsoleInv, NEW p \in Pages, Drives(p), ~Drives(p)',
         \/ \E q \in Pages : Receive(q) \/ Pump(q)
         \/ \E s \in Clients : ServerNotices(s)
         \/ \E s \in Others, m \in UpMessages : OtherSends(s, m)
         \/ ClickEstop
  PROVE  (Receive(p) /\ Head(up[p]) = "release") \/ ApiEstop(TRUE)
<1> USE DEF ConsoleInv, ConsoleTypeOK, LockTypeOK
<1>1. /\ Linked(p) /\ lock.holder = Session(p) /\ lock \in Locks
      /\ Session(p) \in Clients /\ Session(p) # NoClient
  BY SessionFacts DEF Drives
<1>2. ~Lapsed(lock) /\ Expire(lock) = lock
  BY HeardInTime DEF Expire
<1>3. ASSUME UNCHANGED <<nth, sock>>, Session(p) \in open' PROVE lock' # lock
  BY <1>1, <1>3 DEF Drives, Linked, Session
<1>4. ASSUME NEW q \in Pages, Receive(q)
      PROVE  q = p /\ Head(up[p]) = "release"
  <2>1. UNCHANGED <<nth, sock, open>> /\ Session(p) \in open
        /\ lock' = Handled(lock, Session(q), Head(up[q]))
    BY <1>1, <1>4 DEF Receive, Linked
  <2>2. Head(up[q]) \in UpMessages /\ Session(q) \in Clients
    BY <1>4, TailFacts, SessionFacts DEF Receive
  <2>3. CASE q # p
    <3>1. Session(q) # Session(p)
      BY <2>3 DEF Session
    <3>2. lock' = lock
      BY <1>1, <1>2, <2>1, <2>2, <3>1, HandledLeaves
    <3> QED
      BY <1>3, <2>1, <3>2
  <2>4. CASE q = p
    <3>1. lock'.holder # Session(p)
      BY <1>1, <2>1 DEF Drives, Linked, Session
    <3> QED
      BY <1>1, <1>2, <2>1, <2>2, <2>4, <3>1, HandledOwn
  <2> QED
    BY <2>3, <2>4
<1>5. ASSUME NEW q \in Pages, Pump(q) PROVE FALSE
  BY <1>1, <1>2, <1>3, <1>5 DEF Pump, Linked
<1>6. ASSUME NEW s \in Clients, ServerNotices(s) PROVE FALSE
  <2>1. s # Session(p)
    BY <1>1, <1>6 DEF ServerNotices, Session
  <2>2. lock' = lock /\ UNCHANGED <<nth, sock>> /\ Session(p) \in open'
    BY <1>1, <1>2, <1>6, <2>1 DEF ServerNotices, Release, Linked
  <2> QED
    BY <1>3, <2>2
<1>7. ASSUME NEW s \in Others, NEW m \in UpMessages, OtherSends(s, m) PROVE FALSE
  <2>1. s \in Clients /\ s # Session(p)
    BY <1>1, ConsoleAssumption DEF SessionInv, Linked
  <2>2. lock' = lock /\ UNCHANGED <<nth, sock, open>>
    BY <1>1, <1>2, <1>7, <2>1, HandledLeaves DEF OtherSends
  <2> QED
    BY <1>1, <1>3, <2>2 DEF Linked
<1>8. ASSUME ClickEstop PROVE ApiEstop(TRUE)
  <2>1. PICK engaged \in BOOLEAN : ApiEstop(engaged)
    BY <1>8 DEF ClickEstop
  <2>2. ASSUME engaged = FALSE PROVE FALSE
    BY <1>1, <1>3, <2>1, <2>2 DEF ApiEstop, Linked
  <2> QED
    BY <2>1, <2>2
<1> QED
  BY <1>4, <1>5, <1>6, <1>7, <1>8

\* For any number of pages, of reconnects and of messages under way: a page that
\* drives keeps the lock until its socket is lost, it has released, or the e-stop
\* is engaged.
THEOREM DriverKeeps == ConsoleSpec => DriverKeepsUntil
<1> DEFINE Until == \A p \in Pages : Drives(p) /\ ~Drives(p)'
                      => \/ LoseSocket(p)
                         \/ Receive(p) /\ Head(up[p]) = "release"
                         \/ ApiEstop(TRUE)
<1>1. ConsoleInv /\ [ConsoleNext]_consoleVars => [Until]_consoleVars
  <2> SUFFICES ASSUME ConsoleInv, ConsoleNext,
                      NEW p \in Pages, Drives(p), ~Drives(p)', ~LoseSocket(p)
               PROVE  (Receive(p) /\ Head(up[p]) = "release") \/ ApiEstop(TRUE)
    OBVIOUS
  <2> USE DEF ConsoleInv, ConsoleTypeOK, LockTypeOK
  <2>1. sock[p] = "open" /\ Session(p) \in open /\ lock.holder = Session(p)
    BY DEF Drives, Linked
  <2>2. ASSUME sock'[p] = sock[p], nth'[p] = nth[p], open \subseteq open',
               lock'.holder = lock.holder
        PROVE  FALSE
    BY <2>1, <2>2 DEF Drives, Linked, Session
  <2>3. ASSUME NEW q \in Pages, Connect(q) PROVE FALSE
    BY <2>1, <2>2, <2>3 DEF Connect
  <2>4. ASSUME NEW q \in Pages, LoseSocket(q) \/ PageNotices(q) PROVE FALSE
    BY <2>1, <2>2, <2>4 DEF LoseSocket, PageNotices
  <2>5. ASSUME NEW q \in Pages, Show(q) \/ ClickControl(q) \/ Ping(q) PROVE FALSE
    BY <2>1, <2>2, <2>5 DEF Show, ClickControl, Ping
  <2>6. ASSUME NEW n \in 1..Block, StartBlock(n) PROVE FALSE
    BY <2>1, <2>2, <2>6 DEF StartBlock
  <2>7. CASE Pass
    BY <2>1, <2>2, <2>7, AgedFacts DEF Pass
  <2> QED
    BY <2>3, <2>4, <2>5, <2>6, <2>7, ServerLeaves DEF ConsoleNext, Step
<1> QED
  BY <1>1, ConsoleInvariant, PTL DEF ConsoleSpec, DriverKeepsUntil

\* For any number of pages: the lock whose sessions time out, reconnect and are
\* cleaned up late is a lease that ends on time.
THEOREM ConsoleLease == ConsoleSpec => ImplementsLease
<1>1. ConsoleInit => Exact!Init
  BY FreeLease DEF ConsoleInit, LockInit
<1>2. ConsoleInv /\ [ConsoleNext]_consoleVars => [Exact!Next]_(Exact!vars)
  <2> SUFFICES ASSUME ConsoleInv, [ConsoleNext]_consoleVars
               PROVE  [Exact!Next]_(Exact!vars)
    OBVIOUS
  <2>0. lock \in Locks /\ Expire(lock) \in Locks /\ Keeps(lock, Expire(lock))
    BY ExpireFacts, ExpireMoves DEF ConsoleInv, ConsoleTypeOK, LockTypeOK
  <2>1. ASSUME UNCHANGED lock PROVE Moves(lock, lock')
    BY <2>1 DEF Moves, Keeps
  <2>2. ASSUME lock' = Expire(lock) PROVE Moves(lock, lock')
    BY <2>0, <2>2 DEF Moves
  <2>3. ASSUME NEW s, lock' = Release(Expire(lock), s) PROVE Moves(lock, lock')
    <3>1. Keeps(Expire(lock), lock') \/ Frees(lock')
      BY <2>0, <2>3, ReleaseMoves
    <3> QED
      BY <2>0, <3>1 DEF Moves, Keeps
  <2>4. ASSUME NEW s \in Clients, NEW m \in UpMessages, lock' = Handled(lock, s, m)
        PROVE  Moves(lock, lock')
    <3>1. Touch(lock, s) \in Locks
          /\ (Keeps(lock, Touch(lock, s)) \/ Renews(lock, Touch(lock, s), s))
      BY <2>0, TouchFacts, TouchMoves
    <3>2. CASE m = "touch"
      BY <2>4, <3>1, <3>2 DEF Handled, Moves
    <3>3. CASE m = "acquire"
      <4>1. Keeps(Touch(lock, s), lock') \/ Renews(Touch(lock, s), lock', s)
        BY <2>4, <3>1, <3>3, AcquireMoves DEF Handled, Keeps
      <4> QED
        BY <3>1, <4>1, MovesTwice
    <3>4. CASE m = "release"
      <4>1. Keeps(Touch(lock, s), lock') \/ Frees(lock')
        BY <2>4, <3>1, <3>4, ReleaseMoves DEF Handled
      <4> QED
        BY <3>1, <4>1, MovesTwice
    <3> QED
      BY <3>2, <3>3, <3>4 DEF UpMessages
  <2>5. ASSUME NEW p \in Pages, Receive(p) PROVE Moves(lock, lock')
    <3>1. Head(up[p]) \in UpMessages /\ Session(p) \in Clients
      BY <2>5, TailFacts, SessionFacts DEF Receive, ConsoleInv, ConsoleTypeOK
    <3> QED
      BY <2>4, <2>5, <3>1 DEF Receive
  <2>6. ASSUME NEW s \in Others, NEW m \in UpMessages, OtherSends(s, m)
        PROVE  Moves(lock, lock')
    BY <2>4, <2>6, ConsoleAssumption DEF OtherSends
  <2>7. ASSUME ClickEstop PROVE Moves(lock, lock')
    BY <2>1, <2>3, <2>7 DEF ClickEstop, ApiEstop
  <2>8. CASE Pass
    BY <2>0, <2>8, AgedLease DEF Pass
  <2> QED
    BY <2>1, <2>2, <2>3, <2>5, <2>6, <2>7, <2>8, MovesLease
    DEF ConsoleNext, Step, Pump, Connect, LoseSocket, PageNotices, Show,
        ClickControl, Ping, ServerNotices, StartBlock, consoleVars
<1> QED
  BY <1>1, <1>2, ConsoleInvariant, PTL
  DEF ConsoleSpec, ImplementsLease, Exact!Spec

-----------------------------------------------------------------------------
(* The badges. *)

\* Two that differ from a third agree.
LEMMA TwoOfThree ==
  ASSUME NEW a \in BOOLEAN, NEW b \in BOOLEAN, NEW c \in BOOLEAN, a # b, a # c
  PROVE  b = c
  BY Zenon

\* The badge shown and its truth are either of two.
LEMMA BadgeFacts ==
  ASSUME ConsoleTypeOK, NEW p \in Pages
  PROVE  /\ shown[p][watched] \in BOOLEAN /\ Facts(p)[watched] \in BOOLEAN
         /\ Facts(p) \in DownMessages /\ watched \in DOMAIN Facts(p)
<1>1. Facts(p) \in Showing
  BY DEF ConsoleTypeOK, Showing, Facts
<1>2. shown[p] \in Showing /\ watched \in {"control", "estop"}
  BY DEF ConsoleTypeOK, Badges
<1>3. ASSUME NEW s \in Showing
      PROVE  s[watched] \in BOOLEAN /\ watched \in DOMAIN s
  BY <1>2 DEF Showing
<1> QED
  BY <1>1, <1>2, <1>3 DEF DownMessages

\* A tick counts if it leaves the page wrong.
LEMMA CountFacts ==
  ASSUME ConsoleTypeOK, NEW p \in Pages, NEW d \in 0..1, Count(d)
  PROVE  /\ watched' = watched /\ wrong'[p] \in Nat /\ wrong'[p] <= wrong[p] + d
         /\ (~Linked(p)' \/ shown'[p][watched] = Facts(p)'[watched]) => wrong'[p] = 0
  BY ConsoleAssumption DEF Count, ConsoleTypeOK, Lag

\* A page that is right, or cut off, is right.
LEMMA BadgeClear ==
  ASSUME ConsoleTypeOK, ConsoleTypeOK', NEW p \in Pages, NEW d \in 0..1, Count(d),
         wrong'[p] <= 0
  PROVE  BadgeInv(p)'
<1>1. wrong' \in [Pages -> Nat] /\ blocked' \in Int /\ Block \in Int
      /\ blocked' <= Block
  BY ConsoleAssumption DEF ConsoleTypeOK, Lag
<1>2. wrong'[p] + blocked' <= Block + 1 /\ wrong'[p] <= 1 /\ ~(wrong'[p] > 0)
  BY <1>1
<1>3. wrong'[p] = 0
  BY <1>1
<1> QED
  BY <1>2, <1>3 DEF BadgeInv

\* A step that either shows p something or changes the truth, and takes nothing from
\* what is on its way to p.
LEMMA BadgeKept ==
  ASSUME ConsoleTypeOK, ConsoleTypeOK', NEW p \in Pages, BadgeInv(p), Count(0),
         blocked' = blocked, rested' = rested, nth' = nth, pumped' = pumped,
         shown' = shown \/ (lock' = lock /\ estop' = estop),
         \A m \in DownMessages :
           (\E i \in 1..Len(down[p]) : down[p][i] = m)
             => \E i \in 1..Len(down'[p]) : down'[p][i] = m
  PROVE  BadgeInv(p)'
<1>1. /\ watched' = watched /\ wrong'[p] \in Nat /\ wrong'[p] <= wrong[p]
      /\ (~Linked(p)' \/ shown'[p][watched] = Facts(p)'[watched]) => wrong'[p] = 0
  <2>1. 0 \in 0..1 /\ wrong[p] \in Nat
    BY ConsoleAssumption DEF ConsoleTypeOK, Lag
  <2>2. wrong'[p] <= wrong[p] + 0
    BY <2>1, CountFacts
  <2> QED
    BY <2>1, <2>2, CountFacts
<1>2. wrong[p] \in Nat /\ blocked \in Nat /\ Block \in Nat
  BY ConsoleAssumption DEF ConsoleTypeOK, Lag
<1>3. ASSUME wrong'[p] > 0, Session(p)' \in pumped' PROVE Correcting(p)'
  <2>1. wrong[p] > 0 /\ Session(p) \in pumped
    BY <1>1, <1>2, <1>3 DEF Session
  <2>2. Facts(p)'[watched] = Facts(p)[watched]
    <3>1. CASE shown' = shown
      <4>1. shown[p][watched] # Facts(p)[watched]
        BY <1>2, <2>1 DEF BadgeInv
      <4>2. shown[p][watched] # Facts(p)'[watched]
        BY <1>1, <1>3, <3>1
      <4>3. Facts(p)'[watched] \in BOOLEAN
        <5>1. Facts(p)' \in Showing /\ watched \in {"control", "estop"}
          BY DEF ConsoleTypeOK, Facts, Showing, Badges
        <5> QED
          BY <5>1 DEF Showing
      <4> QED
        BY <4>1, <4>2, <4>3, BadgeFacts, TwoOfThree
    <3>2. CASE lock' = lock /\ estop' = estop
      BY <3>2 DEF Facts, Session
    <3> QED
      BY <3>1, <3>2
  <2>3. PICK i \in 1..Len(down[p]) : /\ watched \in DOMAIN down[p][i]
                                     /\ down[p][i][watched] = Facts(p)[watched]
    BY <2>1 DEF BadgeInv, Correcting
  <2>4. down[p][i] \in DownMessages
    BY <2>3 DEF ConsoleTypeOK
  <2>5. PICK j \in 1..Len(down'[p]) : down'[p][j] = down[p][i]
    BY <2>4
  <2> QED
    BY <1>1, <2>2, <2>3, <2>5 DEF Correcting
<1> QED
  BY <1>1, <1>2, <1>3 DEF BadgeInv

\* What waits still waits when a message is put behind it.
LEMMA KeepsFacts ==
  ASSUME NEW q \in Seq(DownMessages), NEW n \in DownMessages, NEW m \in DownMessages,
         \E i \in 1..Len(q) : q[i] = m
  PROVE  \E i \in 1..Len(Append(q, n)) : Append(q, n)[i] = m
<1>1. PICK i \in 1..Len(q) : q[i] = m
  OBVIOUS
<1>2. i \in 1..Len(Append(q, n)) /\ Append(q, n)[i] = m
  BY <1>1, AppendFacts
<1> QED
  BY <1>2

\* Each step but a tick and a blocked loop keeps what is known of the badge.
LEMMA BadgeStep ==
  ASSUME ConsoleTypeOK, ConsoleTypeOK', BlockInv, NEW p \in Pages, BadgeInv(p),
         Step, Count(0)
  PROVE  BadgeInv(p)'
<1> USE DEF ConsoleTypeOK, LockTypeOK
<1>1. /\ watched' = watched /\ wrong'[p] \in Nat /\ wrong'[p] <= wrong[p]
      /\ (~Linked(p)' \/ shown'[p][watched] = Facts(p)'[watched]) => wrong'[p] = 0
  <2>1. 0 \in 0..1 /\ wrong[p] \in Nat
    BY ConsoleAssumption DEF Lag
  <2>2. wrong'[p] <= wrong[p] + 0
    BY <2>1, CountFacts
  <2> QED
    BY <2>1, <2>2, CountFacts
<1>2. wrong[p] \in Nat /\ blocked \in Nat /\ Block \in Nat /\ 0 \in 0..1
  BY ConsoleAssumption DEF Lag
<1>3. ASSUME wrong'[p] = 0 PROVE BadgeInv(p)'
  <2>1. wrong'[p] <= 0
    BY <1>1, <1>3
  <2> QED
    BY <1>2, <2>1, BadgeClear
<1>4. ASSUME blocked' = blocked, rested' = rested,
              wrong'[p] > 0 /\ Session(p)' \in pumped' => Correcting(p)'
       PROVE  BadgeInv(p)'
  <2>1. wrong'[p] + blocked' <= Block + 1
    BY <1>1, <1>2, <1>4 DEF BadgeInv
  <2>2. rested' => wrong'[p] <= 1
    BY <1>1, <1>2, <1>4 DEF BadgeInv
  <2> QED
    BY <1>1, <1>4, <2>1, <2>2 DEF BadgeInv
<1>5. ASSUME NEW q \in Pages, Receive(q) PROVE BadgeInv(p)'
  <2>1. ASSUME NEW m \in DownMessages, \E i \in 1..Len(down[p]) : down[p][i] = m
        PROVE  \E i \in 1..Len(down'[p]) : down'[p][i] = m
    <3>1. CASE down'[p] = down[p]
      BY <2>1, <3>1
    <3>2. CASE down'[p] # down[p]
      <4>1. PICK n \in DownMessages : down'[p] = Append(down[p], n)
        BY <1>5, <3>2 DEF Receive, DownMessages
      <4>2. down[p] \in Seq(DownMessages)
        OBVIOUS
      <4>3. \E i \in 1..Len(Append(down[p], n)) : Append(down[p], n)[i] = m
        BY <2>1, <4>1, <4>2, KeepsFacts, Zenon
      <4> QED
        BY <4>1, <4>3
    <3> QED
      BY <3>1, <3>2
  <2> QED
    BY <1>5, <2>1, BadgeKept DEF Receive
<1>6. ASSUME NEW q \in Pages, q # p, Pump(q) PROVE BadgeInv(p)'
  <2>1. /\ down'[p] = down[p] /\ blocked' = blocked /\ rested' = rested
        /\ shown' = shown /\ nth' = nth /\ estop' = estop /\ lock' = Expire(lock)
        /\ Session(p) \in pumped' => Session(p) \in pumped
    BY <1>6 DEF Pump, Session
  <2>2. Expire(Expire(lock)) = Expire(lock)
    BY ExpireFacts DEF Expire
  <2>3. Facts(p)' = Facts(p)
    BY <2>1, <2>2 DEF Facts, Session
  <2>4. Correcting(p) => Correcting(p)'
    BY <1>1, <2>1, <2>3 DEF Correcting
  <2>5. wrong'[p] > 0 /\ Session(p)' \in pumped' => Correcting(p)'
    <3>1. Session(p)' = Session(p)
      BY <2>1 DEF Session
    <3> QED
      BY <1>1, <1>2, <2>1, <2>4, <3>1 DEF BadgeInv
  <2> QED
    BY <1>4, <2>1, <2>5
<1>7. CASE Pump(p)
  <2>1. /\ down'[p] = Append(down[p], Facts(p)) /\ blocked' = blocked
        /\ rested' = rested /\ nth' = nth /\ estop' = estop /\ lock' = Expire(lock)
    BY <1>7 DEF Pump
  <2>2. Expire(Expire(lock)) = Expire(lock)
    BY ExpireFacts DEF Expire
  <2>3. Facts(p)' = Facts(p)
    BY <2>1, <2>2 DEF Facts, Session
  <2>4. /\ Len(down[p]) + 1 \in 1..Len(down'[p])
        /\ down'[p][Len(down[p]) + 1] = Facts(p)
    <3>1. ASSUME NEW m \in DownMessages
          PROVE  /\ Len(down[p]) + 1 \in 1..Len(Append(down[p], m))
                 /\ Append(down[p], m)[Len(down[p]) + 1] = m
      <4>1. down[p] \in Seq(DownMessages)
        OBVIOUS
      <4> QED
        BY <4>1, AppendFacts
    <3>2. PICK m \in DownMessages : m = Facts(p)
      BY BadgeFacts
    <3> QED
      BY <2>1, <3>1, <3>2
  <2>5. Correcting(p)'
    BY <1>1, <2>3, <2>4, BadgeFacts DEF Correcting
  <2> QED
    BY <1>4, <2>1, <2>5
<1>8. ASSUME NEW q \in Pages, q # p, Connect(q) PROVE BadgeInv(p)'
  <2>1. /\ down' = down /\ blocked' = blocked /\ rested' = rested /\ pumped' = pumped
        /\ shown' = shown /\ estop' = estop /\ lock' = lock
        /\ Session(p)' = Session(p)
    BY <1>8 DEF Connect, Session
  <2>2. Facts(p)' = Facts(p)
    BY <2>1 DEF Facts
  <2>3. Correcting(p) => Correcting(p)'
    BY <1>1, <2>1, <2>2 DEF Correcting
  <2>4. wrong'[p] > 0 /\ Session(p)' \in pumped' => Correcting(p)'
    BY <1>1, <1>2, <2>1, <2>3 DEF BadgeInv
  <2> QED
    BY <1>4, <2>1, <2>4
<1>9. CASE Connect(p)
  <2>1. ~Linked(p)
    BY <1>9 DEF Connect, Linked
  <2> QED
    BY <1>1, <1>2, <1>3, <2>1 DEF BadgeInv
<1>10. CASE LoseSocket(p)
  <2>1. ~Linked(p)'
    BY <1>10 DEF LoseSocket, Linked
  <2> QED
    BY <1>1, <1>3, <2>1
<1>11. ASSUME NEW q \in Pages, q # p, LoseSocket(q) PROVE BadgeInv(p)'
  <2>1. down'[p] = down[p]
    BY <1>11 DEF LoseSocket
  <2> QED
    BY <1>11, <2>1, BadgeKept DEF LoseSocket
<1>12. ASSUME NEW q \in Pages, q # p, Show(q) PROVE BadgeInv(p)'
  <2>1. down'[p] = down[p]
    BY <1>12 DEF Show
  <2> QED
    BY <1>12, <2>1, BadgeKept DEF Show
<1>13. ASSUME NEW q \in Pages, PageNotices(q) \/ ClickControl(q) \/ Ping(q)
       PROVE  BadgeInv(p)'
  <2>1. /\ down' = down /\ blocked' = blocked /\ rested' = rested /\ nth' = nth
        /\ pumped' = pumped /\ lock' = lock /\ estop' = estop
    BY <1>13 DEF PageNotices, ClickControl, Ping
  <2> QED
    BY <2>1, BadgeKept
<1>14. ASSUME NEW s, NEW m, ServerNotices(s) \/ OtherSends(s, m) PROVE BadgeInv(p)'
  <2>1. /\ down' = down /\ blocked' = blocked /\ rested' = rested /\ nth' = nth
        /\ pumped' = pumped /\ shown' = shown
    BY <1>14 DEF ServerNotices, OtherSends
  <2> QED
    BY <2>1, BadgeKept
<1>15. ASSUME ClickEstop PROVE BadgeInv(p)'
  <2>1. /\ down' = down /\ blocked' = blocked /\ rested' = rested /\ nth' = nth
        /\ pumped' = pumped /\ shown' = shown
    BY <1>15 DEF ClickEstop, ApiEstop
  <2> QED
    BY <2>1, BadgeKept
<1>16. CASE Show(p)
  <2>1. /\ Head(down[p]) = down[p][1] /\ Head(down[p]) \in DownMessages
        /\ Len(down[p]) \in Nat \ {0} /\ Len(Tail(down[p])) = Len(down[p]) - 1
        /\ \A i \in 1..(Len(down[p]) - 1) : Tail(down[p])[i] = down[p][i + 1]
    <3>1. down[p] \in Seq(DownMessages) /\ down[p] # <<>>
      BY <1>16 DEF Show
    <3> QED
      BY <3>1, TailFacts, Zenon
  <2>2. /\ down'[p] = Tail(down[p]) /\ shown'[p] = ShownAfter(shown[p], down[p][1])
        /\ blocked' = blocked /\ rested' = rested /\ nth' = nth /\ pumped' = pumped
        /\ lock' = lock /\ estop' = estop
    BY <1>16, <2>1 DEF Show
  <2>3. Facts(p)' = Facts(p) /\ Session(p)' = Session(p)
    BY <2>2 DEF Facts, Session
  <2>4. ASSUME wrong'[p] > 0, Session(p) \in pumped PROVE Correcting(p)'
    <3>1. wrong[p] > 0
      BY <1>1, <1>2, <2>4
    <3>2. PICK i \in 1..Len(down[p]) : /\ watched \in DOMAIN down[p][i]
                                       /\ down[p][i][watched] = Facts(p)[watched]
      BY <2>4, <3>1 DEF BadgeInv, Correcting
    <3>3. i # 1
      <4>1. SUFFICES ASSUME i = 1 PROVE FALSE
        OBVIOUS
      <4>2. shown'[p][watched] = down[p][1][watched]
        BY <2>1, <2>2, <3>2, <4>1, ShownFacts
      <4> QED
        BY <1>1, <2>3, <2>4, <3>2, <4>1, <4>2
    <3>4. i - 1 \in 1..(Len(down[p]) - 1) /\ (i - 1) + 1 = i
      BY <2>1, <3>3
    <3>5. i - 1 \in 1..Len(down'[p]) /\ down'[p][i - 1] = down[p][i]
      BY <2>1, <2>2, <3>4
    <3> QED
      BY <1>1, <2>3, <3>2, <3>5 DEF Correcting
  <2> QED
    BY <1>4, <2>2, <2>3, <2>4
<1>17. ASSUME NEW n \in 1..Block, StartBlock(n) PROVE BadgeInv(p)'
  <2>1. /\ rested /\ ~rested' /\ blocked' = n /\ down' = down /\ shown' = shown
        /\ lock' = lock /\ estop' = estop /\ nth' = nth /\ pumped' = pumped
    BY <1>17 DEF StartBlock
  <2>2. Facts(p)' = Facts(p) /\ Session(p)' = Session(p)
    BY <2>1 DEF Facts, Session
  <2>3. Correcting(p) => Correcting(p)'
    BY <1>1, <2>1, <2>2 DEF Correcting
  <2>4. wrong[p] <= 1 /\ n \in Int /\ n <= Block
    BY <1>2, <2>1 DEF BadgeInv
  <2>5. wrong'[p] + blocked' <= Block + 1
    BY <1>1, <1>2, <2>1, <2>4
  <2> QED
    BY <1>1, <1>2, <2>1, <2>2, <2>3, <2>5 DEF BadgeInv
<1> QED
  BY <1>5, <1>6, <1>7, <1>8, <1>9, <1>10, <1>11, <1>12, <1>13, <1>14, <1>15, <1>16,
     <1>17 DEF Step

\* A tick.  A page that is wrong when the loop runs has been sent telemetry and read
\* all of it: it was not wrong before the tick.
LEMMA BadgePass ==
  ASSUME ConsoleTypeOK, ConsoleTypeOK', BlockInv, NEW p \in Pages, BadgeInv(p),
         Pass, Count(1)
  PROVE  BadgeInv(p)'
<1> USE DEF ConsoleTypeOK, LockTypeOK
<1>1. /\ wrong'[p] \in Nat /\ wrong'[p] <= wrong[p] + 1
      /\ (~Linked(p)' \/ shown'[p][watched] = Facts(p)'[watched]) => wrong'[p] = 0
      /\ watched' = watched
  BY CountFacts
<1>2. wrong[p] \in Nat /\ blocked \in Nat /\ Block \in Nat
  BY ConsoleAssumption DEF Lag
<1>3. /\ Linked(p)' = Linked(p) /\ pumped' = {} /\ down[p] = <<>>
      /\ Running => blocked' = 0 /\ (Linked(p) => Session(p) \in pumped)
      /\ ~Running => blocked' = blocked - 1 /\ rested' = rested
  BY DEF Pass, Linked, Session
<1>4. ~Correcting(p)
  BY <1>3 DEF Correcting
<1>5. Running => wrong[p] = 0
  BY <1>2, <1>3, <1>4 DEF BadgeInv
<1>6. CASE Running
  BY <1>1, <1>2, <1>3, <1>5, <1>6 DEF BadgeInv
<1>7. CASE ~Running
  <2>1. blocked > 0 /\ ~rested'
    BY <1>2, <1>3, <1>7 DEF BlockInv, Running
  <2>2. wrong'[p] + blocked' <= Block + 1
    BY <1>1, <1>2, <1>3, <1>7 DEF BadgeInv
  <2> QED
    BY <1>1, <1>3, <2>1, <2>2 DEF BadgeInv
<1> QED
  BY <1>6, <1>7

\* All of it is kept.
LEMMA BadgesStep ==
  ConsoleInv /\ ConsoleInv' /\ BadgesInv /\ [ConsoleNext]_consoleVars => BadgesInv'
<1> SUFFICES ASSUME ConsoleInv, ConsoleInv', [ConsoleNext]_consoleVars,
                    NEW p \in Pages, BadgeInv(p)
             PROVE  BadgeInv(p)'
  BY DEF BadgesInv
<1>1. ConsoleTypeOK /\ ConsoleTypeOK' /\ BlockInv
  BY DEF ConsoleInv
<1>2. CASE Step /\ Count(0)
  BY <1>1, <1>2, BadgeStep
<1>3. CASE Pass /\ Count(1)
  BY <1>1, <1>3, BadgePass
<1>4. CASE UNCHANGED consoleVars
  BY <1>4 DEF consoleVars, BadgeInv, Correcting, Facts, Linked, Session
<1> QED
  BY <1>2, <1>3, <1>4 DEF ConsoleNext

\* For any number of pages, of reconnects and of messages under way, and whichever
\* badge is watched, no connected page shows it wrong for longer than the event loop
\* is blocked and one tick more.
THEOREM BadgesHold == ConsoleSpec => []BadgesHonest
<1>1. ConsoleInit => BadgesInv
  <2> SUFFICES ASSUME ConsoleInit, NEW p \in Pages PROVE BadgeInv(p)
    BY DEF BadgesInv
  <2>1. wrong[p] = 0 /\ blocked = 0 /\ pumped = {} /\ Block \in Nat
    BY ConsoleAssumption DEF ConsoleInit
  <2> QED
    BY <2>1 DEF BadgeInv
<1>2. ConsoleInv /\ BadgesInv => BadgesHonest
  <2> SUFFICES ASSUME ConsoleInv, NEW p \in Pages, BadgeInv(p) PROVE wrong[p] <= Lag
    BY DEF BadgesInv, BadgesHonest
  <2>1. wrong[p] \in Nat /\ blocked \in Nat /\ Block \in Nat
    BY ConsoleAssumption DEF ConsoleInv, ConsoleTypeOK, Lag
  <2> QED
    BY <2>1 DEF BadgeInv, Lag
<1> QED
  BY <1>1, <1>2, BadgesStep, ConsoleInvariant, PTL DEF ConsoleSpec
=============================================================================
