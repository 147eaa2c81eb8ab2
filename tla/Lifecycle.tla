------------------------------ MODULE Lifecycle ------------------------------
(***************************************************************************)
(* One started match: MatchLifecycleService (matchmaking/lifecycle.py),    *)
(* the move timer and the grace timer (realtime/services.py and the Celery *)
(* tasks of matchmaking/tasks.py) and the web sockets of the players       *)
(* (realtime/consumers.py).                                                *)
(*                                                                         *)
(* A transaction that locks the row of the match is one step; what it      *)
(* leaves to on_commit is a step of its own.  Time is what it decides:     *)
(* whether the deadline of the current turn has passed, and whether the    *)
(* grace of a player's last disconnection has.  The game is abstract: a    *)
(* legal move passes the turn or ends the game.  Who wins, and what        *)
(* becomes of the stakes, is in module Escrow.                             *)
(***************************************************************************)
EXTENDS Integers

CONSTANTS
  Games,      \* The matches considered: opponent, timing mode, policy.
  MaxMoves,   \* The game is over after this many moves (a bound).
  Sockets,    \* The connections the browsers may open.
  Owner,      \* The player, 0 or 1, of each connection.
  Overlap,    \* May a player have two connections at once?
  MaxDrops,   \* Disconnections considered for each player (a bound).
  MaxFaults   \* Lost tasks and dead processes considered (a bound).

ASSUME GamesAssumption ==
  Games \subseteq [opponent : {"HUMAN", "AI"},
                   timing   : {"REALTIME", "CORRESPONDENCE"},
                   policy   : {"AUTO_RESOLVE", "VOID_REFUND"}]
ASSUME OwnerAssumption  == Owner \in [Sockets -> {0, 1}]
ASSUME BoundsAssumption ==
  /\ MaxMoves \in Nat \ {0} /\ MaxDrops \in Nat /\ MaxFaults \in Nat
  /\ Overlap \in BOOLEAN

Players == {0, 1}
Turns == 0..MaxMoves

VARIABLES
  game,         \* What the match is: it never changes once started.
  match,        \* The row: status, seq (moves played), mover (current_player),
                \* and, from the journal, the cause of its last change and the
                \* player it concerned.
  expired,      \* Has move_deadline passed?
  unpublished,  \* Turns whose timeout task waits for the commit.
  tasks,        \* Turns with a timeout task at the broker.
  presence,     \* For each player: is the last event a DISCONNECT, how many
                \* there were, and is the grace of the last one over?
  grace,        \* Disconnect-timeout tasks at the broker: player and event.
  socket,       \* State of each connection.
  faults        \* Tasks lost and processes dead so far.

vars == <<game, match, expired, unpublished, tasks, presence, grace, socket, faults>>
clock == <<expired, unpublished, tasks>>
online == <<presence, grace, socket>>

\* The house plays index 1 and has no browser.
Humans == IF game.opponent = "AI" THEN {0} ELSE {0, 1}

Row == [status : {"ACTIVE", "COMPLETED", "CANCELLED"}, seq : Turns, mover : Players,
        cause : {"start", "player", "forfeit", "operator", "timer", "absence"},
        whose : Players]

Active(m) == m.status = "ACTIVE"

Init ==
  /\ game \in Games
  /\ match = [status |-> "ACTIVE", seq |-> 0, mover |-> 0,
              cause |-> "start", whose |-> 0]
  /\ expired = FALSE
  /\ unpublished = IF game.timing = "REALTIME" THEN {0} ELSE {}
  /\ tasks = {}
  /\ presence = [p \in Players |-> [out |-> FALSE, drops |-> 0, graced |-> FALSE]]
  /\ grace = {}
  /\ socket = [s \in Sockets |-> "none"]
  /\ faults = 0

------------------------------------------------------------------------------
\* Moves.

\* _apply: the move is logged and the other player is to move.
Moved(m) == [m EXCEPT !.seq = @ + 1, !.mover = 1 - @]

\* _apply and, when the game is over, resolve.
AfterMove(m) ==
  {[Moved(m) EXCEPT !.status = "COMPLETED"]}
    \cup {n \in {Moved(m)} : n.seq < MaxMoves}

HousesTurn(m) == Active(m) /\ game.opponent = "AI" /\ m.mover = 1

\* _advance_ai: the house answers at once.
Answers(m) == IF HousesTurn(m) THEN AfterMove(m) ELSE {m}

\* A move and the answer of the house, in one transaction.
AfterTurn(m) == UNION {Answers(n) : n \in AfterMove(m)}

\* Mutant of Armed: the answer of the house does not re-arm the timer.
ArmedOnce(m, n) == {t \in {m.seq + 1} : t < n.seq \/ Active(n)}

\* The turns for which _arm_deadline ran between rows m and n.
Armed(m, n) == {t \in (m.seq + 1)..n.seq : t < n.seq \/ Active(n)}

\* The row becomes n, for a cause that concerns player p.
Commit(n, cause, p) ==
  /\ match' = [n EXCEPT !.cause = cause, !.whose = p]
  /\ expired' = (expired /\ Armed(match, n) = {})
  /\ unpublished' = IF game.timing = "REALTIME"
                      THEN unpublished \cup Armed(match, n)
                      ELSE unpublished

PlayMove(p) ==
  /\ Active(match) /\ match.mover = p
  /\ p \in Humans
  /\ \E n \in AfterTurn(match) : Commit(n, "player", p)
  /\ UNCHANGED <<game, tasks, online, faults>>

Forfeit(p) ==
  /\ Active(match) /\ p \in Humans
  /\ Commit([match EXCEPT !.status = "COMPLETED"], "forfeit", p)
  /\ UNCHANGED <<game, tasks, online, faults>>

\* void_match, at the request of an operator.
VoidMatch ==
  /\ Active(match)
  /\ Commit([match EXCEPT !.status = "CANCELLED"], "operator", 0)
  /\ UNCHANGED <<game, tasks, online, faults>>

------------------------------------------------------------------------------
\* The move timer.

\* Time passes the deadline of the turn.
Expire ==
  /\ Active(match) /\ ~expired
  /\ expired' = TRUE
  /\ UNCHANGED <<game, match, unpublished, tasks, online, faults>>

\* on_commit: the task goes to the broker.
Publish(t) ==
  /\ t \in unpublished
  /\ unpublished' = unpublished \ {t}
  /\ tasks' = tasks \cup {t}
  /\ UNCHANGED <<game, match, expired, online, faults>>

\* The process dies between its commit and on_commit.
PublishCrash(t) ==
  /\ t \in unpublished
  /\ faults < MaxFaults
  /\ unpublished' = unpublished \ {t}
  /\ faults' = faults + 1
  /\ UNCHANGED <<game, match, expired, tasks, online>>

\* The broker loses the task, or the worker that has it dies or fails: no task
\* is tried again.
LoseTask(t) ==
  /\ t \in tasks
  /\ faults < MaxFaults
  /\ tasks' = tasks \ {t}
  /\ faults' = faults + 1
  /\ UNCHANGED <<game, match, expired, unpublished, online>>

\* Mutant of TimedOut: the task trusts the countdown it was scheduled with.
TimedOutAsScheduled == Active(match)

\* Mutant of TimedOut: a match that is over is not left alone.
TimedOutAnyStatus == expired

\* on_move_timeout acts.
TimedOut == Active(match) /\ expired

\* A timeout task runs: not before the deadline of the turn it was armed for,
\* and perhaps long after, or twice.  It plays the worst move for whoever is to
\* move, the house included.
RunMoveTimeout(t) ==
  /\ t \in tasks
  /\ t < match.seq \/ expired \/ ~Active(match)
  /\ tasks' \in {tasks, tasks \ {t}}
  /\ IF TimedOut
       THEN \E n \in AfterTurn(match) : Commit(n, "timer", match.mover)
       ELSE UNCHANGED <<match, expired, unpublished>>
  /\ UNCHANGED <<game, online, faults>>

------------------------------------------------------------------------------
\* Presence.

\* A browser opens a connection and the consumer accepts it.
Connect(s) ==
  LET p == Owner[s] IN
  /\ p \in Humans
  /\ socket[s] = "none"
  /\ presence[p].drops < MaxDrops
  /\ Overlap \/ \A q \in Sockets : Owner[q] = p => socket[q] = "none"
  /\ socket' = [socket EXCEPT ![s] = "accepted"]
  /\ UNCHANGED <<game, match, clock, presence, grace, faults>>

\* on_connect writes CONNECT or RECONNECT.
OnConnect(s) ==
  /\ socket[s] = "accepted"
  /\ socket' = [socket EXCEPT ![s] = "live"]
  /\ presence' = [presence EXCEPT ![Owner[s]].out = FALSE]
  /\ UNCHANGED <<game, match, clock, grace, faults>>

\* The browser is gone, and the server does not know it yet.
Leave(s) ==
  /\ socket[s] = "live"
  /\ socket' = [socket EXCEPT ![s] = "gone"]
  /\ UNCHANGED <<game, match, clock, presence, grace, faults>>

\* on_disconnect writes DISCONNECT and its grace timer is scheduled.
OnDisconnect(s) ==
  LET p == Owner[s]
      e == presence[p].drops + 1
  IN
  /\ socket[s] = "gone"
  /\ e <= MaxDrops
  /\ socket' = [socket EXCEPT ![s] = "none"]
  /\ presence' = [presence EXCEPT ![p] = [out |-> TRUE, drops |-> e, graced |-> FALSE]]
  /\ grace' = grace \cup {<<p, e>>}
  /\ UNCHANGED <<game, match, clock, faults>>

\* The process that serves a connection dies and writes no event.
SocketCrash(s) ==
  /\ socket[s] # "none"
  /\ faults < MaxFaults
  /\ socket' = [socket EXCEPT ![s] = "none"]
  /\ faults' = faults + 1
  /\ UNCHANGED <<game, match, clock, presence, grace>>

\* The grace of the last disconnection of player p is over.
GraceElapse(p) ==
  /\ presence[p].drops > 0 /\ ~presence[p].graced
  /\ presence' = [presence EXCEPT ![p].graced = TRUE]
  /\ UNCHANGED <<game, match, clock, grace, socket, faults>>

LoseGrace(p, e) ==
  /\ <<p, e>> \in grace
  /\ faults < MaxFaults
  /\ grace' = grace \ {<<p, e>>}
  /\ faults' = faults + 1
  /\ UNCHANGED <<game, match, clock, presence, socket>>

\* Mutant of StillAway: the epoch of the timer is not compared.
StillAwayAnyEvent(p, e) == presence[p].out

\* Mutant of StillAway: the last event of the player is not read.
StillAwayAsScheduled(p, e) == presence[p].drops = e

\* The last event of p is the very disconnection the timer was set for.
StillAway(p, e) == presence[p].out /\ presence[p].drops = e

\* _auto_finish plays for the absent player while it is his turn: one move, as
\* every move passes the turn.  The house does not answer it.
AutoFinish(p) ==
  IF match.mover = p
    THEN \E n \in AfterMove(match) : Commit(n, "absence", p)
    ELSE UNCHANGED <<match, expired, unpublished>>

RunDisconnectTimeout(p, e) ==
  /\ <<p, e>> \in grace
  /\ e < presence[p].drops \/ presence[p].graced
  /\ grace' \in {grace, grace \ {<<p, e>>}}
  /\ IF ~(Active(match) /\ StillAway(p, e))
       THEN UNCHANGED <<match, expired, unpublished>>
       ELSE IF game.policy = "VOID_REFUND"
         THEN Commit([match EXCEPT !.status = "CANCELLED"], "absence", p)
         ELSE AutoFinish(p)
  /\ UNCHANGED <<game, tasks, presence, socket, faults>>

------------------------------------------------------------------------------
Request ==
  \/ \E p \in Players : PlayMove(p)
  \/ \E p \in Players : Forfeit(p)
  \/ VoidMatch

Timer ==
  \/ Expire
  \/ \E t \in Turns : Publish(t)
  \/ \E t \in Turns : PublishCrash(t)
  \/ \E t \in Turns : LoseTask(t)
  \/ \E t \in Turns : RunMoveTimeout(t)

Presence ==
  \/ \E s \in Sockets : Connect(s)
  \/ \E s \in Sockets : OnConnect(s)
  \/ \E s \in Sockets : Leave(s)
  \/ \E s \in Sockets : OnDisconnect(s)
  \/ \E s \in Sockets : SocketCrash(s)
  \/ \E p \in Players : GraceElapse(p)
  \/ \E p \in Players, e \in 1..MaxDrops : LoseGrace(p, e)
  \/ \E p \in Players, e \in 1..MaxDrops : RunDisconnectTimeout(p, e)

Next == Request \/ Timer \/ Presence

Spec == Init /\ [][Next]_vars

\* Time passes, the web processes do what they left to on_commit and the Celery
\* workers run the tasks that are due.  Nobody has to play or to connect.
Fairness ==
  /\ WF_vars(Expire)
  /\ \A t \in Turns : WF_vars(Publish(t)) /\ WF_vars(RunMoveTimeout(t))
  /\ \A p \in Players, e \in 1..MaxDrops : WF_vars(RunDisconnectTimeout(p, e))

FairSpec == Spec /\ Fairness

------------------------------------------------------------------------------
\* Properties.

\* Every variable stays in its type.
TypeOK ==
  /\ game \in Games
  /\ match \in Row
  /\ expired \in BOOLEAN
  /\ unpublished \subseteq Turns
  /\ tasks \subseteq Turns
  /\ presence \in [Players -> [out : BOOLEAN, drops : 0..MaxDrops, graced : BOOLEAN]]
  /\ grace \subseteq Players \X (1..MaxDrops)
  /\ socket \in [Sockets -> {"none", "accepted", "live", "gone"}]
  /\ faults \in 0..MaxFaults

\* The turn under way of a realtime match always has its own timeout task, at
\* the broker or about to go there, unless a task was lost: whoever moved last,
\* player, house, timer or grace timer, re-armed it.
TimerArmed ==
  Active(match) /\ game.timing = "REALTIME" /\ faults = 0
    => match.seq \in unpublished \cup tasks

\* No turn is played by the move timer before its own deadline, however late,
\* often or out of order the tasks of the turns before it run.
TurnGetsItsTime ==
  [][match' # match /\ match'.cause = "timer" => expired]_vars

\* A grace timer only acts when the grace of the player's last disconnection is
\* over: that of an earlier one does not cut it short.
GraceIsWhole ==
  [][match' # match /\ match'.cause = "absence" => presence[match'.whose].graced]_vars

Connected(p) == \E s \in Sockets : Owner[s] = p /\ socket[s] = "live"

\* Nobody is played for as an absent player, or has his match voided as one,
\* while a connection of his is live.
PresentNotForced ==
  [][match' # match /\ match'.cause = "absence" => ~Connected(match'.whose)]_vars

\* A match that is over stays as it ended: late tasks, timers and requests do
\* not touch it.
OverIsOver == [][~Active(match) => UNCHANGED match]_vars

\* Each turn ends although its player does nothing.
EveryTurnEnds ==
  \A n \in Turns :
    (Active(match) /\ match.seq = n) ~> ~(Active(match) /\ match.seq = n)
==============================================================================
