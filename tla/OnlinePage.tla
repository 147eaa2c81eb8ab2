------------------------------ MODULE OnlinePage ------------------------------
(***************************************************************************)
(* A browser page of the prototype in online play                          *)
(* (docs/PoC/Mancala-main/src/hooks/useOnlineGame.ts and the online parts  *)
(* of App.tsx), against the game server of Room.                           *)
(*                                                                         *)
(* Every render of App makes a new t, and the effect that owns the socket  *)
(* depends on t: the page replaces its socket some time after any change   *)
(* of its state (Rerender).  When React runs that effect is left open, so  *)
(* what holds here holds of a page whose socket lasts as well.             *)
(*                                                                         *)
(* The other side of a table may also be a peer, any client that follows   *)
(* the protocol: it shows what the server says and asks for what a player  *)
(* may ask for.                                                            *)
(***************************************************************************)
EXTENDS Room

CONSTANT Reals  \* Who may be a page: sets of players.

ASSUME PageAssumption == Reals \subseteq SUBSET Players

VARIABLES
  page,  \* What each player's page holds.
  real   \* The players whose client is this page; the others are peers.

vars == <<rooms, seat, data, up, down, saving, fate, ended, page, real>>
serverSide == <<rooms, seat, data, saving, fate, ended>>

NoTask == [step |-> "none", room |-> None, stake |-> FALSE,
           rounds |-> 1, mounted |-> FALSE]

\* What the board shows; lost is a position that is in no round of the server.
Board(manche, plies, turn) ==
  [manche |-> manche, plies |-> plies, turn |-> turn, lost |-> FALSE]

Lost(turn) == [manche |-> 1, plies |-> 0, turn |-> turn, lost |-> TRUE]

\* No animation.  Otherwise: whose move is animated, and from which position.
Still == [by |-> "none", from |-> Board(1, 0, 0)]

\* A page on the menu, with the state useOnlineGame, App and the setup modal
\* start with.  gone is a history: someone has given this match up.
FreshPage ==
  [screen |-> "menu", online |-> FALSE, modal |-> FALSE, room |-> None, role |-> -1,
   waiting |-> FALSE, pending |-> FALSE, round |-> 1, total |-> 1,
   board |-> Board(1, 0, 0), anim |-> Still,
   queue |-> <<>>, due |-> <<>>, gone |-> FALSE, dirty |-> FALSE,
   step |-> "role", pay |-> "idle", stake |-> FALSE, rounds |-> 1, task |-> NoTask]

PageInit ==
  /\ RoomInit
  /\ page = [c \in Players |-> FreshPage]
  /\ real \in Reals

------------------------------------------------------------------------------
\* Rendering.

Shown(p) == p.screen = "menu" /\ p.modal

\* What the two effects of the setup modal do when it is mounted, unmounted, or
\* its properties change: the one on the waiting flag runs last.
Settle(old, new) ==
  LET step == IF new.waiting THEN "waiting" ELSE "role"
  IN CASE ~Shown(new) ->
            [new EXCEPT !.task.mounted = FALSE, !.step = "role", !.pay = "idle",
                        !.stake = FALSE, !.rounds = 1]
       [] Shown(new) /\ ~Shown(old) ->
            [new EXCEPT !.step = step, !.pay = "idle", !.stake = new.pending, !.rounds = 1]
       [] OTHER ->
            [new EXCEPT !.stake = @ \/ (new.pending /\ ~old.pending),
               !.step = IF new.waiting # old.waiting THEN step
                        ELSE IF new.pending /\ ~old.pending THEN "guest_confirm_stake"
                        ELSE @]

\* App takes a new state and renders it.
Renders(c, p) == page' = [page EXCEPT ![c] = [Settle(@, p) EXCEPT !.dirty = TRUE]]

\* The effect of useOnlineGame cleans up and connects again: the server will
\* hear a disconnect, and what it had sent to the old socket is lost.
Rerender(c) ==
  /\ c \in real /\ page[c].dirty /\ Len(up[c]) < MaxWire
  /\ page' = [page EXCEPT ![c].dirty = FALSE]
  /\ up' = [up EXCEPT ![c] = Append(@, [type |-> "disconnect"])]
  /\ down' = [down EXCEPT ![c] = <<>>]
  /\ UNCHANGED <<serverSide, real>>

Emits(c, msg) == up' = [up EXCEPT ![c] = Append(@, msg)]

\* Emits about a room, if there is one.
EmitsOf(c, r, msg) == IF r = None THEN UNCHANGED up ELSE Emits(c, msg)

\* The page can act: there is room on its wire.
Ready(c) == c \in real /\ Len(up[c]) < MaxWire

\* The page takes the next event, of this type, and is p afterwards.
Hears(c, type) ==
  /\ c \in real /\ down[c] # <<>> /\ Head(down[c]).type = type
  /\ down' = [down EXCEPT ![c] = Tail(@)]
  /\ UNCHANGED <<serverSide, up, real>>

------------------------------------------------------------------------------
\* What the page does with the server's events.

OnRoomCreated(c) ==
  /\ Hears(c, "roomCreated")
  /\ Renders(c, [page[c] EXCEPT !.room = Head(down[c]).room, !.role = 0,
                   !.waiting = TRUE, !.modal = TRUE, !.board = Board(1, 0, 0)])

OnGameStarted(c) ==
  /\ Hears(c, "gameStarted")
  /\ LET m == Head(down[c])
         p == [page[c] EXCEPT !.room = m.room, !.board = Board(m.manche, m.plies, m.joueurActuel),
                 !.round = m.manche, !.total = m.total, !.gone = FALSE]
     IN \/ /\ m.guest = c
           /\ Renders(c, [p EXCEPT !.role = 1, !.online = TRUE, !.screen = "playing",
                                   !.modal = FALSE])
        \/ /\ m.host = c
           /\ Renders(c, [p EXCEPT !.waiting = FALSE, !.online = TRUE, !.screen = "playing",
                                   !.modal = FALSE])

OnPaymentRequired(c) ==
  /\ Hears(c, "paymentRequired")
  /\ Renders(c, [page[c] EXCEPT !.pending = TRUE])

\* paymentStatusUpdate and error only write to the log.
OnLogged(c) ==
  /\ Hears(c, "paymentStatusUpdate") \/ Hears(c, "error")
  /\ Renders(c, page[c])

\* Mutant of OthersMove: the page animates its own moves a second time.
OthersMoveAny(p, m) == p.role # -1 /\ m.moved

\* The update tells of a move of the other player.
OthersMove(p, m) == p.role # -1 /\ 1 - m.joueurActuel # p.role /\ m.moved

\* The other's move is queued to be animated; a page without a role takes the
\* position.  The updater that pushes may run before or after the rest of the
\* handler, so either screen may come last.
OnGameStateUpdate(c) ==
  /\ Hears(c, "gameStateUpdate")
  /\ LET m      == Head(down[c])
         p      == [page[c] EXCEPT !.round = m.manche, !.total = m.total]
         pushed == [p EXCEPT !.queue = Append(@, [manche |-> m.manche, plies |-> m.plies - 1])]
         over   == m.status = "finished"
     IN \/ /\ OthersMove(p, m)
           /\ \E last \in {"playing", "gameover"} :
                /\ last = "gameover" => over
                /\ Renders(c, [pushed EXCEPT !.screen = last])
        \/ /\ p.role = -1
           /\ Renders(c, [p EXCEPT !.board = Board(m.manche, m.plies, m.joueurActuel),
                            !.screen = IF over THEN "gameover" ELSE @])
        \/ /\ p.role # -1 /\ ~OthersMove(p, m)
           /\ Renders(c, [p EXCEPT !.screen = IF over THEN "gameover" ELSE @])

\* isAnimating becomes false: its effect takes one move off the queue.  Nothing
\* else looks at the queue.
Served(p) ==
  IF p.queue = <<>> THEN p
  ELSE [p EXCEPT !.queue = Tail(@), !.due = Append(@, Head(p.queue))]

\* confirmForfeit: the session ends, and what is being animated with it.
Forfeited(p) ==
  LET q == [p EXCEPT !.anim = Still, !.screen = "gameover", !.gone = TRUE]
  IN IF p.anim.by = "none" THEN q ELSE Served(q)

\* The other gave up, which the game-over screen ignores.
OnPlayerForfeit(c) ==
  /\ Hears(c, "playerForfeit")
  /\ \/ page[c].screen = "gameover" /\ UNCHANGED page
     \/ page[c].screen # "gameover" /\ Renders(c, Forfeited(page[c]))

OnRoomCanceled(c) ==
  /\ Hears(c, "roomCanceled")
  /\ Renders(c, [page[c] EXCEPT !.screen = "menu", !.online = FALSE, !.room = None,
                   !.role = -1, !.modal = FALSE])

OnPlayerLeft(c) ==
  /\ Hears(c, "playerLeft")
  /\ Renders(c, [page[c] EXCEPT !.screen = "menu", !.online = FALSE, !.room = None,
                   !.role = -1])

------------------------------------------------------------------------------
\* Playing.

PlayOnlineMove(c) ==
  LET p == page[c]
  IN EmitsOf(c, p.room, [type |-> "playMove", room |-> p.room, manche |-> p.board.manche,
                         plies |-> IF p.board.lost THEN -1 ELSE p.board.plies])

\* handleMove of the page's own player, or of its clock: at the position on the
\* board, which is animated at once while the server is told.
Play(c) ==
  LET p == page[c]
  IN /\ Ready(c)
     /\ p.screen = "playing" /\ p.online /\ p.anim.by = "none" /\ p.board.turn = p.role
     /\ Renders(c, [p EXCEPT !.anim = [by |-> "own", from |-> p.board]])
     /\ PlayOnlineMove(c)
     /\ UNCHANGED <<serverSide, down, real>>

\* handleMove of a queued move whose delay is over: dropped while something is
\* animated, and where it is not legal.
Remote(c) ==
  /\ c \in real /\ page[c].due # <<>>
  /\ LET p      == [page[c] EXCEPT !.due = Tail(@)]
         m      == Head(page[c].due)
         inTune == ~p.board.lost /\ m.manche = p.board.manche /\ m.plies = p.board.plies
         from   == IF inTune THEN p.board ELSE Lost(p.board.turn)
     IN \/ /\ p.anim.by = "none"
           /\ Renders(c, [p EXCEPT !.anim = [by |-> "remote", from |-> from]])
        \/ /\ p.anim.by # "none" \/ ~inTune
           /\ page' = [page EXCEPT ![c] = p]
  /\ UNCHANGED <<serverSide, up, down, real>>

\* The animation is over: the next turn, or the end of the round as the page
\* computes it, by the rules or by a player without a move.
EndMove(c) ==
  LET p    == page[c]
      from == p.anim.from
      next == [p EXCEPT !.anim = Still,
                 !.board = IF from.lost THEN from ELSE [from EXCEPT !.plies = @ + 1]]
      over == ~from.lost /\ from.plies + 1 >= fate[from.manche].plies
  IN /\ c \in real /\ p.anim.by \in {"own", "remote"}
     /\ \/ /\ from.lost \/ over
           /\ Renders(c, Served([next EXCEPT !.screen = "gameover"]))
        \/ /\ from.lost \/ ~over
           /\ Renders(c, Served([next EXCEPT !.board.turn = 1 - @]))
     /\ UNCHANGED <<serverSide, up, down, real>>

------------------------------------------------------------------------------
\* Ending.

ForfeitOnlineMatch(c) ==
  EmitsOf(c, page[c].room, [type |-> "forfeit", room |-> page[c].room, role |-> page[c].role])

\* The player gives up: confirmForfeit on its own role.
GiveUp(c) ==
  LET p == page[c]
  IN /\ Ready(c) /\ p.screen = "playing" /\ p.online
     /\ Renders(c, Forfeited(p))
     /\ ForfeitOnlineMatch(c)
     /\ UNCHANGED <<serverSide, down, real>>

NextOnlineTournamentRound(c) ==
  EmitsOf(c, page[c].room, [type |-> "nextRound", room |-> page[c].room])

\* The next round is asked for on the game-over screen, while there is one.
AskNextRound(c) ==
  LET p == page[c]
  IN /\ Ready(c) /\ p.screen = "gameover" /\ p.online
     /\ p.room # None /\ p.total > 1 /\ p.round < p.total
     /\ NextOnlineTournamentRound(c)
     /\ UNCHANGED <<serverSide, down, page, real>>

\* What leaveOnlineRoom leaves of the page.
Left(p) ==
  [p EXCEPT !.waiting = FALSE, !.room = None, !.role = -1, !.screen = "menu",
            !.online = FALSE]

TellsLeave(c) == EmitsOf(c, page[c].room, [type |-> "leaveRoom", room |-> page[c].room])

\* Back to the menu from the game-over screen: a new session, in which an
\* animation that was running never ends.
ResetToMenu(c) ==
  LET p == page[c]
  IN /\ Ready(c) /\ p.screen = "gameover"
     /\ ~(p.total > 1 /\ p.round < p.total)
     /\ Renders(c, [Left(p) EXCEPT !.round = 1, !.total = 1,
                      !.anim = IF p.anim.by = "none" THEN Still ELSE [Still EXCEPT !.by = "stuck"]])
     /\ TellsLeave(c)
     /\ UNCHANGED <<serverSide, down, real>>

PageStep(c) ==
  \/ Rerender(c)
  \/ OnRoomCreated(c) \/ OnGameStarted(c) \/ OnPaymentRequired(c) \/ OnLogged(c)
  \/ OnGameStateUpdate(c) \/ OnPlayerForfeit(c) \/ OnRoomCanceled(c) \/ OnPlayerLeft(c)
  \/ Play(c) \/ Remote(c) \/ EndMove(c)
  \/ GiveUp(c) \/ AskNextRound(c) \/ ResetToMenu(c)
===============================================================================
