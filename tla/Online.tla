------------------------------- MODULE Online ---------------------------------
(***************************************************************************)
(* A table of the prototype: the server, the pages that sit at it, and the *)
(* peers, clients that follow the protocol.  Every property is of the      *)
(* whole; the fates of the rounds and who is a page are drawn at Init.     *)
(***************************************************************************)
EXTENDS OnlineSetup, FiniteSets

------------------------------------------------------------------------------
\* Peers.

\* A peer shows what it is told.
PeerShows(p, m) ==
  CASE m.type = "roomCreated"     -> [p EXCEPT !.room = m.room, !.role = 0]
    [] m.type = "paymentRequired" -> [p EXCEPT !.pending = TRUE]
    [] m.type = "gameStarted"     ->
         [p EXCEPT !.screen = "playing", !.round = m.manche, !.total = m.total, !.pending = FALSE,
                   !.board = Board(m.manche, m.plies, m.joueurActuel)]
    [] m.type = "gameStateUpdate" ->
         [p EXCEPT !.screen = IF m.status = "finished" THEN "gameover" ELSE "playing",
                   !.round = m.manche, !.total = m.total,
                   !.board = Board(m.manche, m.plies, m.joueurActuel)]
    [] m.type = "playerForfeit"   -> [p EXCEPT !.screen = "gameover"]
    [] m.type \in {"roomCanceled", "playerLeft"} -> FreshPage
    [] m.type = "error"           -> IF p.screen = "menu" THEN FreshPage ELSE p
    [] OTHER                      -> p

PeerHears(c) ==
  /\ c \notin real /\ down[c] # <<>>
  /\ page' = [page EXCEPT ![c] = PeerShows(@, Head(down[c]))]
  /\ down' = [down EXCEPT ![c] = Tail(@)]
  /\ UNCHANGED <<serverSide, up, real>>

\* What a player may ask for where it stands, once or more.
PeerMay(c) ==
  LET p == page[c]
      of(type) == [type |-> type, room |-> p.room]
      seated == p.room # None
  IN {m \in {of("confirmPayment")} : seated /\ p.screen = "menu" /\ p.stake}
     \cup {m \in {of("rejectStake")} : seated /\ p.pending}
     \cup {m \in {[type |-> "playMove", room |-> p.room, manche |-> p.board.manche,
                   plies |-> p.board.plies]} : p.screen = "playing" /\ p.board.turn = p.role}
     \cup {m \in {[type |-> "forfeit", room |-> p.room, role |-> p.role]} : p.screen = "playing"}
     \cup {m \in {of("nextRound")} : p.screen = "gameover" /\ p.round < p.total}
     \cup {m \in {of("leaveRoom")} : seated}

\* A peer reads before it writes, and waits until it has been heard (a bound).
PeerReady(c) == c \notin real /\ up[c] = <<>> /\ down[c] = <<>>

PeerAsks(c) ==
  /\ PeerReady(c)
  /\ \E m \in PeerMay(c) : Emits(c, m)
  /\ UNCHANGED <<serverSide, down, page, real>>

PeerOpens(c) ==
  /\ PeerReady(c) /\ c \in Hosts /\ page[c] = FreshPage
  /\ \E n \in Totals, s \in Stakes :
       /\ CreateOnlineRoom(c, n, s)
       /\ page' = [page EXCEPT ![c].stake = s, ![c].role = 0]
  /\ UNCHANGED <<serverSide, down, real>>

\* A guest asks for an open room, which may be gone when the server hears.
PeerJoins(c) ==
  /\ PeerReady(c) /\ c \in Guests /\ page[c] = FreshPage
  /\ \E r \in RoomIds :
       /\ Open(r)
       /\ Emits(c, [type |-> "joinRoom", room |-> r])
       /\ page' = [page EXCEPT ![c].room = r, ![c].role = 1, ![c].stake = rooms[r].stake]
  /\ UNCHANGED <<serverSide, down, real>>

\* The peer's connection ends, and it starts again.
PeerDrops(c) ==
  /\ PeerReady(c) /\ page[c] # FreshPage
  /\ Emits(c, [type |-> "disconnect"])
  /\ down' = [down EXCEPT ![c] = <<>>]
  /\ page' = [page EXCEPT ![c] = FreshPage]
  /\ UNCHANGED <<serverSide, real>>

PeerStep(c) ==
  PeerHears(c) \/ PeerAsks(c) \/ PeerOpens(c) \/ PeerJoins(c) \/ PeerDrops(c)

------------------------------------------------------------------------------
Init == PageInit

Next ==
  \/ \E r \in RoomIds : SaveDone(r) /\ UNCHANGED <<page, real>>
  \/ \E c \in Players :
       \/ ServerStep(c) /\ UNCHANGED <<page, real>>
       \/ PageStep(c) \/ SetupStep(c) \/ PeerStep(c)

Spec == Init /\ [][Next]_vars

------------------------------------------------------------------------------
\* Properties.

\* What player j has earned in a room: a point for each round that a move has
\* ended and that j has won or drawn, and one only.
Earned(r, j) == Cardinality({m \in ended[r] : Point(fate[m].fin, j) = 1})

\* At a table without a stake the score of a tournament is what its finished
\* rounds gave, each of them once: not again for a move that comes while the
\* result is being saved, and not lost when the next round begins, early, late
\* or asked for by both (playMove and nextRound of server.ts).  Where there is
\* a stake a late confirmPayment puts a finished round back in play, and it can
\* be scored again.
ScoresEarned ==
  \A r \in RoomIds : Actif(rooms[r]) /\ ~rooms[r].stake =>
    rooms[r].scores = <<Earned(r, 0), Earned(r, 1)>>

\* The first round of a table with a stake is played, and ends, only when both
\* players have paid, in whatever order joins and payments reach the server.
\* Of a later round it is not so: nextRound looks at no status and no payment.
FirstRoundsPaid ==
  \A r \in RoomIds :
    rooms[r].status \in {"playing", "finished"} /\ rooms[r].manche = 1
      => rooms[r].hostPaid /\ rooms[r].guestPaid

\* A page that believes it is in a room which the server has deleted will hear
\* of it, as long as its socket sits there.
ToldOfTheEnd ==
  \A c \in real :
    LET r == page[c].room
    IN r # None /\ ~Open(r) /\ r \in seat[c] /\ Connected(c) =>
         \E i \in 1..Len(down[c]) :
           down[c][i].type \in {"playerLeft", "roomCanceled"} /\ down[c][i].room = r

\* The moves of the other that are on their way to page c.
Coming(c) ==
  LET r == page[c].room
      told == {i \in 1..Len(down[c]) :
                 /\ down[c][i].type = "gameStateUpdate" /\ down[c][i].room = r
                 /\ down[c][i].manche = 1 /\ OthersMove(page[c], down[c][i])}
  IN Cardinality(told)
     + (IF r \in saving /\ OthersMove(page[c], rooms[r]) THEN 1 ELSE 0)
     + Len(page[c].queue) + Len(page[c].due)

\* Every move of the first round is on the board of a page once: played there,
\* being animated, queued, or on its way; what the page has played ahead of the
\* server is on its way up.  Nothing is animated twice, skipped or invented, as
\* long as neither player has given up.
MovesAccounted ==
  \A c \in real :
    LET p == page[c]
        r == p.room
        sent == {i \in 1..Len(up[c]) : up[c][i].type = "playMove" /\ up[c][i].room = r}
    IN /\ p.screen = "playing" /\ p.online /\ r # None
       /\ ~p.gone
       /\ Open(r) /\ r \in seat[c] /\ Connected(c)
       /\ rooms[r].status \in {"playing", "finished"} /\ rooms[r].manche = 1
       => p.board.plies + (IF p.anim.by = "none" THEN 0 ELSE 1) + Coming(c)
            = rooms[r].plies + Cardinality(sent)

\* The log of the page says that it waits for an opponent: then there is a room
\* for one to join.
WaitingRoomLives ==
  \A c \in real :
    page[c].waiting /\ page[c].room # None /\ up[c] = <<>> /\ down[c] = <<>>
      => Open(page[c].room)
===============================================================================
