--------------------------------- MODULE Room ---------------------------------
(***************************************************************************)
(* The game server of the prototype (docs/PoC/Mancala-main/server.ts): one *)
(* in-memory record per room and one handler per socket event.  Handlers   *)
(* run to completion, except that playMove waits for Firestore between the *)
(* end of a round and its broadcast.                                       *)
(*                                                                         *)
(* The wire: up[c] is what the socket of player c has sent, down[c] what   *)
(* the server has emitted to it; both are ordered.  A page that replaces   *)
(* its socket leaves a "disconnect" behind in up[c].                       *)
(*                                                                         *)
(* The board is abstracted to the number of moves made in the round.  How  *)
(* long each round is and how it ends is drawn at the start in fate: a     *)
(* position that checkFinPartie gives to someone, or one in which the      *)
(* player to move has no legal move, which the server does not look for.   *)
(***************************************************************************)
EXTENDS Integers, Sequences

CONSTANTS
  Players,    \* The uids, one page each.
  RoomIds,    \* The codes a room can get: bounds how many are created.
  None,       \* null.
  Totals,     \* The numbers of rounds a host can choose.
  MaxManche,  \* Bounds the rounds played.
  MaxWire,    \* Bounds what waits on a wire in each direction.
  Fates       \* How the rounds may end: [plies |-> n, fin |-> 0, 1, 2 or -1] each.

ASSUME RoomAssumption ==
  /\ None \notin Players \cup RoomIds
  /\ Totals \subseteq Nat \ {0} /\ {MaxManche, MaxWire} \subseteq Nat \ {0}
  /\ Fates \subseteq [1..MaxManche -> [plies : Nat \ {0}, fin : -1..2]]

VARIABLES
  rooms,   \* The record of each code; it outlives its deletion from the map.
  seat,    \* The rooms each player's socket has joined, and never leaves.
  data,    \* socket.data.roomId of it: the last of them.
  up,      \* Events sent to the server.
  down,    \* Events emitted to the player.
  saving,  \* The rooms whose playMove waits for Firestore.
  fate,    \* The ending of each round.
  ended    \* History: for each room, the rounds that a move has ended.

serverVars == <<rooms, seat, data, saving, fate, ended>>

NoRoom ==
  [open |-> FALSE, host |-> None, guest |-> None, stake |-> FALSE,
   hostPaid |-> FALSE, guestPaid |-> FALSE, status |-> "none",
   plies |-> 0, joueurActuel |-> 0, moved |-> FALSE,
   manche |-> 1, total |-> 1, scores |-> <<0, 0>>]

RoomInit ==
  /\ rooms = [r \in RoomIds |-> NoRoom]
  /\ seat = [c \in Players |-> {}]
  /\ data = [c \in Players |-> None]
  /\ up = [c \in Players |-> <<>>]
  /\ down = [c \in Players |-> <<>>]
  /\ saving = {}
  /\ fate \in Fates
  /\ ended = [r \in RoomIds |-> {}]

------------------------------------------------------------------------------
\* The wire.

\* The socket of c that the server knows of is still the page's own.
Connected(c) == \A i \in 1..Len(up[c]) : up[c][i].type # "disconnect"

\* io.to(roomId): every socket in the room; one that was closed gets nothing.
ToRoom(r, msg) ==
  down' = [c \in Players |-> IF r \in seat[c] /\ Connected(c)
                               THEN Append(down[c], msg) ELSE down[c]]

\* socket.emit.
ToSelf(c, msg) ==
  down' = [down EXCEPT ![c] = IF Connected(c) THEN Append(@, msg) ELSE @]

Silent == UNCHANGED down

\* The next event of c is of this type, and is taken off the wire.
Receives(c, type) ==
  /\ up[c] # <<>> /\ Head(up[c]).type = type
  /\ up' = [up EXCEPT ![c] = Tail(@)]

\* Not every code has been used: a bound, on which the asking depends too.
CodeLeft == \E x \in RoomIds : rooms[x] = NoRoom

Open(r) == r # None /\ rooms[r].open
Actif(room) == room.total > 1
Over(room) == room.plies >= fate[room.manche].plies
RoleOf(room, c) == IF c = room.host THEN 0 ELSE IF c = room.guest THEN 1 ELSE -1

\* Mutant of Paid: one payment is enough.
PaidEither(room) == room.hostPaid \/ room.guestPaid

Paid(room) == room.hostPaid /\ room.guestPaid

Snapshot(r, room) ==
  [type |-> "gameStateUpdate", room |-> r, plies |-> room.plies,
   joueurActuel |-> room.joueurActuel, moved |-> room.moved,
   status |-> room.status, manche |-> room.manche, total |-> room.total,
   scores |-> room.scores]

Started(r, room) ==
  [type |-> "gameStarted", room |-> r, host |-> room.host, guest |-> room.guest,
   plies |-> room.plies, joueurActuel |-> room.joueurActuel,
   manche |-> room.manche, total |-> room.total, scores |-> room.scores]

------------------------------------------------------------------------------
\* Setting a room up.

\* socket.join and the note in socket.data; the rooms joined before are not left.
Joins(c, r) ==
  /\ seat' = [seat EXCEPT ![c] = @ \cup {r}]
  /\ data' = [data EXCEPT ![c] = r]

CreateRoom(c) ==
  /\ Receives(c, "createRoom")
  /\ LET m == Head(up[c])
         r == CHOOSE x \in RoomIds : rooms[x] = NoRoom
     IN /\ CodeLeft
        /\ rooms' = [rooms EXCEPT ![r] =
             [NoRoom EXCEPT !.open = TRUE, !.host = c, !.stake = m.stake,
                !.hostPaid = ~m.stake, !.guestPaid = ~m.stake,
                !.status = "waiting", !.total = m.rounds]]
        /\ Joins(c, r)
        /\ ToSelf(c, [type |-> "roomCreated", room |-> r])
  /\ UNCHANGED <<saving, fate, ended>>

\* A guest comes back (and is told nothing), finds the room full or gone, must
\* pay first, or completes the table.
JoinRoom(c) ==
  /\ Receives(c, "joinRoom")
  /\ LET r     == Head(up[c]).room
         room  == rooms[r]
         found == Open(r) /\ room.status \in {"waiting", "playing"}
         taken == [room EXCEPT !.guest = c]
     IN \/ /\ ~found \/ (room.guest # c /\ room.guest # None)
           /\ ToSelf(c, [type |-> "error"])
           /\ UNCHANGED <<rooms, seat, data>>
        \/ /\ found /\ room.guest = c
           /\ Joins(c, r)
           /\ Silent /\ UNCHANGED rooms
        \/ /\ found /\ room.guest = None
           /\ Joins(c, r)
           /\ \/ /\ room.stake /\ ~room.guestPaid
                 /\ rooms' = [rooms EXCEPT ![r] = taken]
                 /\ ToSelf(c, [type |-> "paymentRequired"])
              \/ /\ ~(room.stake /\ ~room.guestPaid)
                 /\ Paid(room)
                 /\ LET begun == [taken EXCEPT !.status = "playing"]
                    IN /\ rooms' = [rooms EXCEPT ![r] = begun]
                       /\ down' = [d \in Players |->
                            IF (r \in seat[d] \/ d = c) /\ Connected(d)
                              THEN Append(down[d], Started(r, begun)) ELSE down[d]]
  /\ UNCHANGED <<saving, fate, ended>>

ConfirmPayment(c) ==
  /\ Receives(c, "confirmPayment")
  /\ LET r    == Head(up[c]).room
         paid == [rooms[r] EXCEPT !.hostPaid = @ \/ c = rooms[r].host,
                                  !.guestPaid = @ \/ c = rooms[r].guest]
     IN \/ ~Open(r) /\ Silent /\ UNCHANGED rooms
        \/ /\ Open(r) /\ Paid(paid)
           /\ LET begun == [paid EXCEPT !.status = "playing"]
              IN rooms' = [rooms EXCEPT ![r] = begun] /\ ToRoom(r, Started(r, begun))
        \/ /\ Open(r) /\ ~Paid(paid)
           /\ rooms' = [rooms EXCEPT ![r] = paid]
           /\ ToRoom(r, [type |-> "paymentStatusUpdate"])
  /\ UNCHANGED <<seat, data, saving, fate, ended>>

RejectStake(c) ==
  /\ Receives(c, "rejectStake")
  /\ LET r == Head(up[c]).room
     IN \/ /\ Open(r) /\ RoleOf(rooms[r], c) # -1
           /\ rooms' = [rooms EXCEPT ![r].open = FALSE]
           /\ ToRoom(r, [type |-> "roomCanceled", room |-> r])
        \/ /\ ~(Open(r) /\ RoleOf(rooms[r], c) # -1)
           /\ Silent /\ UNCHANGED rooms
  /\ UNCHANGED <<seat, data, saving, fate, ended>>

------------------------------------------------------------------------------
\* Playing.

Playable(room, c) == room.status = "playing" /\ room.joueurActuel = RoleOf(room, c)

\* A move is legal where it was chosen; at another position it may be or not,
\* and where the player to move is blocked none is.
Legal(room, m, chance) ==
  /\ fate[room.manche].fin = -1 => ~Over(room)
  /\ chance \/ (m.manche = room.manche /\ m.plies = room.plies)

Point(fin, j) == IF fin \in {j, 2} THEN 1 ELSE 0

Played(room) ==
  [room EXCEPT !.plies = @ + 1, !.joueurActuel = 1 - @, !.moved = TRUE]

\* The end of a round: the winner's point, or one for each.
Finished(room) ==
  LET fin == fate[room.manche].fin
  IN [room EXCEPT !.status = "finished",
                  !.scores = IF Actif(room) THEN <<@[1] + Point(fin, 0), @[2] + Point(fin, 1)>>
                                            ELSE @]

PlayMove(c) ==
  /\ Receives(c, "playMove")
  /\ \E chance \in BOOLEAN :
     LET m     == Head(up[c])
         r     == m.room
         room  == rooms[r]
         after == Played(room)
         ok    == Open(r) /\ Playable(room, c) /\ Legal(room, m, chance)
         ends  == Over(after) /\ fate[room.manche].fin # -1
     IN \/ ~ok /\ Silent /\ UNCHANGED <<rooms, saving, ended>>
        \/ /\ ok /\ ~ends
           /\ rooms' = [rooms EXCEPT ![r] = after]
           /\ ToRoom(r, Snapshot(r, after))
           /\ UNCHANGED <<saving, ended>>
        \/ /\ ok /\ ends
           /\ rooms' = [rooms EXCEPT ![r] = Finished(after)]
           /\ saving' = saving \cup {r}
           /\ ended' = [ended EXCEPT ![r] = @ \cup {room.manche}]
           /\ Silent
  /\ UNCHANGED <<seat, data, fate>>

\* Firestore has answered, or failed: the room is broadcast as it is by now.
SaveDone(r) ==
  /\ r \in saving
  /\ saving' = saving \ {r}
  /\ ToRoom(r, Snapshot(r, rooms[r]))
  /\ UNCHANGED <<rooms, seat, data, up, fate, ended>>

\* Mutant of Renewed: the scores start afresh with the round.
RenewedNoScores(room) ==
  [room EXCEPT !.plies = 0, !.joueurActuel = room.manche % 2, !.moved = FALSE,
               !.status = "playing", !.manche = @ + 1, !.scores = <<0, 0>>]

\* The next round, whatever the status of this one.
Renewed(room) ==
  [room EXCEPT !.plies = 0, !.joueurActuel = room.manche % 2, !.moved = FALSE,
               !.status = "playing", !.manche = @ + 1]

NextRound(c) ==
  /\ Receives(c, "nextRound")
  /\ LET r  == Head(up[c]).room
         ok == Open(r) /\ Actif(rooms[r]) /\ RoleOf(rooms[r], c) # -1
     IN \/ ~ok /\ Silent /\ UNCHANGED rooms
        \/ /\ ok /\ rooms[r].manche < MaxManche
           /\ rooms' = [rooms EXCEPT ![r] = Renewed(@)]
           /\ ToRoom(r, Snapshot(r, Renewed(rooms[r])))
  /\ UNCHANGED <<seat, data, saving, fate, ended>>

------------------------------------------------------------------------------
\* Leaving.

Forfeit(c) ==
  /\ Receives(c, "forfeit")
  /\ LET m  == Head(up[c])
         ok == Open(m.room) /\ rooms[m.room].status = "playing"
     IN \/ ~ok /\ Silent /\ UNCHANGED rooms
        \/ /\ ok
           /\ rooms' = [rooms EXCEPT ![m.room].status = "forfeit"]
           /\ ToRoom(m.room, [type |-> "playerForfeit", role |-> m.role])
  /\ UNCHANGED <<seat, data, saving, fate, ended>>

Closed(r) == [rooms EXCEPT ![r].status = "forfeit", ![r].open = FALSE]

\* Mutant of Farewell: the room is deleted without a word.
FarewellMissing(r) == Silent

\* Everyone in the room is told that it is gone.
Farewell(r) == ToRoom(r, [type |-> "playerLeft", room |-> r])

LeaveRoom(c) ==
  /\ Receives(c, "leaveRoom")
  /\ LET r == Head(up[c]).room
     IN \/ ~Open(r) /\ Silent /\ UNCHANGED rooms
        \/ Open(r) /\ rooms' = Closed(r) /\ Farewell(r)
  /\ UNCHANGED <<seat, data, saving, fate, ended>>

\* The socket of a player is gone: its room with it, unless the game is over.
Disconnect(c) ==
  /\ Receives(c, "disconnect")
  /\ LET r     == data[c]
         leave == /\ Open(r) /\ rooms[r].status \notin {"forfeit", "finished"}
                  /\ RoleOf(rooms[r], c) # -1
     IN /\ seat' = [seat EXCEPT ![c] = {}]
        /\ data' = [data EXCEPT ![c] = None]
        /\ \/ ~leave /\ Silent /\ UNCHANGED rooms
           \/ /\ leave
              /\ rooms' = Closed(r)
              /\ down' = [d \in Players |->
                   IF d # c /\ r \in seat[d] /\ Connected(d)
                     THEN Append(down[d], [type |-> "playerLeft", room |-> r])
                     ELSE down[d]]
  /\ UNCHANGED <<saving, fate, ended>>

ServerStep(c) ==
  /\ \A d \in Players : Len(down[d]) < MaxWire
  /\ \/ CreateRoom(c) \/ JoinRoom(c) \/ ConfirmPayment(c) \/ RejectStake(c)
     \/ PlayMove(c) \/ NextRound(c)
     \/ Forfeit(c) \/ LeaveRoom(c) \/ Disconnect(c)
==============================================================================
