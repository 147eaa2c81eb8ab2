------------------------------- MODULE BoardPage -------------------------------
(***************************************************************************)
(* The board in the browsers of the two players of a match                 *)
(* (static/src/board.ts), the consumers that serve them                    *)
(* (realtime/consumers.py) and the channel layer in between.  A consumer   *)
(* handles one message at a time, in steps between which the others run:   *)
(* a move is committed, the match is read again, the state is sent to the  *)
(* group.  What a move does is Lifecycle's: here a position is the number  *)
(* of moves made, by turns, and a match ends with any of them.             *)
(***************************************************************************)
EXTENDS Integers, Sequences

CONSTANTS
  MaxVersion,  \* Bounds the moves.
  None

VARIABLES
  match,   \* The match in the database, and what has been sent of it.
  boards,  \* Per player, the page, its socket and its consumer.
  inbox    \* Per player, what the channel layer holds for its consumer.

vars == <<match, boards, inbox>>

Players == {0, 1}
Turn(version) == version % 2

\* announced and overtaken are histories: the latest position sent to the group,
\* and whether an older one was sent after it.
Init ==
  /\ match = [version |-> 0, status |-> "ACTIVE", announced |-> 0, overtaken |-> FALSE]
  /\ boards = [p \in Players |->
       [version |-> 0, status |-> "ACTIVE", socket |-> "closed", asked |-> None,
        consumer |-> "gone", read |-> None]]
  /\ inbox = [p \in Players |-> <<>>]

Become(p, new) == boards' = [boards EXCEPT ![p] = new]

------------------------------------------------------------------------------
\* The page.

\* The page is loaded: the state of the match is in it, and its status is not.
Load(p) ==
  /\ boards[p].socket = "closed" /\ boards[p].consumer = "gone"
  /\ Become(p, [boards[p] EXCEPT !.version = match.version, !.status = "ACTIVE",
                  !.socket = "open", !.consumer = "connect"])
  /\ UNCHANGED <<match, inbox>>

MyTurn(p) == boards[p].status = "ACTIVE" /\ Turn(boards[p].version) = p

\* A hole, or the forfeit button, which is there at any time.  The player waits
\* for the answer before the next click (a bound).
Click(p) ==
  /\ boards[p].socket = "open" /\ boards[p].asked = None
  /\ \E action \in {"forfeit"} \cup (IF MyTurn(p) THEN {"play"} ELSE {}) :
       Become(p, [boards[p] EXCEPT !.asked = action])
  /\ UNCHANGED <<match, inbox>>

\* onMessage with a state, and the rendering.
OnState(page, state) == [page EXCEPT !.version = state.version, !.status = state.status]

\* The connection is lost.  The page says that it connects again; it does not,
\* the player loads it again.
Drop(p) ==
  /\ boards[p].socket = "open"
  /\ Become(p, [boards[p] EXCEPT !.socket = "closed", !.asked = None])
  /\ UNCHANGED <<match, inbox>>

------------------------------------------------------------------------------
\* The consumer.

\* _serialize reads the match again.
Serialize == [version |-> match.version, status |-> match.status]

\* connect: the group is joined.
Connect(p) ==
  /\ boards[p].consumer = "connect"
  /\ Become(p, [boards[p] EXCEPT !.consumer = "greet"])
  /\ UNCHANGED <<match, inbox>>

\* Mutant of Greeting: the state is the one of before the group was joined.
GreetingEarly(p) == [version |-> boards[p].version, status |-> boards[p].status]

\* The state that answers a connection.
Greeting(p) == Serialize

\* Then the state is sent to the page, before anything the group was sent since.
Greet(p) ==
  /\ boards[p].consumer = "greet"
  /\ Become(p, [IF boards[p].socket = "open" THEN OnState(boards[p], Greeting(p)) ELSE boards[p]
                  EXCEPT !.consumer = "idle"])
  /\ UNCHANGED <<match, inbox>>

\* receive_json up to the commit: a move, or a forfeit, that Lifecycle takes, or an
\* error for the page.
Handle(p) ==
  /\ boards[p].consumer = "idle" /\ boards[p].asked # None
  /\ \/ /\ match.status = "ACTIVE" /\ match.version < MaxVersion
        /\ boards[p].asked = "play" => Turn(match.version) = p
        /\ \E status \in {"ACTIVE", "COMPLETED"} :
             /\ boards[p].asked = "forfeit" => status = "COMPLETED"
             /\ match' = [match EXCEPT !.version = @ + 1, !.status = status]
        /\ Become(p, [boards[p] EXCEPT !.consumer = "committed"])
     \/ /\ match.status # "ACTIVE" \/ (boards[p].asked = "play" /\ Turn(match.version) # p)
        /\ Become(p, [boards[p] EXCEPT !.asked = None])
        /\ UNCHANGED match
  /\ UNCHANGED inbox

\* The match is read again, which may find more than the move just made,
ReadAgain(p) ==
  /\ boards[p].consumer = "committed"
  /\ Become(p, [boards[p] EXCEPT !.consumer = "read", !.read = Serialize])
  /\ UNCHANGED <<match, inbox>>

Members == {p \in Players : boards[p].consumer \notin {"gone", "connect"}}

\* and what was read is sent to the group.
GroupSend(p) ==
  /\ boards[p].consumer = "read"
  /\ inbox' = [q \in Players |->
                 IF q \in Members THEN Append(inbox[q], boards[p].read) ELSE inbox[q]]
  /\ Become(p, [boards[p] EXCEPT !.consumer = "idle", !.read = None, !.asked = None])
  /\ LET sent == boards[p].read.version
     IN match' = [match EXCEPT !.overtaken = sent < match.announced,
                    !.announced = IF sent > @ THEN sent ELSE @]

\* match_state: what the group was sent goes to the page.
MatchState(p) ==
  /\ boards[p].consumer = "idle" /\ inbox[p] # <<>>
  /\ inbox' = [inbox EXCEPT ![p] = Tail(@)]
  /\ Become(p, IF boards[p].socket = "open" THEN OnState(boards[p], Head(inbox[p]))
               ELSE boards[p])
  /\ UNCHANGED match

\* disconnect, after the message being handled; or the process is killed, and what
\* it still had to send is lost.
Disconnect(p) ==
  /\ boards[p].consumer # "gone"
  /\ \/ boards[p].socket = "closed" /\ boards[p].consumer \in {"connect", "greet", "idle"}
     \/ boards[p].socket = "open"
  /\ Become(p, [boards[p] EXCEPT !.socket = "closed", !.consumer = "gone", !.read = None,
                  !.asked = None])
  /\ inbox' = [inbox EXCEPT ![p] = <<>>]
  /\ UNCHANGED match

\* A timer plays, or ends the match: nothing is sent.
Automatic ==
  /\ match.status = "ACTIVE" /\ match.version < MaxVersion
  /\ \E status \in {"ACTIVE", "COMPLETED"} :
       match' = [match EXCEPT !.version = @ + 1, !.status = status]
  /\ UNCHANGED <<boards, inbox>>

------------------------------------------------------------------------------
Next ==
  \/ \E p \in Players :
       \/ Load(p) \/ Click(p) \/ Drop(p) \/ Connect(p) \/ Greet(p) \/ Handle(p)
       \/ ReadAgain(p) \/ GroupSend(p) \/ MatchState(p) \/ Disconnect(p)
  \/ Automatic

Spec == Init /\ [][Next]_vars

------------------------------------------------------------------------------
\* Properties.

\* A page that is connected and has nothing to come shows the latest position sent
\* to anyone, however it was loaded, dropped and loaded again between the steps of
\* others.  It need not be the latest there is: automatic moves are not sent, and
\* a state read earlier may be sent later (overtaken).
CaughtUp ==
  \A p \in Players :
    boards[p].socket = "open" /\ boards[p].consumer = "idle" /\ inbox[p] = <<>>
      /\ ~match.overtaken => boards[p].version >= match.announced
===============================================================================
