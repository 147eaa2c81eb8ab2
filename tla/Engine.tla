-------------------------------- MODULE Engine ---------------------------------
(***************************************************************************)
(* The worker that calculates moves, and the effects of the page that ask  *)
(* it (docs/PoC/Mancala-main/src/App.tsx, useAITurn.ts, aiWorker.ts).      *)
(* Messages go to the worker and back in order; an answer finds its caller *)
(* by an id.  The machine of the hardest level asks depth after depth and  *)
(* keeps the worker's transposition table in between; the tutor of an      *)
(* apprentice asks once.  A change of the position undoes an effect: what  *)
(* it has asked is still calculated.                                       *)
(***************************************************************************)
EXTENDS Integers, Sequences, FiniteSets

CONSTANTS
  MaxBoards,  \* Bounds the positions.
  MaxDepth,   \* The last depth of the machine's loop; 6 in the code.
  None

VARIABLES
  desk,   \* The page: its position, its tasks, workerCallbacks and workerMsgId.
  worker  \* The messages on their way, and the players the table was filled for.

vars == <<desk, worker>>

Tutor == 0    \* joueurIa of the tutor's requests,
Machine == 1  \* and of the machine's.

\* mixed: a search has found in the table what was stored for the other player.
Init ==
  /\ desk = [board |-> 1, tasks |-> {}, callbacks |-> {}, msgId |-> 0]
  /\ worker = [queue |-> <<>>, replies |-> <<>>, table |-> {}, mixed |-> FALSE]

Task(who, kind) ==
  [who |-> who, kind |-> kind, board |-> desk.board, depth |-> 0, id |-> 0, active |-> TRUE]

\* The clean-up of the effects.
Undone(tasks) == {[t EXCEPT !.active = FALSE] : t \in tasks}

\* The position changes, or the game: the effects are undone, and one begins if it
\* is the machine's turn, or the apprentice's.
BoardChanges ==
  /\ desk.board < MaxBoards
  /\ \E new \in {{}, {Task(Machine, "deepening")}, {Task(Machine, "tree")}, {Task(Tutor, "single")}} :
       desk' = [desk EXCEPT !.board = @ + 1, !.tasks = Undone(@) \cup
                  {[t EXCEPT !.board = desk.board + 1] : t \in new}]
  /\ UNCHANGED worker

\* The player's move is sent for the worker to learn from; nothing comes back.
NotifyPlayerMoveToAI ==
  /\ Len(worker.queue) < 3  \* A bound.
  /\ worker' = [worker EXCEPT !.queue = Append(@, [action |-> "learn"])]
  /\ UNCHANGED desk

\* Mutant of GoesOn: an effect that was undone asks for its other depths.
GoesOnUndone(t) == TRUE

\* The loop looks at isActive before each depth; so does the machine before its
\* first request, after its pause.
GoesOn(t) == t.active

\* The deepening machine asks for one depth after the other.
GoesDeeper(t) == t.kind = "deepening" /\ t.depth < MaxDepth

\* The next request of a task that waits for none: getBestMoveAsync.
GetBestMove(t) ==
  /\ t \in desk.tasks /\ t.id = 0
  /\ t.depth = 0 \/ GoesDeeper(t)
  /\ IF GoesOn(t)
       THEN LET id == desk.msgId + 1
            IN /\ desk' = [desk EXCEPT !.msgId = id, !.callbacks = @ \cup {id},
                             !.tasks = (@ \ {t}) \cup {[t EXCEPT !.id = id, !.depth = @ + 1]}]
               /\ worker' = [worker EXCEPT !.queue = Append(@,
                    [action |-> "calculate", id |-> id, joueurIa |-> t.who,
                     clearTT |-> t.depth = 0 /\ t.kind # "tree", useMCTS |-> t.kind = "tree"])]
       ELSE /\ desk' = [desk EXCEPT !.tasks = @ \ {t}]
            /\ UNCHANGED worker

Kept(msg) == IF msg.clearTT THEN {} ELSE worker.table

\* A calculation: the tree search keeps off the table.
Calculated(msg) ==
  [worker EXCEPT !.queue = Tail(@),
     !.replies = Append(@, [id |-> msg.id]),
     !.table = IF msg.useMCTS THEN Kept(msg) ELSE Kept(msg) \cup {msg.joueurIa},
     !.mixed = ~msg.useMCTS /\ Kept(msg) \ {msg.joueurIa} # {}]

OnMessage ==
  /\ worker.queue # <<>>
  /\ LET msg == Head(worker.queue)
     IN worker' = IF msg.action = "learn" THEN [worker EXCEPT !.queue = Tail(@)]
                  ELSE Calculated(msg)
  /\ UNCHANGED desk

CallerOf(id) == {t \in desk.tasks : t.id = id}

\* An answer comes to the page: the callback of its id is called and deleted.
OnAnswer ==
  /\ worker.replies # <<>>
  /\ worker' = [worker EXCEPT !.replies = Tail(@)]
  /\ LET answer == Head(worker.replies)
     IN \E t \in CallerOf(answer.id) :
          desk' = [desk EXCEPT !.callbacks = @ \ {answer.id},
                     !.tasks = (@ \ {t}) \cup
                       (IF GoesDeeper(t) THEN {[t EXCEPT !.id = 0]} ELSE {})]

Asks == \E t \in desk.tasks : GetBestMove(t)

Next == BoardChanges \/ NotifyPlayerMoveToAI \/ Asks \/ OnMessage \/ OnAnswer

Spec == Init /\ [][Next]_vars

------------------------------------------------------------------------------
\* Properties.

\* A search never finds in the table a value stored for the other player, though
\* the machine keeps it from depth to depth and the tutor fills it in another
\* game while a loop that was undone may still have an answer to come.
TableOfOnePlayer == ~worker.mixed
===============================================================================
