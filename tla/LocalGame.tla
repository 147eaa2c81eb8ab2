------------------------------ MODULE LocalGame -------------------------------
(***************************************************************************)
(* A game played on one page of the prototype, against the machine or with *)
(* two at one keyboard (docs/PoC/Mancala-main/src/App.tsx, useAITurn.ts,   *)
(* gameStore.ts): the handlers of App, the clock, the machine's turn, the  *)
(* tutor's hint, tournaments, undo, saving and loading.                    *)
(*                                                                         *)
(* A handler changes the state and React renders it; the effects that      *)
(* depend on what changed run after it (Commit).  What takes time (the     *)
(* animation of a move, the machine's and the tutor's calculation, the     *)
(* loading of a save) is a task that ends in an action of its own, and     *)
(* that does nothing when its session is over or its effect was undone:    *)
(* such a task is dropped here.                                            *)
(*                                                                         *)
(* The board is the sequence of the players who have moved; a game ends    *)
(* by any move, and at the latest with move MaxMoves.  torn is a board     *)
(* caught between two frames of an animation, with seeds still in hand.    *)
(***************************************************************************)
EXTENDS Integers, Sequences, Null

CONSTANTS
  Modes,     \* Modes to play: of "PvE", "PvP", "Apprenti" and "Tournoi".
  Rounds,    \* The numbers of rounds of a tournament, one or more.
  MaxMoves,  \* Bounds a game; one move or more.
  MaxExtra   \* Bounds the last rounds of a tournament played again.

VARIABLES
  app,  \* The store, the state of App and its tasks.
  save  \* What songo_save or the save of the account holds.

localVars == <<app, save>>

NewBoard == [moves |-> <<>>, torn |-> FALSE]
NoTournament == [actif |-> FALSE, manche |-> 1, total |-> 2, scores |-> <<0, 0>>]

\* extra and origin are histories: how many points a tournament has given, or is
\* to give, beyond one for each round of its count (the second of a tie, and the
\* one of a round played again); and whether the game was begun here, restored
\* from a save, or mixed: a save that arrived over a game begun while it loaded.
LocalInit ==
  /\ app = [screen |-> "menu", mode |-> "PvE", board |-> NewBoard, turn |-> 0,
            history |-> <<>>, thinking |-> FALSE, animating |-> FALSE, timer |-> FALSE,
            dialog |-> FALSE, tournoi |-> NoTournament, hint |-> None,
            anim |-> None, ai |-> None, tutor |-> <<>>, loading |-> FALSE,
            extra |-> 0, origin |-> "new"]
  /\ save = None

------------------------------------------------------------------------------
\* Effects.

AgainstMachine(mode) == mode # "PvP"
Playing(p) == p.screen = "playing"

\* useAITurn: on a change the machine's task is undone, and another begins if
\* it is its turn and nobody thinks yet.  isThinking is not among the changes
\* looked for, and an undone task leaves it as it is.
MachineEffect(old, p) ==
  LET seen(q) == <<q.turn, q.screen, q.mode, q.board, q.animating>>
      starts  == Playing(p) /\ p.turn = 1 /\ AgainstMachine(p.mode)
                 /\ ~p.thinking /\ ~p.animating
  IN IF seen(p) = seen(old) THEN p
     ELSE [p EXCEPT !.ai = IF starts THEN p.board ELSE None, !.thinking = @ \/ starts]

\* Mutant of Undone: an answer of the tutor is taken whenever it comes.
UndoneNever(tasks) == tasks

\* The clean-up of the tutor's effect: isActive is false for what it had asked.
Undone(tasks) == <<>>

\* The tutor: on a change its task is undone, and another begins on the turn of
\* the apprentice.
TutorEffect(old, p) ==
  LET seen(q) == <<q.turn, q.board, q.mode, q.screen, q.thinking, q.animating>>
      starts  == p.mode = "Apprenti" /\ p.turn = 0 /\ Playing(p)
                 /\ ~p.thinking /\ ~p.animating
  IN CASE seen(p) = seen(old) -> p
       [] seen(p) # seen(old) /\ starts ->
            [p EXCEPT !.tutor = Append(Undone(@), p.board), !.hint = None]
       [] OTHER -> [p EXCEPT !.tutor = Undone(@)]

Commit(p) == app' = TutorEffect(app, MachineEffect(app, p))

\* gameSessionIdRef += 1: the animation that runs will do nothing more.
NewSession(p) == [p EXCEPT !.anim = None]

\* What the page shows: between two frames while something is animated.
Visible(p) == IF p.anim = None THEN p.board ELSE [p.board EXCEPT !.torn = TRUE]

------------------------------------------------------------------------------
\* Starting.

\* startGame, up to the tournament.
Started(p, mode, first) ==
  [NewSession(p) EXCEPT
     !.screen = "playing", !.mode = mode, !.board = NewBoard, !.turn = first,
     !.history = <<>>, !.thinking = FALSE, !.animating = FALSE, !.timer = TRUE,
     !.dialog = FALSE, !.hint = None, !.origin = "new"]

StartGame ==
  /\ app.screen = "menu"
  /\ \E mode \in Modes \ {"Tournoi"} :
       Commit([Started(app, mode, 0) EXCEPT !.tournoi = NoTournament, !.extra = 0])
  /\ UNCHANGED save

StartTournament ==
  /\ app.screen = "menu" /\ "Tournoi" \in Modes
  /\ \E n \in Rounds :
       Commit([Started(app, "Tournoi", 0) EXCEPT
                 !.tournoi = [NoTournament EXCEPT !.actif = TRUE, !.total = n], !.extra = 0])
  /\ UNCHANGED save

RoundsLeft(t) == t.manche < t.total

\* The next round of the tournament: the players take turns to begin.
NextTournamentRound ==
  LET next == app.tournoi.manche + 1
  IN /\ app.screen = "gameover" /\ app.tournoi.actif
     /\ RoundsLeft(app.tournoi)
     /\ Commit([Started(app, "Tournoi", (next - 1) % 2) EXCEPT !.tournoi.manche = next])
     /\ UNCHANGED save

\* A tournament with rounds to play shows the next one only.
Over == app.screen = "gameover" /\ ~(app.tournoi.actif /\ RoundsLeft(app.tournoi))

\* The game again: a tournament that is over goes on, with its last round.
RestartGame ==
  /\ Over /\ (app.tournoi.actif => app.extra < MaxExtra)
  /\ Commit([Started(app, app.mode, 0) EXCEPT
               !.tournoi = IF app.mode = "Tournoi" THEN @ ELSE NoTournament,
               !.extra = IF app.tournoi.actif THEN @ + 1 ELSE @])
  /\ UNCHANGED save

ResetToMenu ==
  /\ Over
  /\ Commit([NewSession(app) EXCEPT !.screen = "menu", !.mode = "PvE",
               !.tournoi = NoTournament, !.history = <<>>])
  /\ UNCHANGED save

------------------------------------------------------------------------------
\* Moving.

\* handleMove from its checks to the first frame.
Moving(p) ==
  [p EXCEPT !.history = Append(@, [board |-> p.board, turn |-> p.turn]),
            !.animating = TRUE, !.timer = FALSE,
            !.anim = [from |-> p.board, by |-> p.turn]]

\* The player to move clicks on a hole of its side.
CanPlay ==
  /\ Playing(app) /\ ~app.thinking /\ ~app.animating
  /\ app.mode = "PvP" \/ app.turn = 0

Click ==
  /\ CanPlay
  /\ Commit([Moving(app) EXCEPT !.hint = IF app.mode = "Apprenti" THEN None ELSE @])
  /\ UNCHANGED save

\* A hole that may not be played: the clock is stopped all the same.
IllegalClick ==
  /\ CanPlay /\ app.timer
  /\ Commit([app EXCEPT !.timer = FALSE])
  /\ UNCHANGED save

\* The time is up: the worst move is played for the player, even over the
\* machine's thinking.  The zero delay before it is taken as none.
TimeUp ==
  /\ app.timer /\ Playing(app)
  /\ \/ ~app.animating /\ Commit(Moving(app))
     \/ app.animating /\ Commit([app EXCEPT !.timer = FALSE])
  /\ UNCHANGED save

\* The machine has its move and plays it.
MachineAnswers ==
  /\ app.ai # None
  /\ Commit([Moving(app) EXCEPT !.thinking = FALSE])
  /\ UNCHANGED save

TutorAnswers ==
  /\ app.tutor # <<>>
  /\ app' = [app EXCEPT !.hint = Head(app.tutor), !.tutor = Tail(app.tutor)]
  /\ UNCHANGED save

\* The score of a tournament after a round won by fin, or drawn.
Scored(p, fin) ==
  IF ~(p.mode = "Tournoi" \/ p.tournoi.actif) THEN p
  ELSE [p EXCEPT !.tournoi.scores = <<@[1] + (IF fin \in {0, 2} THEN 1 ELSE 0),
                                      @[2] + (IF fin \in {1, 2} THEN 1 ELSE 0)>>,
                 !.extra = @ + (IF fin = 2 THEN 1 ELSE 0)]

\* Mutant of Timed: the machine has no clock.
TimedPlayers(p, turn) == p.mode = "PvP" \/ turn = 0

\* The clock starts again for whoever is to move.
Timed(p, turn) == TRUE

\* The animation is over: the other's turn, or the end of the game by the rules
\* or because the other cannot move.
Landed ==
  [app EXCEPT !.board = [app.anim.from EXCEPT !.moves = Append(@, app.anim.by)],
              !.anim = None, !.animating = FALSE]

EndMove ==
  /\ app.anim # None
  /\ \/ /\ Len(Landed.board.moves) < MaxMoves
        /\ Commit([Landed EXCEPT !.turn = 1 - app.anim.by,
                                 !.timer = Timed(app, 1 - app.anim.by)])
     \/ \E fin \in 0..2 : Commit([Scored(Landed, fin) EXCEPT !.screen = "gameover"])
  /\ UNCHANGED save

------------------------------------------------------------------------------
\* Taking back and giving up.

StepBack(p) == IF AgainstMachine(p.mode) /\ Len(p.history) >= 2 THEN 2 ELSE 1

\* Mutant of Kept: the position gone back to stays in the history.
KeptOneMore(p, target) == SubSeq(p.history, 1, target)

Kept(p, target) == SubSeq(p.history, 1, target - 1)

HandleUndo ==
  /\ Playing(app) /\ ~app.thinking /\ ~app.animating /\ app.history # <<>>
  /\ LET target == Len(app.history) - StepBack(app) + 1
         back   == app.history[target]
     IN Commit([app EXCEPT !.board = back.board, !.turn = back.turn, !.hint = None,
                           !.history = Kept(app, target)])
  /\ UNCHANGED save

ForfeitDialog ==
  /\ Playing(app) /\ ~app.dialog
  /\ Commit([app EXCEPT !.dialog = TRUE])
  /\ UNCHANGED save

CloseDialog ==
  /\ app.screen # "menu" /\ app.dialog
  /\ Commit([app EXCEPT !.dialog = FALSE])
  /\ UNCHANGED save

\* Mutant of MayForfeit: a game that is over can still be given up.
MayForfeitAlways == TRUE

MayForfeit == app.screen # "gameover"

\* Who forfeits: either of two players, and the human against the machine.
ConfirmForfeit ==
  /\ app.screen # "menu" /\ app.dialog /\ MayForfeit
  /\ \E loser \in IF app.mode = "PvP" THEN 0..1 ELSE {0} :
       Commit([NewSession(Scored(app, 1 - loser)) EXCEPT
                 !.board = Visible(app), !.screen = "gameover", !.dialog = FALSE,
                 !.animating = FALSE, !.thinking = FALSE])
  /\ UNCHANGED save

------------------------------------------------------------------------------
\* Saving and loading.

\* The header is under the game-over screen: saving, like taking back, is for a
\* game that is being played.  A game already broken by a load is not saved
\* again (a bound).
SaveGame ==
  /\ Playing(app) /\ app.origin # "mixed" /\ ~app.board.torn
  /\ save' = [board |-> Visible(app), turn |-> app.turn, mode |-> app.mode,
              tournoi |-> app.tournoi, history |-> app.history, extra |-> app.extra]
  /\ UNCHANGED app

DeleteSave ==
  /\ app.screen = "menu" /\ save # None
  /\ save' = None
  /\ UNCHANGED app

\* loadGame up to its await: the session ends when the button is pressed.
LoadGame ==
  /\ app.screen = "menu" /\ save # None /\ ~app.loading
  /\ Commit([NewSession(app) EXCEPT !.loading = TRUE])
  /\ UNCHANGED save

\* The save arrives, whatever the page has become.
LoadArrives ==
  /\ app.loading
  /\ \/ /\ save # None
        /\ Commit([app EXCEPT !.loading = FALSE, !.board = save.board, !.turn = save.turn,
                     !.mode = save.mode, !.tournoi = save.tournoi, !.extra = save.extra,
                     !.history = save.history, !.screen = "playing",
                     !.origin = IF app.screen = "menu" THEN "save" ELSE "mixed"])
     \/ save = None /\ Commit([app EXCEPT !.loading = FALSE])
  /\ UNCHANGED save

------------------------------------------------------------------------------
LocalNext ==
  \/ StartGame \/ StartTournament \/ NextTournamentRound \/ RestartGame \/ ResetToMenu
  \/ Click \/ IllegalClick \/ TimeUp \/ MachineAnswers \/ TutorAnswers \/ EndMove
  \/ HandleUndo \/ ForfeitDialog \/ CloseDialog \/ ConfirmForfeit
  \/ SaveGame \/ DeleteSave \/ LoadGame \/ LoadArrives

\* Timers and workers are served: an animation runs to its end, a calculation
\* answers, the clock runs out.  Nothing is assumed of the player.
LocalFairness == WF_localVars(EndMove) /\ WF_localVars(MachineAnswers) /\ WF_localVars(TimeUp)

LocalSpec == LocalInit /\ [][LocalNext]_localVars /\ LocalFairness

------------------------------------------------------------------------------
\* Properties.

\* The game can be replayed from its history: entry i is the position before
\* move i of this game and whose turn it was, the last one that of the move
\* being animated.  No task of an ended session, and no undo, breaks it; a save
\* that arrives over another game does, and one taken between two frames.
HistoryReplays ==
  Playing(app) /\ app.origin # "mixed" /\ ~app.board.torn =>
    LET played == IF app.anim = None THEN app.board.moves
                  ELSE Append(app.board.moves, app.anim.by)
    IN /\ Len(app.history) = Len(played)
       /\ \A i \in 1..Len(played) :
            /\ app.history[i].board.moves = SubSeq(played, 1, i - 1)
            /\ app.history[i].turn = played[i]

\* Every round that was played is scored once: one point, or one each in a tie,
\* though a forfeit is confirmed while the last move is animated or over, a save
\* is loaded, or the last round is played again: the points of a tournament may
\* then be more than its rounds.
ScoredOnce ==
  LET ended == app.tournoi.manche - (IF app.screen = "gameover" THEN 0 ELSE 1)
  IN app.tournoi.actif =>
       app.tournoi.scores[1] + app.tournoi.scores[2] = ended + app.extra

\* A hint shown to the apprentice who can move was calculated for the position
\* on the board, whatever was moved or taken back meanwhile.
HintIsCurrent ==
  app.mode = "Apprenti" /\ Playing(app) /\ app.turn = 0 /\ CanPlay /\ app.hint # None
    => app.hint = app.board

\* In a game begun here, the machine's turn ends: it answers, or the clock plays
\* for it.  The machine's task may be undone and leave isThinking behind; the
\* clock then plays every move.  A restored game has no clock until a move ends.
MachineTurnEnds ==
  Playing(app) /\ AgainstMachine(app.mode) /\ app.turn = 1 /\ app.origin = "new"
    ~> ~Playing(app) \/ app.turn = 0 \/ app.origin # "new"
===============================================================================
