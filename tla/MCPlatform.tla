------------------------------ MODULE MCPlatform ------------------------------
(***************************************************************************)
(* Four parts of the platform for TLC: the rules of the game, the locks    *)
(* when the house's wallet is the last in the order, the turns of a match  *)
(* under fair timers, and virtual money.  Their modules have no state in   *)
(* common, so their steps are not interleaved: part is the one a behaviour *)
(* is of.                                                                  *)
(***************************************************************************)
EXTENDS Songo, Bonus, LockOrder, TLC

CONSTANTS p1, p2, s1, s2, MaxMoves, MaxDrops

VARIABLES game, match, expired, unpublished, tasks, presence, grace, socket, faults, part

\* The wallet of the house is the last.
HouseLast == p1 :> 1 @@ p2 :> 2 @@ House :> 3

\* Both players have one connection, nothing is lost.
Turns == INSTANCE Lifecycle WITH
  Sockets <- {s1, s2}, Owner <- (s1 :> 0 @@ s2 :> 1), Overlap <- TRUE, MaxFaults <- 0,
  Games <- [opponent : {"HUMAN", "AI"}, timing : {"REALTIME"},
            policy : {"AUTO_RESOLVE", "VOID_REFUND"}]

\* The other engines, on the positions of the game.
Engines == INSTANCE MCSongo

turnsVars == <<game, match, expired, unpublished, tasks, presence, grace, socket, faults>>

PlatformInit ==
  /\ part \in {"rules", "locks", "turns", "virtual"}
  /\ Init /\ MoneyInit /\ LocksInit /\ Turns!Init
  /\ part # "turns" => game.opponent = "AI" /\ game.policy = "VOID_REFUND"

PlatformNext ==
  /\ \/ part = "rules" /\ Next
     \/ part = "locks" /\ LocksNext
     \/ part = "turns" /\ Turns!Next
     \/ part = "virtual" /\ MoneyNext
  /\ part # "rules" => UNCHANGED vars
  /\ part # "locks" => UNCHANGED lockVars
  /\ part # "turns" => UNCHANGED turnsVars
  /\ part # "virtual" => UNCHANGED moneyVars
  /\ UNCHANGED part

\* The fairness of Lifecycle: time passes, what was left to on_commit is done, and
\* the tasks that are due are run.
PlatformSpec ==
  /\ PlatformInit
  /\ [][PlatformNext]_<<vars, moneyVars, lockVars, turnsVars, part>>
  /\ WF_turnsVars(part = "turns" /\ Turns!Expire)
  /\ \A t \in Turns!Turns :
       /\ WF_turnsVars(part = "turns" /\ Turns!Publish(t))
       /\ WF_turnsVars(part = "turns" /\ Turns!RunMoveTimeout(t))
  /\ \A p \in Turns!Players, e \in 1..MaxDrops :
       WF_turnsVars(part = "turns" /\ Turns!RunDisconnectTimeout(p, e))

------------------------------------------------------------------------------
\* The properties of the parts; SeedsConserved, WinnerHasMore and NeverEmptied are
\* those of Songo, CapHolds and ClosedStaysEmpty those of Bonus, NoInterlock is
\* that of LockOrder.

\* The engines agree on every position of a game, and the animation with them.
EnginesAgree == part = "rules" => Engines!EnginesAgree

\* The search finds what the plain minimax does.
SearchIsMinimax == part = "rules" => Engines!SearchIsMinimax

\* Each turn of a realtime match ends although nobody does anything.
EveryTurnEnds == part = "turns" => Turns!EveryTurnEnds
==============================================================================
