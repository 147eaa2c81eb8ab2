--------------------------------- MODULE Mcts ----------------------------------
(***************************************************************************)
(* The tree search of AlphaSongo (docs/PoC/Mancala-main/src/workers/       *)
(* aiWorker.ts, runMCTS), one iteration after the other: select, expand,   *)
(* roll out, credit.  Which child has the best UCB value is left open, and *)
(* so is what a rollout draws.  A result is in halves: 2 for a win of the  *)
(* machine, 0 for a loss, 1 for a position the evaluation has to judge,    *)
(* whose value lies strictly between.                                      *)
(***************************************************************************)
EXTENDS Integers, Sequences
LOCAL INSTANCE FiniteSetsExt

CONSTANTS
  Camp, SeuilVictoire, SeuilRarete,  \* The rules, as in Mancala.
  Positions,                         \* The positions it is asked about.
  Iterations,                        \* Of one search; 5000 in the code.
  RolloutDepth                       \* The moves of a rollout; 30 in the code.

VARIABLE tree  \* The nodes, in the order they were made; the first is the root.

Rules == INSTANCE Mancala

JoueurIa == 1
Win == 2

Legal(s) == Rules!GetCoupsLegaux(s.plateau, s.joueur)
Fin(s) == Rules!CheckFinPartie(s.plateau, s.greniers)

Moved(s, move) ==
  LET pg == Rules!AppliquerCoup(s.plateau, s.greniers, s.joueur, move)
  IN [plateau |-> pg.plateau, greniers |-> pg.greniers, joueur |-> 1 - s.joueur]

\* own is a history: the results of the iterations that ended at the node.
Node(s, parent, move) ==
  [state |-> s, parent |-> parent, move |-> move, visits |-> 0, score |-> 0,
   untried |-> Legal(s), own |-> <<>>]

Init == \E s \in Positions : tree = <<Node(s, 0, -1)>>

Children(n) == {c \in DOMAIN tree : tree[c].parent = n}

------------------------------------------------------------------------------
\* The nodes the selection can end at, from n down: one with a move to try, or
\* one from which there is no move.
RECURSIVE Selectable(_)
Selectable(n) ==
  IF tree[n].untried = {} /\ Children(n) # {}
    THEN UNION {Selectable(c) : c \in Children(n)} ELSE {n}

\* The results a rollout from s can have with depth moves left.
RECURSIVE Results(_, _)
Results(s, depth) ==
  CASE Fin(s) = JoueurIa     -> {Win}
    [] Fin(s) = 1 - JoueurIa -> {0}
    [] Fin(s) = 2            -> {1}
    [] Fin(s) = -1 /\ (depth = 0 \/ Legal(s) = {}) -> {1}
    [] OTHER -> UNION {Results(Moved(s, m), depth - 1) : m \in Legal(s)}

\* The nodes from n up to the root.
RECURSIVE PathUp(_, _)
PathUp(t, n) == IF n = 0 THEN {} ELSE {n} \cup PathUp(t, t[n].parent)

\* Mutant of Credit: the machine's result, whoever moved into the node.
CreditAlways(t, n, result) == result

\* Credit goes to the player who moved into the node; at the root, to the other.
Credit(t, n, result) ==
  IF t[n].parent # 0 /\ t[t[n].parent].state.joueur = JoueurIa THEN result ELSE Win - result

\* Backpropagation from node n.
Credited(t, n, result) ==
  [k \in DOMAIN t |->
     IF k \notin PathUp(t, n) THEN t[k]
     ELSE [t[k] EXCEPT !.visits = @ + 1, !.score = @ + Credit(t, k, result),
                       !.own = IF k = n THEN Append(@, result) ELSE @]]

\* The last of the moves to try becomes a child.
Expanded(n) ==
  LET move == Max(tree[n].untried)
  IN Append([tree EXCEPT ![n].untried = @ \ {move}],
            Node(Moved(tree[n].state, move), n, move))

\* An iteration.  A node of a game that is over is expanded like any other.
Iterate ==
  /\ tree[1].visits < Iterations
  /\ \E n \in Selectable(1) :
       LET t    == IF tree[n].untried # {} THEN Expanded(n) ELSE tree
           leaf == IF tree[n].untried # {} THEN Len(t) ELSE n
       IN \E result \in Results(t[leaf].state, RolloutDepth) : tree' = Credited(t, leaf, result)

Spec == Init /\ [][Iterate]_tree

\* The answer: a child of the root with the most visits, none without a move.
BestMoves ==
  {tree[c].move : c \in {k \in Children(1) : \A d \in Children(1) : tree[d].visits <= tree[k].visits}}

------------------------------------------------------------------------------
\* Properties.

\* The tree accounts for its visits: every move of a position is tried once before
\* one is tried again, so a node has one iteration of its own and the rest in its
\* children, the root has all of them there, and only a position without a move
\* is visited for itself again.
VisitsAddUp ==
  \A n \in DOMAIN tree :
    LET own == Len(tree[n].own)
    IN /\ tree[n].visits = own + MapThenSumSet(LAMBDA c : tree[c].visits, Children(n))
       /\ n = 1 /\ Legal(tree[1].state) # {} => own = 0
       /\ n # 1 /\ Legal(tree[n].state) # {} => own = 1
       /\ {tree[c].move : c \in Children(n)} \cup tree[n].untried = Legal(tree[n].state)
       /\ \A c, d \in Children(n) : tree[c].move = tree[d].move => c = d

\* The players are credited against each other: what a node has won, below it its
\* children have lost, so that the child chosen for its score is the one that is
\* best for the player to move.
ScoresOppose ==
  \A n \in DOMAIN tree \ {1} :
    tree[n].score + MapThenSumSet(LAMBDA c : tree[c].score, Children(n))
      = Win * (tree[n].visits - Len(tree[n].own))
          + (IF tree[tree[n].parent].state.joueur = JoueurIa
               THEN MapThenSumSet(LAMBDA k : tree[n].own[k], DOMAIN tree[n].own)
               ELSE MapThenSumSet(LAMBDA k : Win - tree[n].own[k], DOMAIN tree[n].own))

\* The answer is a legal move, once it has iterated and where there is one.
AnswersLegally ==
  tree[1].visits > 0 => IF Legal(tree[1].state) = {} THEN BestMoves = {}
                        ELSE BestMoves # {} /\ BestMoves \subseteq Legal(tree[1].state)

\* The tree keeps its accounts.
TreeAccounts == VisitsAddUp /\ ScoresOppose /\ AnswersLegally
===============================================================================
