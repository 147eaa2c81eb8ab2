# AfriBet: a TLA+ model of the money and the matches

AfriBet is a Django platform on which players stake money on a board game
(Songo) against one another or against the house's AI. Beside the platform the
repository keeps the prototype it was born from, a React page with a Node game
server (`docs/PoC/Mancala-main/`, PoC below). This directory holds TLA+
modules of both, TLC configurations that check them on small instances,
and TLAPS proofs that hold for every instance. Paths below are relative to the
root of the repository, `src/`; those of the prototype, to its directory.

## 1. The system

### The platform
All services are Python classes whose methods run in database transactions
(`@transaction.atomic`) that lock the rows they change (`select_for_update`) and
read them again. Three things are *not* under those locks and are where the hard
behaviours come from: lists and statuses read before the lock is taken, calls to
the payment provider, and work handed to Celery after the commit.

| Component | State | Operations | Hard behaviour | What makes it correct |
|---|---|---|---|---|
| wallet (`wallet/`) | per user two pockets (REAL, BONUS), each available and locked; the ledger `Transaction` | credit, lock_funds, settle_escrow, refund_escrow, reserve_for_payout, credit_back, convert_bonus | several wallets in one transaction; lock order | nothing negative; locked = staked; available = sum of the ledger; no deadlock |
| matchmaking (`matchmaking/services.py`) | `Match` rows PENDING to ACTIVE or CANCELLED; access codes | create_challenge, create_training_match, join_from_lobby, join_by_code, auto_pair, cancel_challenge, regenerate_code | races for a seat; auto_pair's stale list, several workers; codes that expire, are redrawn, are used once | one opponent, never oneself; a private match only with its live code; each stake goes in once |
| resolution (`matchmaking/resolution.py`) | ACTIVE to COMPLETED or CANCELLED | resolve, forfeit_resolve, void | last move, timer, forfeit, operator at once | paid once or refunded once; never stuck |
| lifecycle (`matchmaking/lifecycle.py`, `matchmaking/tasks.py`) | turn, deadline, presence events | play_move, on_move_timeout, forfeit, on_connect, on_disconnect(_timeout) | late, duplicate and lost timers; a reconnection racing the end of the grace | an absent player only is played for; every match ends |
| realtime (`realtime/`) | sockets, groups of the channel layer | connect, disconnect, receive, match_state | order of events from two sockets of one player; states read before they are sent | presence reflects the player; a connected board catches up |
| board page (`static/src/board.ts`) | the position shown, one socket | load, click, onmessage | moves committed while the page connects or reconnects | shows the latest position sent |
| payments (`payments/`) | `PaymentIntent`, WITHDRAWAL ledger rows | deposit, withdraw, approve/reject, handle_callback, verify | callbacks duplicated, lost, early; process deaths around provider calls | an intent moves the balance once; what is paid out is debited; what is paid in is credited |
| bonus (`bonus/`) | `BonusGrant`, conversion counter, usage policy | maybe_grant_welcome, check_virtual_usage, convert_bonus_to_real | concurrent first deposits; the global cap | one welcome bonus; cap respected; pocket closed for life |
| compliance (`compliance/`) | limits, self-exclusions, jurisdictions | is_allowed, enforce_limits, set_limit, self_exclude | limits summed without a lock | a limit is not passed |
| accounts (`accounts/`) | users, e-mail codes | register, resend_email_code, verify_email_code | two codes alive; crash between activation and wallet | one valid code, bounded attempts, a wallet per active user |
| games (`games/`) | opaque game state | rules of Songo, AI search | laps, captures, famine | seeds conserved; always a legal move or an end |
| backoffice, core, notifications, frontend | settings, money type, pages | operator actions | - | - |
| disputes, ranking | empty applications | - | - | - |

How they interact: matchmaking and resolution call `WalletService` inside their
own transaction; lifecycle calls resolution; realtime calls lifecycle and
schedules Celery tasks that come back to lifecycle; payments calls the wallet
and, when a deposit settles, bonus; the provider calls payments by web hook and
a Celery task; matchmaking, payments and bonus ask compliance before they act;
operators call payments (approve, reject) and resolution (void).

### The prototype
One page per player, one Node process with the rooms in memory, Firestore, a
worker that calculates moves, and Gemini for the comments. Nothing is locked; what
is hard is asynchrony: state captured by a callback and used after it changed.

| Component | State | Operations | Hard behaviour | What makes it correct |
|---|---|---|---|---|
| rules and animation (`utils/gameLogic.ts`, `gameAnimation.ts`) | none | legal moves, a move, its frames, the end | the rules of Songo are written again, twice | the same game as `rules.py`; the animation ends on the same board |
| game server (`server.ts`) | rooms: players, payments, round, scores, board | createRoom, joinRoom, confirmPayment, rejectStake, playMove, nextRound, forfeit, leaveRoom, disconnect | a move while Firestore is awaited; events in any order; a socket lost in any state | scores earned once; a first round is paid for; whoever stays in a deleted room hears of it |
| online page (`hooks/useOnlineGame.ts`, `OnlineSetupModal.tsx`, parts of `App.tsx`) | room, role, board, queue of remote moves, the wizard's step | the handlers of the server's events, the wizard, payments by timers | the socket is replaced by a render; callbacks of an older render; moves queued behind an animation | each move animated once; a waiting page has a room |
| local game (`App.tsx`, `store/gameStore.ts`, `hooks/useAITurn.ts`, `GameOver.tsx`) | mode, board, history, tournament, clock, tasks of machine and tutor, saved game | start, move, undo, forfeit, next round, save, load | tasks of an older position or session; undone tasks that leave flags set | the history replays; a round is scored once; hints are current; the machine's turn ends |
| AI worker (`workers/aiWorker.ts`, `utils/zobrist.ts`) | one transposition table, the nodes of a tree | alphaBeta, runMCTS, the messages | a table kept between depths and shared by callers | minimax value; the tree's sums; one player's values at a time |
| accounts, saves, ranking (`hooks/useFirebase.ts`, `services/firebase.ts`, `LeaderboardModal.tsx`) | user, statistics, save in cloud and device, caches | sign in and out, updateUserStats, resetElo, checkSaves, save, delete, ranking queries | answers that come after the account changed; listeners that die | figures are one's own and complete; saves that exist are offered; caches do not lie |
| commentator (`services/gemini.ts`) | last request, breaker, cache | analyzeMove, callGemini with interval, retries and backoff | calls asleep while the breaker opens | an open breaker lets out no more than those |
| interface (`components/`) | none of the game | rendering | - | - |

A page talks to the server over one socket (ordered each way, lost with the
socket), to Firestore and Gemini by requests, to its worker by messages.

`PROJECT.json` lists every component with its status and every hazard at its line.

## 2. The modules

### WalletOps: wallet/services.py
The service methods as operators on a table of wallets: a guard `CanX` (what
the method checks before it raises) and a result `X`. Escrow and Payments
INSTANCE it, so that both move money the same way. `_add` raises when a balance
would become negative: `CanRefund` and `CanSettle` are that condition for the
two locked balances, and `CanLock`, `CanReserve` the comparison with the available
one. The rake is rounded down and only taken in the REAL pocket.

### Escrow: matchmaking, resolution and the wallet together
State: `match` (the match table), `wallet`, `posted` (the ledger rows that
carry a match id, added up per match, type and user), `external` (the other rows
per user and pocket), `scan` (for each auto_pair worker the list it has read).
One action per service method, since each is one transaction with its rows
locked; a call that raises rolls back and is not a step. `AutoPairScan` and
`Merge` are separate because `auto_pair` reads without a lock and merges each
pair in a transaction of its own: between the two anything may happen, and
`Mergeable` is what `_merge` looks at again. `Merge` may pick any compatible pair
of the list: the code's own order (by creation, per group) is one of them. A match that is ACTIVE
may end in any way: the game is abstracted, and so are the refusals of
compliance and of the bonus policy. Times are abstracted to one event,
`ExpireCode`. `Fund` and `Withdraw` are the cashier seen from the wallet.

### Wager: the contract
What the platform promises about each match: a stake goes in once, the match
ends once, with every stake given back or with the pot paid to a participant
and the house's rake, and never moves money again. `EscrowWager!KeepsTheWager` is
the refinement: phases from statuses, net positions from ledger rows.

### Totals
`SumOf`, the SUM of a query, as a fold of the community modules. Escrow, Payments and Bonus
state their sums with it; its facts are in TotalsProofs.

### Payments: payments/services.py, the welcome bonus, the provider
State: `intent`, `tx` (status of the WITHDRAWAL row of an intent), `wallet`,
`granted`, `request` (where each deposit request is between its commits),
`picked` (what each verifier has read), and the external `verdict` and `inbox`
(what the provider has accepted and decided, the callbacks under way). `deposit`
is four actions because it is no transaction: look-up, insertion, provider call,
save of the reference. `withdraw` is one action, and `WithdrawCrash` is the
death between the provider call inside it and its commit; `ApproveCrash` and
`DepositCrash` likewise. `verify` is two actions: it asks the provider outside
the lock and settles after a second look. `provider` is
which one is configured: the sandbox's `verify` believes any reference, another
provider (the interface is there for mobile money) answers what it knows. The provider decides an order once. The callback of an order may be
handled many times, lost, or handled before the reference is saved.

### LockOrder: the rows a transaction locks, in order
Each kind of transaction is the sequence of rows it locks; a transaction takes
them one by one, waits, and releases all at its commit. `Rank` is the order of
the wallet ids, which are random uuids; `Operations` are the kinds of transaction that run.
Owners, who has a wallet, is shared with Bonus.

### Lifecycle: one started match, its timers and its sockets
State: `game` (what the match is: opponent, timing, policy), `match` (status, moves
played, whose turn, and from the journal why it last changed), `expired`
(has `move_deadline` passed), `unpublished` and `tasks` (timeout tasks waiting for
the commit, and at the broker), `presence` and `grace` (the last event of each
player, its epoch, and the disconnect timers set for it), `socket`, `faults`.
A service method that locks the match is one step; `_advance_ai` is inside the
step of the move it answers; the `on_commit` hand-over is a step of its own
(`Publish`, or `PublishCrash`). A Celery task may be late, run twice, run after
what it was set for is over, or be lost.

Time is what it decides. The deadline of the current turn passes (`Expire`) and
arming a turn clears it. A task for the current turn is delivered only after
its deadline: its eta is computed at or after the deadline from the same setting.
A task of an earlier turn may run at any time. The grace of a disconnection ends
(`GraceElapse`) before its task runs. `Overlap` says whether one player may
have two connections. A request over HTTP needs no socket, so `PlayMove` does not
ask for one. The game is abstract, as in Escrow: a move passes the turn or ends
the game, and a passed turn is a turn of the other player.

### Songo: the rules
State: `plateau`, `greniers`, `joueur`. Each function of `rules.py` is an operator
from a board to a board. A loop that drops seeds one by one is a set: the k-th
seed of a move falls where `get_destination_hole` says that k seeds end. The board
has `Camp` holes a player. `Play` and `PlayWorst` are `apply_move` with a player's
move and with `worst_move`. The engine is pure; Lifecycle's abstract game is any
game it plays.

### Bonus: virtual money
State: the wallets, `granted`, `closed` (pockets closed for life), `open` (matches
staked from the BONUS pocket), `total` and `converting`. A conversion is two
steps, the lock of the counter with its reading and the lock of the wallet with
the commit; bets and ends of matches, which lock only the wallet, come between.
WalletOps moves the money, as in Escrow.

### BoardPage: a match in two browsers
State: `match` (position as a number of moves), `boards` (page, socket and consumer
of each player), `inbox` (what the channel layer holds for each consumer). A
consumer works in steps: it commits a move, reads the match again, sends it to the
group; the other consumer and the timers act in between. The page is loaded
with the position and greeted with the state when its socket connects.

### Mancala, AlphaBeta, Mcts, Engine: the prototype's rules and worker
Mancala is `gameLogic.ts` with the loops as folds over the holes in their order, and
the frames of the animation; MCSongo runs it beside Songo on every reachable
position. AlphaBeta is the search with its table threaded through (a call takes a table
and returns one), deepened as the page does; `Minimax` is its reference
definition. Mcts has one action per iteration of the tree search and leaves
open what UCB and the rollouts draw. Engine is the traffic between page and
worker: ids, callbacks, the loop over depths, the tutor, and for whom the table was filled.

### Room, OnlinePage, OnlineSetup, Online: a table of the prototype
One module each for the server, the page in play, the set-up wizard, and the whole
with the peers. `up` and `down` are the wires; `seat` is the
rooms a socket has joined (the code never leaves one), `data` what `socket.data` says of the last. One action per handler: `PlayMove` is in
two steps where it awaits Firestore (`SaveDone`). A page that renders may
replace its socket afterwards (`Rerender`), because the effect that owns it depends
on `t`, new at each render. The handler of `gameStateUpdate` sets state inside an
updater that React runs early or late; both orders are there. A peer is any
client that follows the protocol and sends what it may in any order. The
board is the number of moves of the round; how each round ends is drawn at Init.

### LocalGame: a game on one page
State: `app` (the store, the state of `App` and its tasks, and `extra`, the history of last
rounds that were played again) and `save`. A handler
sets the state and `Commit` runs the effects that depend on what changed, as React
does. A task whose session is over or whose effect was undone is dropped,
with the flags it leaves behind. A position is the sequence of the players who moved.
Null, the null of a page, is shared with UserData.

### UserData, SavedGame, Ranking, Gemini
The account's statistics on one page and other devices (`ghost` holds the number of
results that were written, and the accounts upset by what one page cannot
answer for); the game saved in the cloud or the device; the two caches of
the ranking; the breaker and retries of the commentator, in ticks of 5 seconds.

### MC modules
`MCEscrow`, `MCPayments`, `MCLockOrder`, `MCLifecycle`, `MCSongo`, `MCOnline` give the
constants that a .cfg cannot write and the symmetries.
`MCPlatform` (Bonus, LockOrder, Songo and others) and `MCPage` (UserData, LocalGame and others) put several modules into one run each. These modules
share no state, so their steps are not interleaved: `part` says which one a
behaviour is of, and the others stay as they begin. PageParts, which `MCPage` and
`PageProofs` extend, holds the instances of a page's parts and names their
properties, so that the run checks and the theorems state the same definitions.

## 3. What the runs show

| Run | Checks | Instance |
|---|---|---|
| escrow_matches | TypeOK, EscrowBacked, Reconciled, NeverStuck, KeepsTheWager, InvitedOnly | 3 players (creator, invited, stranger), 2 matches of any kind (lobby, private, AI, training), an auto_pair worker with its stale list, 2 codes that expire and are redrawn, both pockets, withdrawals; stakes 3 and 5 at 10 percent, so that the rake rounds to nothing (6 * 10%) or is 1; a balance of 5 covers one stake, not two |
| payments | CountedOnce, OnePerKey, PayoutsBackedAlive, EndsAsDecided | 2 intents (a deposit and a withdrawal from it, above or below the review threshold, or two deposits), 2 requests that share a key, a verifier, either provider, one death anywhere |
| platform | NoInterlock | 3 transactions of any kind on 2 matches and 3 wallets, the house's the last |
| | EveryTurnEnds (liveness) | realtime matches against both opponents, no task lost |
| | CapHolds, ClosedStaysEmpty | 2 players and the house, stakes of 1 and 2, a bonus of 4, tranches of 2 for 1 franc, a cap of 3 |
| | SeedsConserved, WinnerHasMore, NeverEmptied, EnginesAgree, SearchIsMinimax | every game with 3 holes a player and 2 seeds a hole; the search to depth 4 with a table of 8 entries, on boards with 4 to 7 seeds left |
| lifecycle_timers | TimerArmed, TurnGetsItsTime, GraceIsWhole, PresentNotForced, OverIsOver | all 8 kinds of match (opponent, timing, policy), 3 moves, 2 disconnections a player, 1 fault, one connection a player at a time |
| poc_online | ScoresEarned, FirstRoundsPaid, ToldOfTheEnd, MovesAccounted | host and guest, each the prototype's page or a peer, a room, with and without a stake, a tournament of two rounds: a tie, then a player who cannot move, and one more if both ask for the second |
| poc_page | HistoryReplays, ScoredOnce, HintIsCurrent, MachineTurnEnds (liveness) | LocalGame: every mode, games of 3 moves, tournaments of 2 rounds, the last played again once |
| | FiguresTrue, SaveOffered | 2 accounts, 3 results |
| | BreakerHolds | 2 comments that overlap and another call, a cooldown of 2 ticks |
| | TableOfOnePlayer, TreeAccounts | 4 positions of page and worker; 6 iterations from 8 positions |
| | CachesHonest, CaughtUp | 4 ticks of the ranking; 3 moves on two boards |

### Bounds
`MaxMatches` and `MaxIntents` (ids ever created), `MaxFunding` (total
deposits of a pocket), `MaxCrashes`. Stakes of two sizes tell a refund of the wrong
match apart. Two matches are one merge; that two workers' merges overlap on
three matches is not run; the proofs of `EscrowBacked` and `NeverStuck` cover any number of both. A lock cycle needs as
many transactions as locks in it; the
transactions lock at most two matches and three wallets. `MaxMoves` = 3 gives a turn
to each side, an answer of the house and an end in the middle of one; in LocalGame,
a move of each side and one taken back. `MaxDrops` = 2 is the least for a timer of an
earlier disconnection to meet a later one (the liveness needs one);
`MaxFaults` = 1 because the properties that exclude faults need none and the others
are safety. With 12 seeds on 6 holes, games with moves of one and of two laps, a
capture at the end of a lap, a cascade of two holes, a refused capture, a trap, a
famine with a priority move, and ends by threshold, scarcity, block and draw all
occur; the thresholds keep the proportions of the code's (40 and 10 of 70). A table of
8 entries is emptied in the middle of a search, which the code's 100000 does rarely.

Online: one room is created (`RoomIds`, `CodeLeft`: nobody asks for one when no code is
left), and pages may come back to its code after it is gone; `MaxWire` = 2 events
wait on a wire. A peer joins rooms that are open. Once the code is used up, a host's payment
that is still under way could only fail to create a room: the constraint `NothingLeftToPay`
leaves such states out. `MaxManche` = 3 is one round more than the tournament has: both
players may ask for the second, and the room is then in a third (which `ThirdRound` lets go on
between two pages or two peers, and not between a page and a peer). The player waits for the
answer to the last click of the wizard (`At`), pays once at a time; a
peer reads before it writes and waits to be heard. A tournament of two rounds
has a first round, one that follows, and the end; a single match is the
last round of one. `MaxExtra` = 1 restart of a finished tournament. LocalGame saves and takes back only while playing (the
header is under the game-over screen), and the clock's zero delay before it plays is
none. UserData has one result on its way and signing out succeeds. In BoardPage
a player waits for the answer to a click.

Deadlock is checked in Escrow. The other runs turn it off: a match, a game or a
table can be over, every id used and every intent closed. That locks never block
each other for ever is `NoInterlock` itself.

### Fairness
The liveness properties need it, two that hold and one that does not.
- `PaidIsCredited`: `Served` (a deposit request that has started goes on, and a
  callback that is not lost is handled: the web server and the Celery workers run).
  Nothing more: the code schedules `verify_pending_deposits` nowhere.
- `EveryTurnEnds`: time passes (`Expire`), web processes do what they left to
  `on_commit`, Celery workers run tasks that are due; nobody has to play, to
  connect or to leave. Losing a task is never fair, and a task that is run may
  stay at the broker and run again.
- `MachineTurnEnds`: animations run to their end, the worker answers, the clock
  runs out. Nothing is assumed of the player.

### Disagreements found
Each is a run that must end in a violation.

- **lock_house_first**. `wallet/services.py:6-7` promises a deterministic lock order
  and no deadlock. Creating a match against the AI locks the creator's wallet and
  then the house's, whatever their ids; settlement locks by id. If the house's id
  is smaller, a creation and a settlement of the same player wait for each other.
- **payments_payout**. `withdraw` calls the provider inside its transaction: a
  death before the commit leaves a payout nobody was debited for.
- **payments_lost**. `payments/tasks.py:20` calls `verify_pending_deposits` the safety net for
  deposits that wait, and the design (`payments/tasks.py:3`) says that `verify` stands in
  for a lost callback. Nothing starts that task: the settings have no beat schedule, and
  `docker-compose.yml` starts a worker only. A paid deposit whose callback is lost stays
  PENDING. The action `VerifyPick` stays in `Payments`, since the task can be started by hand.
- **lifecycle_present**. `on_disconnect_timeout` is meant for a player who is absent, but
  presence is the last event of the player and not of the connection: a reload
  or a second tab whose old connection is found dead late writes DISCONNECT after
  RECONNECT, and the player is played for, or has the match voided, while connected.
- **songo_starved**. In a famine, `simuler_nourrissage` counts the one or two seeds of
  hole 7 as food, so that this move is legal and may be the only one; the penalty
  then takes them away, and the opponent is still starving and loses his turn.
- **poc_waiting**. The effect that owns the page's socket depends on `t`
  (`useOnlineGame.ts:173`), and `useTranslation` returns a new one at each render
  (`i18n.ts:43`): the page replaces its socket, and the server deletes the room of the
  one that disconnects (`server.ts:305-311`). The host's page goes on waiting.

### Where a property needs its condition
These gaps are why a checked property carries a condition or why its run excludes a case:

- `EveryTurnEnds` is about realtime matches and assumes that no task is lost: one
  task enforces each deadline and nothing sweeps those that passed. In
  correspondence mode the deadline is stored and not enforced (the design forfeits),
  and after an automatic move `_auto_finish` stops at the house's turn, which nobody
  then takes.
- The grace timer plays for an absent player in correspondence mode too, where the
  design excludes automatic moves.
- `worst_move` looks at the stores only: it may pick the move that ends the game in
  defeat when others do not, which its comment excludes.
- The status of a WITHDRAWAL row of the ledger is updated in place, though the ledger
  is documented as immutable; `tx` is a variable for that reason.
- `CaughtUp` compares with what was sent: automatic moves are not sent at all
  (`realtime/consumers.py`), and a state read earlier may be sent later.
- `BreakerHolds` counts: that no request leaves while the breaker is open is false.
- `FiguresTrue` leaves an account out once two pages write it, once a page writes
  empty figures over it because it started without the network, or once a write is
  based on figures of another account (`ghost.upset`). And a page may show figures of another
  account: login is offered before the kept session has resolved (`OnlineSetupModal.tsx:127-130`), and when that
  resolves while the pop-up is open, the figures of the kept account stay until those of
  the chosen one come (`useFirebase.ts:23-28` clears them for nobody only). `late` marks
  both this and the acknowledgement of a write after signing out.
- `ScoredOnce` counts `extra`: the last screen of a finished tournament offers to play again
  (`GameOver.tsx:91,125-129`), which starts its last round over in the same tournament
  (`App.tsx:469-473`, `881-883`) and scores it again, so that the points become more than the rounds.
- `MovesAccounted` counts a queued move as accounted for: the queue is looked at only
  when an animation ends, so that one may wait there; it stops when
  someone has given up; and it is about one table, because with several,
  moves of a room that was left could stay in the queue of a page.
- `HistoryReplays` leaves out a save taken between two frames of an animation
  (`App.tsx:399-411` stores a board with seeds in hand) and one that arrives over a new game.
- `MachineTurnEnds` leaves restored games out: loading starts no clock.
- `FirstRoundsPaid` is about the first round of each table. A later one may be
  unpaid: a payment that Back has left running creates a staked room while its page is
  already playing elsewhere, and when that match is given up, `nextRound`, which looks
  at no status (`server.ts:235-254`), starts the new room's second round, without a payment or a guest.
  Nor does it say that a staked match starts: the
  guest's page does not know its room when it pays (`OnlineSetupModal.tsx:76`), and
  `PagesPlayForNothing` proves what follows: no page is ever at a table that both
  have paid a stake for. The run's peers do pay, and play.
- `ScoresEarned` is about tables without a stake. `confirmPayment` looks at no status
  (`server.ts:149-158`): at a staked table one that comes late (a second one, or
  that of a guest who came back and was told nothing) puts a finished round back into play, and a
  further move there ends it, and counts its points, again.

## 4. What is proved

### EscrowProofs
About `Escrow`, for all sets of players, codes, stakes,
rakes up to 100 percent and any number of matches and workers:

- `InductiveInvariant`: `Spec => []IInv`
- `TypeCorrect`: `Spec => []TypeOK` (no balance is ever negative)
- `EscrowIsBacked`: `Spec => []EscrowBacked`
- `NobodyIsStuck`: `Spec => []NeverStuck`

The argument. `EscrowBacked` alone is not inductive: to know that a settlement
lowers two locked balances by what leaves the staked francs, one must know who
sits at the match. `IInv` adds `RowOK` (a waiting challenge has its creator and
nobody else, a running match two different accounts) and the types. A sum over
matches would need induction over sets; instead a stake of b francs in match m is
the set `{m} \X (1..b)`, the money staked is the cardinality of a union of such
disjoint sets, and `OneRow` says that changing one row changes the cardinality by
the difference of that row's `Share`. `RowStep` turns this into one
lemma for every action: replacing one row keeps the agreement of matches and
wallets when the locked balances move by the difference of the shares. Each
action is then a lemma of its own (`Merge` is two row steps). `Covered` (a stake
in an open match is covered by its owner's locked balance) gives `NeverStuck`.

Assumptions: `AccountsAssumption` (the house is no player, null references are no
accounts) and `AmountsAssumption` (stakes are positive, rakes are percentages,
the start has no negative balance). TLC evaluates both in every run of Escrow.

About `EscrowWager`, under the same assumptions and on the same invariant:
`BooksInOrder`, `ImplementsWager` (the refinement, `Spec => KeepsTheWager`), `OnlyTheInvitedPlay`
and `BalancesAreExplained`.

The argument. To say what a step does to the contract one must know what the
ledger says: `Booked` (the rows of a match that is not over are its stakes, once
each) is inductive together with `IInv`. Each method then makes its match make one move of
the contract (`Stays`, `Offers`, `Engages`, `Takes`, `GivesBack` or `PaysOut`) and leaves the
others alone; a merge moves two. Six lemmas map these moves to `Wager`'s actions.

`OnlyTheInvitedPlay` is an action property; what could break it is a stale list, so its
invariant `Listed` is that a match `auto_pair` has listed is still of the pairing and
type it had then, whatever its status is by now.

`Reconciled` is a sum of rows for each user and pocket. It is rewritten as one
term per match (`Balanced`), so that a step changes one term, or two in a merge, and must
move the wallets by the same amount (`Explains`). The rake is the delicate part: it is
rounded down, taken of REAL stakes only, and the house that receives it may be a player.

### SongoProofs
About `Songo`, for boards of any size: `InductiveInvariant`, `TypeCorrect`,
`NoSeedIsLost`, `NobodyIsEmptied`, `NothingIsGiven`, `TheWinnerHasMore`. `TypeCorrect` and `NothingIsGiven`
(a legal move gives seeds to the opponent's store only when he starves) state
formulas no run repeats.

The argument. The seeds of a board are counted as the pairs of a hole and a number,
so that parts of the board add up (`SeedsSplit`) and one hole more or less is a
difference (`SeedsExcept`). `AllDropped` is the heart: dropping n seeds, wherever
they fall, adds n. It is an induction over the set of seeds dropped, put as a
least counterexample: a least set that fails would be empty, which does not
fail, or fail already without one of its seeds. Every seed falls on the board
(`DestinationType`), a capture moves to a store what it takes (`SeedsEmptied`), and so
does the penalty. `TheWinnerHasMore` needs conservation: more than half of the seeds
in a store are more than all others. Assumption: `BoardAssumption` (a board with
holes and seeds, and twice the threshold exceeds the number of seeds: 80 > 70).

### PageProofs
About `UserData`, for any accounts and numbers of results: `InductiveInvariant`,
`FiguresAreTrue`. What a page knows may be old, so `FiguresTrue` rests on when it may not
be: `Known` (figures that are the player's own and not late are those of the
document, unless a write of them is being acknowledged), `Coming` (a result on its
way is the document's count plus one, as long as no other device, reset or
empty cache has touched the account, which upsets it), and `SignedIn` (a page listens
to its own account only, and a kept session that has yet to resolve is of nobody else than who is in). Assumption, a hypothesis of the theorems:
`NoneIsNull` (null is no account, figure or update).

About `LocalGame`, for games, tournaments and undos of any length: `HistoryAlwaysReplays`,
`RoundsScoredOnce` and `HintAlwaysCurrent`. Their invariant `LocalIInv` says of the page: an
animation started on the board that is shown, by the player whose turn it was (`Moved`); the
points are those of the rounds that are over, counting the one under way once the
result shows (`Scores`); and each whole position of the history comes of the entries
before it, as the board does of all of them (`Story`, with `Chronicle` and `Replays`, which
speak of one index at a time). Undo cuts the history where the player moved, and
what is left is still a `Chronicle`. It says of the tasks that what the machine
and the tutor were asked about is what is on the board until their effect is undone
(`Thought`, `Tutored`), and of the save that the game in it can be gone on with (`SaveOK`). Every
handler ends in `Commit`, so that `Committed` is proved once: effects keep the page.
`Starts`, `Begins` and `Idles` do the same for the handlers that begin a game,
begin a move, or only change flags. Hypothesis: `NoneIsNoStep` (null is no frame of an animation).

About the other parts, each by itself, as an instance in PageParts:

- `BoardsCatchUp` (BoardPage, any number of moves). While the last state sent was not
  older than one sent before, the last state in a consumer's mailbox is the latest sent,
  and with an empty mailbox a page that was greeted shows it; a consumer that has joined the
  group and not greeted yet owes nothing, because `_serialize` reads the match after joining
  (`Abreast`). This needs that what was read to be sent is never ahead of the match (`NotAhead`).
- `CachesAreHonest` (Ranking, any times). A cached answer was read when its query was made or
  later, and counts from the query: an old answer that replaces a newer one is then
  old for the cache as well (`HonestCache`). Hypothesis: `RankTTL` is an integer.
- `SavesAreOffered` (SavedGame, any accounts). The property with the types is inductive.
  Hypothesis: null is no account.
- `BreakerAlwaysHolds` (Gemini, any finite set of calls). While the breaker is open, the requests
  sent since and the calls still asleep are together fewer than the calls: the call that
  opened it was neither, and a sleeper can only be one or the other (`MasterInv`).
- `TableServesOnePlayer` (Engine, any positions, depths and queue). When the loop of the machine
  goes on to its next depth, every request of the tutor that is queued, and what the table holds
  of him, is followed in the queue by one of the machine that empties the table
  (`MachinesAfter`): one effect is active at a time (`OneGoesOn`), and its first request empties.
  The mutant `GoesOnUndone` breaks just this.

### OnlineProofs
About `Online`, for any players, pages and peers, rooms, rounds and any number of events on the
wires: `Invariant`, `EndsAreTold`, `FirstRoundsArePaid`.

The argument. The hard part is what is on its way. `Unstarted` says that before anyone has
paid everything is `Quiet`: no room is played in, no result is being saved, no page has
left the menu, no "next round" is going up and no start is coming down. Hence the server
never begins a round on an old request. `Told` says that what went down
about a room, to a page that still sits there after its deletion, is followed by the announcement of
its end: a page that has yet to learn that it is in a room has yet to
learn that it is gone, in this order. Both are lemmas about one event put on a wire or taken off it
(`AppendWire`, `TailWire`). A step of a client is one of three (`ClientActs`, `ClientHears`,
`ClientDrops`), a handler of the server changes one room (`RoomStep`), seats a player (`SitsStep`) or
deletes a room (`ClosesStep`), and `ServerMoves` says once what each must keep.
`SeatsOK` says what `seat` and `data` have to do with each other. `FirstRoundsArePaid`, for any
number of tables: a room stays paid, and only `nextRound` begins without looking, which
ends the first round. Assumptions: `RoomAssumption`, `PageAssumption`, `SetupAssumption`,
evaluated by TLC in the runs of Online.

### MovesProofs
About `Online` too, on top of OnlineProofs: `MovesAreAccounted`, `PagesPlayForNothing` and `ScoresAreEarned`.

`MovesAreAccounted` has the hypothesis `OneTable`. A round is won by whoever plays on a board
that both pages keep for themselves, so the question is whether the two boards can
drift apart. The invariant, `Tables`, says of a table without a stake:

- `Unjoined`: without a guest nothing has been played, and no client has anything of a match on
  its wires (`Hushed`). `Sitting`: who plays sits at the table. `Coursing`: the server's
  position is that of the moves it has made, and a saved round is over.
- `Order`: what a wire brings down is the start of a match first and its updates after it, and
  a page that has yet to hear a start is at rest.
- `MovesOf`: the account. `Count` says that on each of the places where a move of the other
  can be (Firestore, the wire down, the page's queue, the moves due) there is at
  most one, on the wire up at most one of the page's own, and that they are
  in `Balance`: board + animated + to come = made + sent. At most one of all these moves is under
  way, and whose turn it is says which: a page plays only at the position
  that it shows, and shows it only when it has seen everything. That one move cannot be
  counted twice is what makes the sum inductive; the property by itself is not.
  Two kinds of page are not in balance yet: one whose start is on the wire
  (`Awaits`), and a host that does not know that it is one (`Idle`): the match
  waits for its first move.

Each of the steps (a queued move, a due one, an animation, an update, Firestore's answer) is a
lemma about `Count` alone (second half of OnlineProofs), pages and rooms are compared field by
field (`Only`, `Solely`), and handlers are sorted by what they do to the table. What ends an
account is `nextRound` (the first round is over), a forfeit (the page is `gone`), a lost seat or
a lost connection; nothing starts one but the start of the match, at a table that had no guest.

Tables with a stake are another theorem, of any number of tables. `Dues` says who can pay
for what: a peer's knowledge of a stake is true (`Staked`), and a page never confirms a payment, since the
button that would knows no room (`Unpaying`), so that a seat taken by a page is never paid for when there is
a stake (`Owed`, `Seated`). So what a page plays is a table without a stake, and `MovesAccounted` has
nothing to say of the others. Assumptions: those of OnlineProofs.

`ScoresAreEarned` is of any number of tables and rounds, too. `Tally` says that the rounds a room has ended
are rounds it has had, that a room that plays or waits has not ended the one it is in, and that the
scores are those of the ended rounds. A second end of a round would need the room to play
in it again; only `confirmPayment` could bring that about, and by `Dues` it is sent for tables with a
stake only (`PaysStake`).

### PaymentsProofs
About `Payments`, for any number of intents, requests, verifiers and deaths:
`InductiveInvariant`, `TypeCorrect`, `KeysAreUnique`, `PayoutsAreBacked`, `EndsAreDecided`,
`BalancesCountOnce`.

The argument. `IInv` adds to types and keys: `Reserved` (a withdrawal and its
reservation have the same status), `AskedOnce` (the intent of a request that is asking
the provider is its own, pending, and has no reference, so nobody else can settle
it), `PickedPaid` (what a verifier has read cannot be unpaid any more) and, as
long as nobody died, `AgreedAlive` (the provider's verdict and the intent's end agree).
For `BalancesCountOnce`, `Booked` says that a balance is a sum of one term per intent,
that the bonus is that of one settled deposit, and that a deposit has no reservation
to reverse. Assumption: `PaymentsAssumption`, which TLC evaluates in the runs of Payments.

### PlatformProofs
About `Bonus`: `ConversionsCapped` and `ClosedForLife`, under the hypothesis `Limits` (finitely many
players, the house is none of them, positive stakes and tranches), which the
constants of the run satisfy. What a conversion read is still the counter when it
commits, because it holds the lock (`Alone`); what is locked in a pocket is the sum of
the stakes of the running matches (`Locked`), so that an emptied pocket has none.

About `LockOrder`, for any number of transactions, players and matches:
`TransactionsNeverInterlock`. `Before` puts matches, in the order of their ids, before wallets, in the
order of theirs. `Ordered` is inductive: what a transaction has still to take ascends, and
all it holds is before it. In a circle, the transaction that waits for
the greatest lock waits for a holder that itself waits for a greater one; that every
finite set of transactions has such a greatest one is an induction over sets
(`SubsetInduction` of TotalsProofs). The hypothesis `Ranked` (the wallets are numbered, and the house's number is
the greatest or no match against the AI is created) is what the code does not ensure: the run
lock_house_first is the circle without it.

About `Lifecycle`, for any number of moves, connections, disconnections and
faults and any set of matches: `InductiveInvariant`, `TypeCorrect`, `TimerIsArmed`,
`TurnsGetTheirTime`, `GracesAreWhole`, `EndedStays`, `NobodyPresentIsForced`.
`IInv` is the types, `Unfinished` (an active match has a move left, so
that the turn of a task stays in range), `TimerArmed`, and `OneBrowser`: if
connections do not overlap, a player with a live one has a last event that is not
a DISCONNECT. The lemma `Causes` lists, for each cause the journal can show, what held
when the row changed; the action properties follow from it. `NobodyPresentIsForced`
assumes `~Overlap`: the run lifecycle_present shows that it needs to.

### TotalsProofs
`SumOf` is a fold whose order is a CHOOSE. The lemmas show that the order does not
matter: any function that adds one element at a time agrees with the fold, by
induction over the subsets of a finite set, put as a least counterexample
(`SubsetInduction`). From this follow the facts the other proofs cite: one term apart
(`SumSplit`), one term changed (`SumChanged`), only some terms (`SumWhere`), no negative terms (`SumNatural`).

### Model-checked only
The accounts of the prototype's tree search (`TreeAccounts`: Mcts is recursive).
Liveness (`EveryTurnEnds`, `MachineTurnEnds`) is beyond the prover; so is
what recursive definitions compute (`SearchIsMinimax`, `EnginesAgree`).

## 5. What is not modelled

- compliance: limits of a day over a dated ledger. The ledger of Escrow has sums and no
  dates. Two facts read in the code and not checked: the sums are made without a
  lock, and a limit that was raised never takes effect, since the lower row stays
  active (`compliance/services.py:130-148`). A refusal is a call that does nothing.
- accounts and e-mail codes: they share no state with matches or money.
- the bonus usage policy (hours, quota, cooldown): it refuses by the time of day.
- the Python AI: numerical; what the platform needs of it is a legal move. The
  prototype's search, which it ports, is modelled; the network's learning is not.
- clocks (a deadline that passes is an event), the wording of errors, pages,
  locales, sounds, logs, the chat, Elo arithmetic, prompts.
- backoffice settings are constants; core, notifications, disputes, ranking, frontend
  keep no state of their own or are empty.

Escrow lets any result come at any time and Lifecycle lets a game end at any
move. Nothing in the rules of Songo bounds the length of a game and no property
says that one ends.

## 6. Plan

Done: WalletOps, Escrow, Wager, EscrowProofs; Payments; LockOrder; Lifecycle; Songo, SongoProofs; Bonus; BoardPage; the prototype's rules, search,
tree search and worker, server, online page and wizard, local game, accounts and
saves, ranking, commentator; PageProofs (all parts of a page but its tree search), OnlineProofs (payment,
the end of a room), MovesProofs (the moves and scores of a table), PaymentsProofs, PlatformProofs (bonus,
locks, turns), TotalsProofs; EscrowProofs has the
refinement, private challenges and reconciliation too.

Left, in order of importance:

1. Limits: responsible-gambling limits and self-exclusion against concurrent bets,
   merges and pending deposits, with a ledger of two days.
2. EmailCode: codes, attempts, activation and the wallet after it.
3. AutoPair: the loop itself, and that a run leaves no compatible pair.
