------------------------------- MODULE Escrow --------------------------------
(***************************************************************************)
(* The life of a wager: matchmaking (create, join, auto-pair, cancel),     *)
(* resolution (win, draw, forfeit, void) and the escrow movements they     *)
(* make in the wallets.                                                    *)
(*                                                                         *)
(* Every service method is one database transaction that first locks the   *)
(* match row(s) it changes and re-reads them, then locks the wallets; it   *)
(* is one action here.  A method that raises rolls everything back and one *)
(* that returns early changes nothing: neither is a step.  The only thing  *)
(* a transaction does not read under a lock is the list auto_pair starts   *)
(* from, which is state of its own (scan) and may be stale when used.      *)
(*                                                                         *)
(* Abstracted: the game itself (a match may end with any result while it   *)
(* is ACTIVE), compliance and bonus-usage refusals (a refused call is a    *)
(* step that does not happen), and the game and timing mode of a match,    *)
(* which are one value, its format.                                        *)
(***************************************************************************)
EXTENDS Integers, FiniteSets, Totals

CONSTANTS
  Players,        \* human users
  House,          \* the system account that backs the AI
  NoOne,          \* a null user reference
  NoCode,         \* a null access code
  Codes,          \* the access codes _new_code may draw
  MaxMatches,     \* bound: how many matches are ever created
  Bets,           \* stakes within [bet_min, bet_max]
  Formats,        \* (game, timing mode) pairs
  Kinds,          \* the stake kinds in play
  Modes,          \* the ways of finding an opponent in play
  Transfers,      \* the amounts of deposits and withdrawals
  RakePercents,   \* the effective rake rates, in percent of the pot
  Workers,        \* processes that run auto_pair
  StartBalance,   \* balance of each account and pocket at the start
  MaxFunding      \* bound: total funding of one pocket of one account

Accounts == Players \cup {House}

Matches == 1..MaxMatches

INSTANCE WalletOps

ASSUME AccountsAssumption ==
  /\ House \notin Players
  /\ NoOne \notin Accounts
  /\ NoCode \notin Codes

ASSUME AmountsAssumption ==
  /\ MaxMatches \in Nat
  /\ Formats # {}
  /\ Bets \subseteq Nat \ {0}
  /\ RakePercents \subseteq 0..100
  /\ Kinds \subseteq {"REAL", "BONUS"}
  /\ Modes \subseteq {"AUTO", "INVITE_CODE", "AI", "TRAINING"}
  /\ Transfers \subseteq Nat
  /\ StartBalance \in [Accounts -> [{"REAL", "BONUS"} -> Nat]]

VARIABLES
  match,     \* the match table: match id -> row
  wallet,    \* the wallet table
  posted,    \* the ledger rows that carry a match id, added up per match,
             \* type of row and user
  external,  \* the ledger rows that carry none (deposits, withdrawals),
             \* added up per user and pocket
  scan       \* auto_pair's list of candidates, per worker

vars == <<match, wallet, posted, external, scan>>

------------------------------------------------------------------------------
\* The rows.

Status == {"NONE", "PENDING", "ACTIVE", "COMPLETED", "CANCELLED"}

Row == [status   : Status,
        opponent : {"HUMAN", "AI"},
        pairing  : {"AUTO", "INVITE_CODE"},
        format   : Formats,
        kind     : Pockets,
        training : BOOLEAN,
        bet      : Nat,
        p1       : Accounts \cup {NoOne},
        p2       : Accounts \cup {NoOne},
        winner   : Accounts \cup {NoOne},
        reason   : {"", "WIN", "DRAW", "FORFEIT", "VOID"},
        code     : Codes \cup {NoCode},
        expired  : BOOLEAN]

\* An id whose match has not been created.
Absent == [status |-> "NONE", opponent |-> "HUMAN", pairing |-> "AUTO",
           format |-> CHOOSE f \in Formats : TRUE, kind |-> "REAL",
           training |-> FALSE, bet |-> 0, p1 |-> NoOne, p2 |-> NoOne,
           winner |-> NoOne, reason |-> "", code |-> NoCode,
           expired |-> FALSE]

\* The types of the ledger rows that carry a match id.
MatchTx == {"BET_LOCK", "BET_WIN", "REFUND", "COMMISSION"}

\* One more ledger row of type t for user u.
Post(book, t, u, x) == [book EXCEPT ![t][u] = @ + x]

Init ==
  /\ match = [m \in Matches |-> Absent]
  /\ wallet = [u \in Accounts |-> [q \in Pockets |->
                 [avail |-> StartBalance[u][q], locked |-> 0]]]
  /\ posted = [m \in Matches |-> [t \in MatchTx |-> [u \in Accounts |-> 0]]]
  /\ external = StartBalance
  /\ scan = [w \in Workers |-> {}]

------------------------------------------------------------------------------
\* Money that enters and leaves a wallet outside any match.

Fund(u, q, x) ==
  /\ CanCredit(wallet, u, q, x)
  /\ external[u][q] + x <= MaxFunding
  /\ wallet' = Credit(wallet, u, q, x)
  /\ external' = [external EXCEPT ![u][q] = @ + x]
  /\ UNCHANGED <<match, posted, scan>>

Withdraw(u, x) ==
  /\ CanReserve(wallet, u, x)
  /\ wallet' = Reserve(wallet, u, x)
  /\ external' = [external EXCEPT ![u]["REAL"] = @ - x]
  /\ UNCHANGED <<match, posted, scan>>

------------------------------------------------------------------------------
\* Creating a match.  Ids are handed out in order, so that the order of ids is
\* the order of created_at.

NextId(m) ==
  /\ match[m].status = "NONE"
  /\ \A k \in 1..(m - 1) : match[k].status # "NONE"

\* _new_code draws until no row holds the code.
FreshCode(c) == \A m \in Matches : match[m].code # c

\* _start: the second player sits down and the match is ACTIVE.
Started(row, second) == [row EXCEPT !.status = "ACTIVE", !.p2 = second]

NewRow(c, opp, pair, f, kind, b, code) ==
  [Absent EXCEPT !.status = "PENDING", !.opponent = opp, !.pairing = pair,
                 !.format = f, !.kind = kind, !.bet = b, !.p1 = c,
                 !.code = code]

\* create_challenge against a human: the creator's stake is locked and the
\* match waits, in the lobby (AUTO) or for the holder of a code.
CreateChallenge(m, c, f, kind, b, pair, code) ==
  /\ NextId(m)
  /\ IF pair = "INVITE_CODE" THEN code \in Codes /\ FreshCode(code)
                             ELSE code = NoCode
  /\ CanLock(wallet, c, kind, b)
  /\ match' = [match EXCEPT ![m] = NewRow(c, "HUMAN", pair, f, kind, b, code)]
  /\ wallet' = Lock(wallet, c, kind, b)
  /\ posted' = [posted EXCEPT ![m] = Post(@, "BET_LOCK", c, -b)]
  /\ UNCHANGED <<external, scan>>

\* create_challenge against the AI: the house locks an equal stake and the
\* match starts at once; if the house cannot, nothing is created.
CreateVsHouse(m, c, f, kind, b) ==
  LET held == Lock(wallet, c, kind, b) IN
  /\ NextId(m)
  /\ CanLock(wallet, c, kind, b)
  /\ CanLock(held, House, kind, b)
  /\ match' = [match EXCEPT
       ![m] = Started(NewRow(c, "AI", "AUTO", f, kind, b, NoCode), House)]
  /\ wallet' = Lock(held, House, kind, b)
  /\ posted' = [posted EXCEPT
       ![m] = Post(Post(@, "BET_LOCK", c, -b), "BET_LOCK", House, -b)]
  /\ UNCHANGED <<external, scan>>

\* create_training_match: no stake and no movement of money.
CreateTraining(m, c, f) ==
  /\ NextId(m)
  /\ match' = [match EXCEPT
       ![m] = [Started(NewRow(c, "AI", "AUTO", f, "REAL", 0, NoCode), House)
                 EXCEPT !.training = TRUE]]
  /\ UNCHANGED <<wallet, posted, external, scan>>

------------------------------------------------------------------------------
\* Joining.

\* Mutant of Joinable: any pairing mode will do.
JoinableAnyMode(m, j, pair) ==
  match[m].status = "PENDING" /\ match[m].opponent = "HUMAN" /\ j # match[m].p1

\* Mutant of Joinable: the creator may join his own challenge.
JoinableBySelf(m, j, pair) ==
  match[m].status = "PENDING" /\ match[m].pairing = pair /\ match[m].opponent = "HUMAN"

\* _check_joinable
Joinable(m, j, pair) ==
  /\ match[m].status = "PENDING"
  /\ match[m].pairing = pair
  /\ match[m].opponent = "HUMAN"
  /\ j # match[m].p1

\* What both joins do once the match is known to be joinable.
Join(m, j, row) ==
  /\ CanLock(wallet, j, row.kind, row.bet)
  /\ match' = [match EXCEPT ![m] = Started(row, j)]
  /\ wallet' = Lock(wallet, j, row.kind, row.bet)
  /\ posted' = [posted EXCEPT ![m] = Post(@, "BET_LOCK", j, -row.bet)]
  /\ UNCHANGED <<external, scan>>

JoinFromLobby(m, j) ==
  /\ Joinable(m, j, "AUTO")
  /\ Join(m, j, match[m])

\* join_by_code finds the match by its current code; the code is used once.
JoinByCode(m, j, c) ==
  /\ c # NoCode
  /\ match[m].code = c
  /\ ~match[m].expired
  /\ Joinable(m, j, "INVITE_CODE")
  /\ Join(m, j, [match[m] EXCEPT !.code = NoCode])

\* regenerate_code: a new code and a new time to live.
RegenerateCode(m, c) ==
  /\ match[m].status = "PENDING"
  /\ match[m].pairing = "INVITE_CODE"
  /\ FreshCode(c)
  /\ match' = [match EXCEPT ![m].code = c, ![m].expired = FALSE]
  /\ UNCHANGED <<wallet, posted, external, scan>>

\* The clock passes access_code_expires_at.
ExpireCode(m) ==
  /\ match[m].code # NoCode
  /\ ~match[m].expired
  /\ match' = [match EXCEPT ![m].expired = TRUE]
  /\ UNCHANGED <<wallet, posted, external, scan>>

\* cancel_challenge, by the creator.
Cancel(m) ==
  LET row == match[m] IN
  /\ row.status = "PENDING"
  /\ CanRefund(wallet, row.p1, row.kind, row.bet)
  /\ match' = [match EXCEPT ![m].status = "CANCELLED"]
  /\ wallet' = Refund(wallet, row.p1, row.kind, row.bet)
  /\ posted' = [posted EXCEPT ![m] = Post(@, "REFUND", row.p1, row.bet)]
  /\ UNCHANGED <<external, scan>>

------------------------------------------------------------------------------
\* Automatic pairing.  auto_pair reads the waiting challenges without a lock
\* (AutoPairScan) and then merges compatible pairs, each merge in its own
\* transaction, while players and other workers go on.

AutoPairScan(w) ==
  /\ scan' = [scan EXCEPT ![w] =
       {m \in Matches : /\ match[m].status = "PENDING"
                        /\ match[m].pairing = "AUTO"
                        /\ match[m].opponent = "HUMAN"}]
  /\ UNCHANGED <<match, wallet, posted, external>>

\* Same group and different creators, as the list says; none of these columns
\* ever changes.
Compatible(a, b) ==
  /\ match[a].format = match[b].format
  /\ match[a].kind = match[b].kind
  /\ match[a].bet = match[b].bet
  /\ match[a].p1 # match[b].p1

\* Mutant of Mergeable: trusts the statuses of the list.
MergeableAsListed(a, b) == match[a].p1 # match[b].p1

\* The guard _merge re-evaluates once it holds both rows.
Mergeable(a, b) ==
  /\ match[a].status = "PENDING"
  /\ match[b].status = "PENDING"
  /\ match[a].p1 # match[b].p1

\* _merge: the younger challenge b is cancelled, its creator's stake moves
\* into a and a starts.
Merge(w, a, b) ==
  LET second == match[b].p1
      kind   == match[a].kind
      bet    == match[a].bet
      freed  == Refund(wallet, second, kind, bet)
  IN
  /\ a \in scan[w] /\ b \in scan[w] /\ a < b
  /\ Compatible(a, b)
  /\ Mergeable(a, b)
  /\ CanRefund(wallet, second, kind, bet)
  /\ CanLock(freed, second, kind, bet)
  /\ match' = [match EXCEPT ![a] = Started(@, second),
                            ![b].status = "CANCELLED"]
  /\ wallet' = Lock(freed, second, kind, bet)
  /\ posted' = [posted EXCEPT ![a] = Post(@, "BET_LOCK", second, -bet),
                              ![b] = Post(@, "REFUND", second, bet)]
  /\ scan' = [scan EXCEPT ![w] = @ \ {a, b}]
  /\ UNCHANGED external

------------------------------------------------------------------------------
\* Resolution.  Each method locks and re-reads the match, so that a second
\* call finds it closed and returns.

\* Mutant of Running: a second resolution is not stopped by the status.
RunningOnce(m) == match[m].status \in {"ACTIVE", "COMPLETED"}

\* resolve and forfeit_resolve go on only if the match is still running.
Running(m) == match[m].status = "ACTIVE"

\* void goes on only if it is still open.
Voidable(m) == match[m].status \in {"ACTIVE", "PENDING"}

Closed(row, status, reason, winner) ==
  [row EXCEPT !.status = status, !.reason = reason, !.winner = winner]

\* The movements of settle_escrow for match m, and their ledger rows.
PayWinner(m, winner, loser, percent) ==
  LET row  == match[m]
      rake == Rake(2 * row.bet, row.kind, percent)
      won  == Post(posted[m], "BET_WIN", winner, 2 * row.bet - rake)
  IN
  /\ CanSettle(wallet, winner, loser, row.kind, row.bet)
  /\ wallet' = Settle(wallet, winner, loser, House, row.kind, row.bet, rake)
  /\ posted' = [posted EXCEPT ![m] =
       IF rake > 0 THEN Post(won, "COMMISSION", House, rake) ELSE won]

\* refund_escrow for both players of match m.
RefundBoth(m) ==
  LET row  == match[m]
      once == Refund(wallet, row.p1, row.kind, row.bet)
  IN
  /\ CanRefund(wallet, row.p1, row.kind, row.bet)
  /\ CanRefund(once, row.p2, row.kind, row.bet)
  /\ wallet' = Refund(once, row.p2, row.kind, row.bet)
  /\ posted' = [posted EXCEPT ![m] =
       Post(Post(@, "REFUND", row.p1, row.bet), "REFUND", row.p2, row.bet)]

Opponent(m, u) == IF u = match[m].p1 THEN match[m].p2 ELSE match[m].p1

\* resolve with a winner, and forfeit (reason = "FORFEIT").
Win(m, winner, reason, percent) ==
  /\ Running(m)
  /\ winner \in {match[m].p1, match[m].p2}
  /\ match' = [match EXCEPT ![m] = Closed(@, "COMPLETED", reason, winner)]
  /\ IF match[m].training
       THEN UNCHANGED <<wallet, posted>>
       ELSE PayWinner(m, winner, Opponent(m, winner), percent)
  /\ UNCHANGED <<external, scan>>

\* forfeit: the caller is a participant and loses.
Forfeit(m, quitter, percent) ==
  /\ quitter \in {match[m].p1, match[m].p2} \cap Players
  /\ Win(m, Opponent(m, quitter), "FORFEIT", percent)

Draw(m) ==
  /\ Running(m)
  /\ match' = [match EXCEPT ![m] = Closed(@, "COMPLETED", "DRAW", NoOne)]
  /\ IF match[m].training THEN UNCHANGED <<wallet, posted>> ELSE RefundBoth(m)
  /\ UNCHANGED <<external, scan>>

\* void: by an operator, or by the disconnect policy VOID_REFUND.
Void(m) ==
  LET row == match[m] IN
  /\ Voidable(m)
  /\ match' = [match EXCEPT ![m] = Closed(@, "CANCELLED", "VOID", @.winner)]
  /\ CASE row.training -> UNCHANGED <<wallet, posted>>
       [] ~row.training /\ row.p2 # NoOne -> RefundBoth(m)
       [] ~row.training /\ row.p2 = NoOne ->
            /\ CanRefund(wallet, row.p1, row.kind, row.bet)
            /\ wallet' = Refund(wallet, row.p1, row.kind, row.bet)
            /\ posted' = [posted EXCEPT ![m] = Post(@, "REFUND", row.p1, row.bet)]
  /\ UNCHANGED <<external, scan>>

------------------------------------------------------------------------------
Lobby ==
  \/ \E m \in Matches, c \in Players, f \in Formats, k \in Kinds, b \in Bets,
        p \in Modes \cap {"AUTO", "INVITE_CODE"}, code \in Codes \cup {NoCode} :
       CreateChallenge(m, c, f, k, b, p, code)
  \/ \E m \in Matches, c \in Players, f \in Formats, k \in Kinds, b \in Bets :
       "AI" \in Modes /\ CreateVsHouse(m, c, f, k, b)
  \/ \E m \in Matches, c \in Players, f \in Formats :
       "TRAINING" \in Modes /\ CreateTraining(m, c, f)
  \/ \E m \in Matches, j \in Players : JoinFromLobby(m, j)
  \/ \E m \in Matches, j \in Players, c \in Codes : JoinByCode(m, j, c)
  \/ \E m \in Matches, c \in Codes : RegenerateCode(m, c)
  \/ \E m \in Matches : ExpireCode(m)
  \/ \E m \in Matches : Cancel(m)

Pairing ==
  \/ \E w \in Workers : AutoPairScan(w)
  \/ \E w \in Workers, a, b \in Matches : Merge(w, a, b)

Resolution ==
  \/ \E m \in Matches, u \in Accounts, r \in RakePercents : Win(m, u, "WIN", r)
  \/ \E m \in Matches, u \in Players, r \in RakePercents : Forfeit(m, u, r)
  \/ \E m \in Matches : Draw(m)
  \/ \E m \in Matches : Void(m)

Cashier ==
  \/ \E u \in Players, q \in Kinds, x \in Transfers : Fund(u, q, x)
  \/ \E u \in Players, x \in Transfers : Withdraw(u, x)

Next == Lobby \/ Pairing \/ Resolution \/ Cashier

Spec == Init /\ [][Next]_vars

------------------------------------------------------------------------------
\* Properties.

\* Every variable stays in its type; in particular no balance, available or
\* locked, ever becomes negative.
TypeOK ==
  /\ match \in [Matches -> Row]
  /\ wallet \in Wallets
  /\ posted \in [Matches -> [MatchTx -> [Accounts -> Int]]]
  /\ external \in [Accounts -> [Pockets -> Int]]
  /\ scan \in [Workers -> SUBSET Matches]

\* The accounts whose stake in a match is in escrow.
Holders(row) ==
  IF row.training \/ row.status \notin {"PENDING", "ACTIVE"}
  THEN {} ELSE {row.p1, row.p2} \ {NoOne}

\* The open matches of a table in which u has a stake in pocket q.
Staked(table, u, q) ==
  {m \in Matches : u \in Holders(table[m]) /\ table[m].kind = q}

\* The francs u has staked in pocket q, one element each.
Francs(table, u, q) ==
  UNION {{m} \X (1..table[m].bet) : m \in Staked(table, u, q)}

\* The locked balance of a pocket is exactly what its owner has staked in the
\* open matches of that kind: no stake is lost, counted twice or left locked
\* after its match has closed, whichever way joins, merges, cancellations,
\* resolutions and voids interleave (lock_funds, refund_escrow, settle_escrow).
EscrowBacked ==
  \A u \in Accounts, q \in Pockets :
    wallet[u][q].locked = Cardinality(Francs(match, u, q))

\* Whatever may still happen to an open match, its money can move: a waiting
\* challenge can be refunded, and a running match has two different players
\* and can be paid to either or refunded to both.  _add never raises there, so
\* no match is stuck with its stakes (settle_escrow, refund_escrow).
NeverStuck ==
  \A m \in Matches :
    LET row == match[m] IN
    ~row.training =>
      /\ row.status = "PENDING" => CanRefund(wallet, row.p1, row.kind, row.bet)
      /\ row.status = "ACTIVE" =>
           /\ row.p1 # row.p2
           /\ CanSettle(wallet, row.p1, row.p2, row.kind, row.bet)
           /\ CanSettle(wallet, row.p2, row.p1, row.kind, row.bet)

\* The rows of match m that user u has, added up.
Net(m, u) == posted[m]["BET_LOCK"][u] + posted[m]["BET_WIN"][u]
             + posted[m]["REFUND"][u] + posted[m]["COMMISSION"][u]

\* The available balance of every pocket is the sum of its ledger rows, the
\* check of reconcile_user_real, here for both pockets: a balance never moves
\* without the row that explains it.
Reconciled ==
  \A u \in Accounts, q \in Pockets :
    wallet[u][q].avail = external[u][q]
      + SumOf([m \in Matches |-> Net(m, u)], {m \in Matches : match[m].kind = q})

\* A private challenge starts only for someone who presents its current,
\* unexpired code, which is spent by it; a stale auto_pair list or the lobby
\* never opens it (join_by_code, join_from_lobby, _merge).
InvitedOnly ==
  [][\A m \in Matches :
       /\ match[m].pairing = "INVITE_CODE"
       /\ match[m].status # "ACTIVE"
       /\ match'[m].status = "ACTIVE"
       => /\ match[m].code # NoCode /\ ~match[m].expired
          /\ match'[m].code = NoCode]_vars
==============================================================================
