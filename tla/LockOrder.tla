------------------------------ MODULE LockOrder ------------------------------
(***************************************************************************)
(* The row locks the transactions of matchmaking, resolution and payments  *)
(* take, in the order they take them.  A transaction takes its locks one   *)
(* at a time, waits for the holder of the next one, and releases all of    *)
(* them when it commits (select_for_update).                               *)
(*                                                                         *)
(* A match or an intent is locked before any wallet.  A method that locks  *)
(* several wallets at once takes them by wallet id (_lock_wallets), and    *)
(* wallet ids are random uuids: Rank is their order.                       *)
(***************************************************************************)
EXTENDS Integers, FiniteSets, Sequences, Owners

CONSTANTS
  Procs,       \* concurrent transactions
  Matches,     \* match ids: numbers, in the order of their uuids
  Rank,        \* number of each account's wallet in the order of wallet ids: no two
               \* accounts have the same
  Operations   \* the kinds of transaction that run

VARIABLES
  held,    \* the locks each transaction holds
  wanted   \* the locks it has still to take, in order

lockVars == <<held, wanted>>

MatchLock(m) == <<"match", m>>
WalletLock(u) == <<"wallet", u>>

\* Mutant of InOrder: ordered by descending wallet id.
InReverse(S) ==
  {s \in [1..Cardinality(S) -> {WalletLock(u) : u \in S}] :
     \A i, j \in DOMAIN s : i < j => Rank[s[i][2]] > Rank[s[j][2]]}

\* _lock_wallets: select_for_update over several users, ordered by wallet id.  Wallets
\* have different ids, so there is one such sequence.
InOrder(S) ==
  {s \in [1..Cardinality(S) -> {WalletLock(u) : u \in S}] :
     \A i, j \in DOMAIN s : i < j => Rank[s[i][2]] < Rank[s[j][2]]}

\* The locks of each method.

\* create_challenge against the AI: the creator's wallet, then the house's.
CreateVsHouse(u) == <<WalletLock(u), WalletLock(House)>>

\* create_challenge, credit, reserve_for_payout: one wallet.
Single(u) == <<WalletLock(u)>>

\* join_from_lobby, join_by_code, cancel_challenge: the match, one wallet.
JoinOrCancel(m, u) == <<MatchLock(m), WalletLock(u)>>

\* _merge: both matches by id, then the wallet of the younger one's creator,
\* refunded and locked again.
Merge(m, n, u) == <<MatchLock(m), MatchLock(n), WalletLock(u)>>

\* The match, then the wallets of S: settle_escrow under resolve or forfeit_resolve
\* (winner, loser and house), refund_escrow under _draw or void (both players).
MatchThen(m, S) == {<<MatchLock(m)>> \o s : s \in InOrder(S)}

\* Two accounts that play against each other.
Opponents == {x \in Users \X Accounts : x[1] # x[2]}

LockSequences(op) ==
  CASE op = "vs_house" -> {CreateVsHouse(u) : u \in Users}
    [] op = "single"   -> {Single(u) : u \in Users}
    [] op = "join"     -> {JoinOrCancel(m, u) : m \in Matches, u \in Users}
    [] op = "merge"    -> {Merge(mn[1], mn[2], u) :
                             mn \in {x \in Matches \X Matches : x[1] < x[2]},
                             u \in Users}
    [] op = "settle"   -> UNION {MatchThen(m, {x[1], x[2], House}) :
                                   m \in Matches, x \in Opponents}
    [] op = "refund"   -> UNION {MatchThen(m, {x[1], x[2]}) : m \in Matches, x \in Opponents}

LocksInit ==
  /\ held = [p \in Procs |-> {}]
  /\ wanted = [p \in Procs |-> <<>>]

Idle(p) == held[p] = {} /\ wanted[p] = <<>>

Begin(p) ==
  /\ Idle(p)
  /\ \E op \in Operations : \E locks \in LockSequences(op) :
       wanted' = [wanted EXCEPT ![p] = locks]
  /\ UNCHANGED held

\* The next lock is free, or the transaction's own.
Acquire(p) ==
  /\ wanted[p] # <<>>
  /\ \A q \in Procs \ {p} : Head(wanted[p]) \notin held[q]
  /\ held' = [held EXCEPT ![p] = @ \cup {Head(wanted[p])}]
  /\ wanted' = [wanted EXCEPT ![p] = Tail(@)]

CommitTx(p) ==
  /\ wanted[p] = <<>> /\ held[p] # {}
  /\ held' = [held EXCEPT ![p] = {}]
  /\ UNCHANGED wanted

LocksNext == \E p \in Procs : Begin(p) \/ Acquire(p) \/ CommitTx(p)

LocksSpec == LocksInit /\ [][LocksNext]_lockVars

------------------------------------------------------------------------------
\* Transaction p waits for a lock that q holds.
WaitsFor(p, q) == wanted[p] # <<>> /\ Head(wanted[p]) \in held[q]

\* No group of transactions waits for itself: the service orders its locks so
\* that none are ever deadlocked ("pas d'interblocage").
NoInterlock ==
  \A S \in (SUBSET Procs) \ {{}} :
    \E p \in S : \A q \in S \ {p} : ~WaitsFor(p, q)
==============================================================================
