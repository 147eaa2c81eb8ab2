-------------------------------- MODULE Bonus ---------------------------------
(***************************************************************************)
(* Virtual money: the welcome bonus, the matches it is staked in and its   *)
(* conversion to real money (bonus/services.py, convert_bonus of           *)
(* wallet/services.py).  A conversion locks the counter of all conversions *)
(* first and the wallet second; other transactions lock only the wallet.   *)
(*                                                                         *)
(* Matches are against the house: to the pocket of a player, another       *)
(* opponent is the same.  A refund stands for the end of a match that is   *)
(* cancelled, void or drawn.                                               *)
(***************************************************************************)
EXTENDS Integers, Totals, Owners

CONSTANTS
  Welcome,     \* The welcome bonus.
  Stakes,      \* Of matches for virtual money.
  HouseFunds,  \* The virtual money of the house.
  Threshold,   \* bonus_conversion_threshold: the virtual money of a tranche,
  PerTranche,  \* bonus_conversion_real_per_tranche: and what it converts to.
  Cap          \* bonus_global_conversion_cap.

INSTANCE WalletOps

VARIABLES
  wallet,
  granted,    \* The users with a welcome BonusGrant.
  closed,     \* The users with bonus_pocket_closed.
  open,       \* The running matches.
  total,      \* total_converted_real.
  converting  \* The conversions that hold the counter, with what they read.

moneyVars == <<wallet, granted, closed, open, total, converting>>

MoneyInit ==
  /\ wallet = [u \in Accounts |-> [q \in Pockets |->
       [avail |-> IF u = House /\ q = "BONUS" THEN HouseFunds ELSE 0, locked |-> 0]]]
  /\ granted = {} /\ closed = {} /\ open = {} /\ total = 0 /\ converting = {}

------------------------------------------------------------------------------
\* maybe_grant_welcome, at the first settled deposit.
Grant(u) ==
  /\ u \notin granted /\ u \notin closed
  /\ granted' = granted \cup {u}
  /\ wallet' = Credit(wallet, u, "BONUS", Welcome)
  /\ UNCHANGED <<closed, open, total, converting>>

Match(u, s) == [player |-> u, stake |-> s]

\* create_challenge for virtual money.
Bet(u, s) ==
  /\ Match(u, s) \notin open
  /\ CanLock(wallet, u, "BONUS", s) /\ CanLock(wallet, House, "BONUS", s)
  /\ wallet' = Lock(Lock(wallet, u, "BONUS", s), House, "BONUS", s)
  /\ open' = open \cup {Match(u, s)}
  /\ UNCHANGED <<granted, closed, total, converting>>

\* settle_escrow: the pot, without a rake.
WonBy(m, winner, loser) == Settle(wallet, winner, loser, House, "BONUS", m.stake, 0)

\* refund_escrow.
Refunded(m) == Refund(Refund(wallet, m.player, "BONUS", m.stake), House, "BONUS", m.stake)

EndMatch(m) ==
  /\ m \in open
  /\ wallet' \in {WonBy(m, m.player, House), WonBy(m, House, m.player), Refunded(m)}
  /\ open' = open \ {m}
  /\ UNCHANGED <<granted, closed, total, converting>>

------------------------------------------------------------------------------
\* convert_bonus_to_real.

\* Mutant of Free: the counter is read without its lock.
FreeUnlocked == TRUE

\* The lock of the counter is free.
Free == converting = {}

\* The counter is locked and read.
BeginConversion(u) ==
  /\ Free /\ \A c \in converting : c.user # u
  /\ converting' = converting \cup {[user |-> u, read |-> total]}
  /\ UNCHANGED <<wallet, granted, closed, open, total>>

Tranches(u) == wallet[u]["BONUS"].avail \div Threshold

\* Under the cap; a cap of 0 is none.
Allowed(c) ==
  /\ Tranches(c.user) >= 1
  /\ Cap # 0 => c.read + Tranches(c.user) * PerTranche <= Cap

\* WalletService.convert_bonus.
Converted(u) ==
  [wallet EXCEPT ![u]["BONUS"].avail = @ - Tranches(u) * Threshold,
                 ![u]["REAL"].avail  = @ + Tranches(u) * PerTranche]

\* Mutant of Emptied: only what is available counts.
EmptiedAvailable(w, u) == w[u]["BONUS"].avail = 0

\* The pocket is closed for life when nothing is left in it, or staked from it.
Emptied(w, u) == w[u]["BONUS"] = [avail |-> 0, locked |-> 0]

\* The wallet is locked, and the transaction ends: with the conversion,
Convert(c) ==
  /\ c \in converting /\ Allowed(c)
  /\ wallet' = Converted(c.user)
  /\ total' = c.read + Tranches(c.user) * PerTranche
  /\ closed' = closed \cup {u \in {c.user} : Emptied(wallet', u)}
  /\ converting' = converting \ {c}
  /\ UNCHANGED <<granted, open>>

\* or without it.
Refuse(c) ==
  /\ c \in converting /\ ~Allowed(c)
  /\ converting' = converting \ {c}
  /\ UNCHANGED <<wallet, granted, closed, open, total>>

------------------------------------------------------------------------------
MoneyNext ==
  \/ \E u \in Users : Grant(u) \/ BeginConversion(u)
  \/ \E u \in Users, s \in Stakes : Bet(u, s) \/ EndMatch(Match(u, s))
  \/ \E c \in converting : Convert(c) \/ Refuse(c)

MoneySpec == MoneyInit /\ [][MoneyNext]_moneyVars

------------------------------------------------------------------------------
\* Properties.

\* All conversions together give no more real money than the cap, and the
\* counter is their sum, however conversions of different players race.
CapHolds ==
  LET given == SumOf([u \in Users |-> wallet[u]["REAL"].avail], Users)
  IN total = given /\ (Cap # 0 => given <= Cap)

\* A pocket that was closed stays empty: no match whose stake came from it is
\* still to be won or refunded, and no bonus is still to come.
ClosedStaysEmpty ==
  \A u \in closed :
    /\ wallet[u]["BONUS"] = [avail |-> 0, locked |-> 0]
    /\ \A m \in open : m.player # u
==============================================================================
