------------------------------ MODULE WalletOps ------------------------------
(***************************************************************************)
(* The WalletService of wallet/services.py as operators on the table of    *)
(* wallets.  A wallet has a REAL and a BONUS pocket and each pocket an     *)
(* available and a locked balance.  Every service method runs in one       *)
(* transaction that holds the locks of the rows it touches, so a method is *)
(* a guard (what it checks before it raises) and a new table.              *)
(***************************************************************************)
EXTENDS Integers

CONSTANTS Accounts   \* every user that has a wallet, the house included

Pockets == {"REAL", "BONUS"}

Balance == [avail : Nat, locked : Nat]

Wallets == [Accounts -> [Pockets -> Balance]]

\* WalletService.credit, and credit_back: no movement of zero or less.
CanCredit(w, u, q, x) == x > 0

Credit(w, u, q, x) == [w EXCEPT ![u][q].avail = @ + x]

\* reserve_for_payout: the amount leaves the REAL pocket at once.
CanReserve(w, u, x) == x > 0 /\ w[u]["REAL"].avail >= x

Reserve(w, u, x) == [w EXCEPT ![u]["REAL"].avail = @ - x]

\* Mutant of CanLock: the balance is not compared with the stake.
CanLockUnchecked(w, u, q, b) == b > 0

\* lock_funds: available -> locked, inside one pocket.
CanLock(w, u, q, b) == b > 0 /\ w[u][q].avail >= b

Lock(w, u, q, b) ==
  [w EXCEPT ![u][q].avail = @ - b, ![u][q].locked = @ + b]

\* _add on the locked balance.
Unlock(w, u, q, b) == [w EXCEPT ![u][q].locked = @ - b]

\* One entry of refund_escrow: locked -> available.  _add raises when the
\* locked balance would become negative, and the whole transaction with it.
CanRefund(w, u, q, b) == w[u][q].locked >= b

Refund(w, u, q, b) == Credit(Unlock(w, u, q, b), u, q, b)

\* _compute_rake: a percentage of the pot rounded down, REAL pocket only.
Rake(pot, q, percent) == IF q = "REAL" THEN (pot * percent) \div 100 ELSE 0

\* settle_escrow: both stakes leave escrow, the winner receives the pot net of
\* the rake, the house the rake.  The house may itself be one of the players.
CanSettle(w, winner, loser, q, b) ==
  /\ w[winner][q].locked >= b
  /\ w[loser][q].locked >= IF winner = loser THEN 2 * b ELSE b

\* Mutant of Settle: the rake is paid to the house but not withheld.
SettleGross(w, winner, loser, house, q, b, rake) ==
  Credit(Credit(Unlock(Unlock(w, winner, q, b), loser, q, b), winner, q, 2 * b),
         house, "REAL", rake)

Settle(w, winner, loser, house, q, b, rake) ==
  LET freed == Unlock(Unlock(w, winner, q, b), loser, q, b)
  IN  Credit(Credit(freed, winner, q, 2 * b - rake), house, "REAL", rake)
==============================================================================
