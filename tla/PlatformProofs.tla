---------------------------- MODULE PlatformProofs ----------------------------
(***************************************************************************)
(* Proofs about Bonus, for any number of players, any stakes, any tranche  *)
(* and any cap: all conversions together stay under the cap, and a virtual *)
(* pocket that was closed for life stays empty.  Proofs about LockOrder,   *)
(* for any number of transactions: they never wait in a circle.  Proofs    *)
(* about Lifecycle: the timers of a match, for every number of moves,      *)
(* connections, disconnections and faults.                                 *)
(***************************************************************************)
EXTENDS Bonus, LockOrder, Lifecycle, TotalsProofs, TLAPS

------------------------------------------------------------------------------
\* VIRTUAL MONEY.

\* The configuration of the platform: the house does not bet against itself, and a
\* tranche is not of nothing.
Limits ==
  /\ IsFiniteSet(Users) /\ House \notin Users
  /\ Stakes \subseteq Nat \ {0} /\ Threshold \in Nat \ {0}
  /\ Welcome \in Nat /\ HouseFunds \in Nat /\ PerTranche \in Nat /\ Cap \in Nat

Rows == [player : Users, stake : Stakes]

Purses == [Accounts -> [Pockets -> [avail : Int, locked : Int]]]

\* The real money of a player came from conversions.
Given == SumOf([u \in Users |-> wallet[u]["REAL"].avail], Users)

MoneyTypeOK ==
  /\ wallet \in Purses
  /\ closed \subseteq Users
  /\ open \subseteq Rows /\ IsFiniteSet(open)
  /\ total \in Int
  /\ converting \subseteq [user : Users, read : Int]

\* One conversion at a time holds the counter, and what it read is still there.
Alone == \A c \in converting : c.read = total /\ converting = {c}

\* What a match has staked from the virtual pocket of u.
Staked(u) == [m \in Rows |-> IF m.player = u THEN m.stake ELSE 0]

\* What is locked in a virtual pocket are the stakes of the running matches.
Locked == \A u \in Users : wallet[u]["BONUS"].locked = SumOf(Staked(u), open)

\* The inductive invariant.
MoneyIInv == MoneyTypeOK /\ Alone /\ CapHolds /\ Locked /\ ClosedStaysEmpty

------------------------------------------------------------------------------
\* Balances.

LEMMA PursesType ==
  ASSUME NEW w \in Purses, NEW u \in Accounts, NEW q \in Pockets
  PROVE  w[u][q].avail \in Int /\ w[u][q].locked \in Int
BY DEF Purses

LEMMA CreditPurse ==
  ASSUME NEW w \in Purses, NEW u \in Accounts, NEW q \in Pockets, NEW x \in Int
  PROVE  Credit(w, u, q, x) \in Purses
BY DEF Purses, Credit

LEMMA LockPurse ==
  ASSUME NEW w \in Purses, NEW u \in Accounts, NEW q \in Pockets, NEW x \in Int
  PROVE  Lock(w, u, q, x) \in Purses
BY DEF Purses, Lock

LEMMA LockReads ==
  ASSUME NEW w \in Purses, NEW v \in Accounts, NEW x \in Int, NEW u \in Accounts
  PROVE  /\ Lock(w, v, "BONUS", x)[u]["REAL"] = w[u]["REAL"]
         /\ Lock(w, v, "BONUS", x)[u]["BONUS"].locked
              = w[u]["BONUS"].locked + (IF u = v THEN x ELSE 0)
         /\ u # v => Lock(w, v, "BONUS", x)[u]["BONUS"] = w[u]["BONUS"]
BY DEF Purses, Lock, Pockets

LEMMA UnlockPurse ==
  ASSUME NEW w \in Purses, NEW u \in Accounts, NEW q \in Pockets, NEW x \in Int
  PROVE  Unlock(w, u, q, x) \in Purses
BY DEF Purses, Unlock

LEMMA UnlockReads ==
  ASSUME NEW w \in Purses, NEW v \in Accounts, NEW x \in Int, NEW u \in Accounts
  PROVE  /\ Unlock(w, v, "BONUS", x)[u]["REAL"] = w[u]["REAL"]
         /\ Unlock(w, v, "BONUS", x)[u]["BONUS"].locked
              = w[u]["BONUS"].locked - (IF u = v THEN x ELSE 0)
         /\ u # v => Unlock(w, v, "BONUS", x)[u]["BONUS"] = w[u]["BONUS"]
BY DEF Purses, Unlock, Pockets

LEMMA CreditReads ==
  ASSUME NEW w \in Purses, NEW v \in Accounts, NEW q \in Pockets, NEW x \in Int,
         NEW u \in Accounts
  PROVE  /\ q = "BONUS" => Credit(w, v, q, x)[u]["REAL"] = w[u]["REAL"]
         /\ Credit(w, v, q, x)[u]["BONUS"].locked = w[u]["BONUS"].locked
         /\ u # v => Credit(w, v, q, x)[u] = w[u]
BY DEF Purses, Credit, Pockets

LEMMA UsersAccounts == Users \subseteq Accounts /\ House \in Accounts /\ "BONUS" \in Pockets
                       /\ "REAL" \in Pockets
BY DEF Accounts, Pockets

LEMMA GivenType ==
  ASSUME Limits, MoneyTypeOK
  PROVE  Given \in Int
<1>1. \A u \in Users : [v \in Users |-> wallet[v]["REAL"].avail][u] \in Int
  BY PursesType, UsersAccounts DEF MoneyTypeOK
<1> QED BY <1>1, SumType DEF Given, Limits

\* No real money moves.
LEMMA GivenKept ==
  ASSUME CapHolds, total' = total,
         \A u \in Users : wallet'[u]["REAL"].avail = wallet[u]["REAL"].avail
  PROVE  CapHolds'
<1>1. [u \in Users |-> wallet'[u]["REAL"].avail] = [u \in Users |-> wallet[u]["REAL"].avail]
  OBVIOUS
<1> QED BY <1>1 DEF CapHolds

\* Nothing is staked or freed.
LEMMA LockedKept ==
  ASSUME Locked, open' = open,
         \A u \in Users : wallet'[u]["BONUS"].locked = wallet[u]["BONUS"].locked
  PROVE  Locked'
BY DEF Locked, Staked

LEMMA ClosedKept ==
  ASSUME ClosedStaysEmpty, closed' = closed, open' \subseteq open,
         \A u \in closed : wallet'[u]["BONUS"] = wallet[u]["BONUS"]
  PROVE  ClosedStaysEmpty'
BY DEF ClosedStaysEmpty

\* The stakes in the virtual pocket of one player.
LEMMA StakedTypes ==
  ASSUME Limits, MoneyTypeOK, NEW u
  PROVE  /\ \A m \in open : Staked(u)[m] \in Nat
         /\ SumOf(Staked(u), open) \in Nat
<1>1. \A m \in open : Staked(u)[m] \in Nat
  BY DEF Limits, MoneyTypeOK, Rows, Staked
<1> QED BY <1>1, SumNatural DEF MoneyTypeOK

\* One match more: the stake is locked.
LEMMA StakedMore ==
  ASSUME Limits, MoneyTypeOK, NEW m \in Rows \ open, NEW u
  PROVE  SumOf(Staked(u), open \cup {m}) = SumOf(Staked(u), open) + Staked(u)[m]
<1> DEFINE S == open \cup {m}
           f == Staked(u)
<1>1. IsFiniteSet(S)
  BY FS_AddElement DEF MoneyTypeOK
<1>2. \A x \in S : f[x] \in Int
  BY DEF Limits, MoneyTypeOK, Rows, Staked
<1>3. SumOf(f, S) = f[m] + SumOf(f, open)
  <2>1. S \ {m} = open
    OBVIOUS
  <2> HIDE DEF f
  <2> QED BY <1>1, <1>2, <2>1, SumSplit
<1>4. SumOf(f, open) \in Int /\ f[m] \in Int
  BY <1>2, StakedTypes
<1> HIDE DEF f, S
<1>5. SumOf(f, S) = SumOf(f, open) + f[m]
  BY <1>3, <1>4
<1> QED BY <1>5 DEF f, S

\* One match less: the stake is free.
LEMMA StakedLess ==
  ASSUME Limits, MoneyTypeOK, NEW m \in open, NEW u
  PROVE  SumOf(Staked(u), open \ {m}) = SumOf(Staked(u), open) - Staked(u)[m]
<1> DEFINE f == Staked(u)
<1>1. \A x \in open : f[x] \in Int
  BY StakedTypes
<1>2. IsFiniteSet(open) /\ IsFiniteSet(open \ {m})
  BY FS_RemoveElement DEF MoneyTypeOK
<1> HIDE DEF f
<1>3. SumOf(f, open) = f[m] + SumOf(f, open \ {m})
  BY <1>1, <1>2, SumSplit
<1>4. SumOf(f, open \ {m}) \in Int /\ f[m] \in Int
  BY <1>1, <1>2, SumType
<1>5. SumOf(f, open \ {m}) = SumOf(f, open) - f[m]
  BY <1>3, <1>4
<1> QED BY <1>5 DEF f

\* A pocket with nothing locked has no running match.
LEMMA NothingRuns ==
  ASSUME Limits, MoneyTypeOK, Locked, NEW u \in Users, wallet[u]["BONUS"].locked = 0, NEW m \in open
  PROVE  m.player # u
<1> SUFFICES ASSUME m.player = u PROVE FALSE
  OBVIOUS
<1>1. m \in Rows /\ m.stake \in Nat \ {0}
  BY DEF MoneyTypeOK, Rows, Limits
<1>2. Staked(u)[m] = m.stake
  BY <1>1 DEF Staked
<1> DEFINE f == Staked(u)
<1>3. \A x \in open : f[x] \in Nat
  BY StakedTypes
<1>4. IsFiniteSet(open) /\ IsFiniteSet(open \ {m})
  BY FS_RemoveElement DEF MoneyTypeOK
<1>5. SumOf(f, open) = 0
  BY DEF Locked
<1>6. f[m] \in Nat /\ f[m] # 0
  BY <1>1, <1>2
<1> HIDE DEF f
<1>7. SumOf(f, open) = f[m] + SumOf(f, open \ {m})
  BY <1>3, <1>4, SumSplit
<1>8. SumOf(f, open \ {m}) \in Nat
  BY <1>3, <1>4, SumNatural
<1> QED BY <1>5, <1>6, <1>7, <1>8

------------------------------------------------------------------------------
\* The steps.

LEMMA MoneyInitially ==
  ASSUME Limits, MoneyInit
  PROVE  MoneyIInv
<1>1. MoneyTypeOK
  <2>1. wallet \in Purses
    BY DEF MoneyInit, Purses, Limits
  <2> QED BY <2>1, FS_EmptySet DEF MoneyInit, MoneyTypeOK
<1>2. CapHolds
  <2>1. \A u \in Users : [v \in Users |-> wallet[v]["REAL"].avail][u] = 0
    BY DEF MoneyInit, Accounts, Pockets
  <2>2. SumOf([v \in Users |-> wallet[v]["REAL"].avail], Users) = 0
    BY <2>1, SumZeros DEF Limits
  <2> QED BY <2>2 DEF CapHolds, MoneyInit, Limits
<1>3. Locked
  <2>1. \A u \in Users : SumOf(Staked(u), open) = 0
    BY SumEmpty DEF MoneyInit
  <2>2. \A u \in Users : wallet[u]["BONUS"].locked = 0
    BY DEF MoneyInit, Accounts, Pockets
  <2> QED BY <2>1, <2>2 DEF Locked
<1>4. Alone /\ ClosedStaysEmpty
  BY DEF MoneyInit, Alone, ClosedStaysEmpty
<1> QED BY <1>1, <1>2, <1>3, <1>4 DEF MoneyIInv

LEMMA GrantStep ==
  ASSUME Limits, MoneyIInv, NEW v \in Users, Grant(v)
  PROVE  MoneyIInv'
<1>1. /\ wallet' = Credit(wallet, v, "BONUS", Welcome) /\ v \notin closed
      /\ UNCHANGED <<closed, open, total, converting>>
  BY DEF Grant
<1>2. wallet \in Purses /\ Welcome \in Int /\ closed \subseteq Users
  BY DEF MoneyIInv, MoneyTypeOK, Limits
<1>3. wallet' \in Purses
  BY <1>1, <1>2, CreditPurse, UsersAccounts
<1>4. \A u \in Users :
        /\ wallet'[u]["REAL"] = wallet[u]["REAL"]
        /\ wallet'[u]["BONUS"].locked = wallet[u]["BONUS"].locked
        /\ u # v => wallet'[u]["BONUS"] = wallet[u]["BONUS"]
  BY <1>1, <1>2 DEF Credit, Purses, Pockets, Accounts
<1>5. MoneyTypeOK' /\ Alone'
  BY <1>1, <1>3 DEF MoneyIInv, MoneyTypeOK, Alone
<1>6. CapHolds'
  BY <1>1, <1>4, GivenKept DEF MoneyIInv
<1>7. Locked'
  BY <1>1, <1>4, LockedKept DEF MoneyIInv
<1>8. ClosedStaysEmpty'
  BY <1>1, <1>2, <1>4, ClosedKept DEF MoneyIInv
<1> QED BY <1>5, <1>6, <1>7, <1>8 DEF MoneyIInv

LEMMA BetStep ==
  ASSUME Limits, MoneyIInv, NEW v \in Users, NEW s \in Stakes, Bet(v, s)
  PROVE  MoneyIInv'
<1> DEFINE m == Match(v, s)
<1>1. /\ m \notin open /\ open' = open \cup {m}
      /\ wallet' = Lock(Lock(wallet, v, "BONUS", s), House, "BONUS", s)
      /\ wallet[v]["BONUS"].avail >= s
      /\ UNCHANGED <<closed, total, converting>>
  BY DEF Bet, CanLock
<1>2. /\ wallet \in Purses /\ s \in Nat \ {0} /\ closed \subseteq Users /\ House \notin Users
      /\ MoneyTypeOK
  BY DEF MoneyIInv, MoneyTypeOK, Limits
<1>3. m \in Rows /\ m.player = v /\ m.stake = s
  BY DEF Match, Rows
<1>4. wallet' \in Purses
  BY <1>1, <1>2, LockPurse, UsersAccounts
<1>5. \A u \in Users :
        /\ wallet'[u]["REAL"] = wallet[u]["REAL"]
        /\ wallet'[u]["BONUS"].locked = wallet[u]["BONUS"].locked + (IF u = v THEN s ELSE 0)
        /\ u # v => wallet'[u]["BONUS"] = wallet[u]["BONUS"]
  <2> DEFINE w == Lock(wallet, v, "BONUS", s)
  <2>1. w \in Purses
    BY <1>2, LockPurse, UsersAccounts
  <2>2. \A u \in Users : u \in Accounts /\ u # House
    BY <1>2, UsersAccounts
  <2>3. \A u \in Users :
          /\ w[u]["REAL"] = wallet[u]["REAL"]
          /\ w[u]["BONUS"].locked = wallet[u]["BONUS"].locked + (IF u = v THEN s ELSE 0)
          /\ u # v => w[u]["BONUS"] = wallet[u]["BONUS"]
    BY <1>2, <2>2, LockReads
  <2>4. wallet' = Lock(w, House, "BONUS", s)
    BY <1>1
  <2> HIDE DEF w
  <2>5. \A u \in Users :
          /\ wallet'[u]["REAL"] = w[u]["REAL"] /\ wallet'[u]["BONUS"] = w[u]["BONUS"]
    BY <1>2, <2>1, <2>2, <2>4, LockReads, UsersAccounts
  <2> QED BY <2>3, <2>5
<1> HIDE DEF m
<1>6. MoneyTypeOK' /\ Alone'
  <2>1. IsFiniteSet(open')
    BY <1>1, <1>2, FS_AddElement DEF MoneyTypeOK
  <2> QED BY <1>1, <1>3, <1>4, <2>1 DEF MoneyIInv, MoneyTypeOK, Alone
<1>7. CapHolds'
  BY <1>1, <1>5, GivenKept DEF MoneyIInv
<1>8. Locked'
  <2> SUFFICES ASSUME NEW u \in Users
      PROVE  wallet'[u]["BONUS"].locked = SumOf(Staked(u), open')
    BY DEF Locked, Staked
  <2>1. SumOf(Staked(u), open') = SumOf(Staked(u), open) + Staked(u)[m]
    BY <1>1, <1>2, <1>3, StakedMore
  <2>2. Staked(u)[m] = IF u = v THEN s ELSE 0
    BY <1>3 DEF Staked
  <2>3. wallet[u]["BONUS"].locked = SumOf(Staked(u), open)
    BY DEF MoneyIInv, Locked
  <2> QED BY <1>5, <2>1, <2>2, <2>3
<1>9. ClosedStaysEmpty'
  <2>1. v \notin closed
    BY <1>1, <1>2 DEF MoneyIInv, ClosedStaysEmpty
  <2> QED BY <1>1, <1>2, <1>3, <1>5, <2>1 DEF MoneyIInv, ClosedStaysEmpty
<1> QED BY <1>6, <1>7, <1>8, <1>9 DEF MoneyIInv

\* What the end of a match for b does to the pockets of the player v: the stake is no
\* longer locked, and nothing else changes but what is available.
Freed(w, w2, v, b) ==
  /\ w2 \in Purses
  /\ \A u \in Users :
       /\ w2[u]["REAL"] = w[u]["REAL"]
       /\ w2[u]["BONUS"].locked = w[u]["BONUS"].locked - (IF u = v THEN b ELSE 0)
       /\ u # v => w2[u]["BONUS"] = w[u]["BONUS"]

\* The stakes of the player and of the house leave escrow.
LEMMA BothFreed ==
  ASSUME Limits, NEW w \in Purses, NEW v \in Users, NEW b \in Nat
  PROVE  /\ Freed(w, Unlock(Unlock(w, v, "BONUS", b), House, "BONUS", b), v, b)
         /\ Freed(w, Unlock(Unlock(w, House, "BONUS", b), v, "BONUS", b), v, b)
<1>1. \A u \in Users : u \in Accounts /\ u # House
  BY UsersAccounts DEF Limits
<1>2. House \in Accounts /\ v \in Accounts /\ b \in Int /\ v # House
  BY <1>1, UsersAccounts
<1>3. Freed(w, Unlock(Unlock(w, v, "BONUS", b), House, "BONUS", b), v, b)
  <2> DEFINE x == Unlock(w, v, "BONUS", b)
             y == Unlock(x, House, "BONUS", b)
  <2>1. x \in Purses
    BY <1>2, UnlockPurse, UsersAccounts
  <2>2. \A u \in Users :
          /\ x[u]["REAL"] = w[u]["REAL"]
          /\ x[u]["BONUS"].locked = w[u]["BONUS"].locked - (IF u = v THEN b ELSE 0)
          /\ u # v => x[u]["BONUS"] = w[u]["BONUS"]
    BY <1>1, <1>2, UnlockReads
  <2> HIDE DEF x
  <2>3. y \in Purses
    BY <1>2, <2>1, UnlockPurse, UsersAccounts
  <2>4. \A u \in Users : y[u]["REAL"] = x[u]["REAL"] /\ y[u]["BONUS"] = x[u]["BONUS"]
    BY <1>1, <1>2, <2>1, UnlockReads
  <2> HIDE DEF y
  <2>5. Freed(w, y, v, b)
    BY <2>2, <2>3, <2>4 DEF Freed
  <2> QED BY <2>5 DEF x, y
<1>4. Freed(w, Unlock(Unlock(w, House, "BONUS", b), v, "BONUS", b), v, b)
  <2> DEFINE x == Unlock(w, House, "BONUS", b)
             y == Unlock(x, v, "BONUS", b)
  <2>1. x \in Purses
    BY <1>2, UnlockPurse, UsersAccounts
  <2>2. \A u \in Users : x[u]["REAL"] = w[u]["REAL"] /\ x[u]["BONUS"] = w[u]["BONUS"]
    BY <1>1, <1>2, UnlockReads
  <2> HIDE DEF x
  <2>3. y \in Purses
    BY <1>2, <2>1, UnlockPurse, UsersAccounts
  <2>4. \A u \in Users :
          /\ y[u]["REAL"] = x[u]["REAL"]
          /\ y[u]["BONUS"].locked = x[u]["BONUS"].locked - (IF u = v THEN b ELSE 0)
          /\ u # v => y[u]["BONUS"] = x[u]["BONUS"]
    BY <1>1, <1>2, <2>1, UnlockReads
  <2> HIDE DEF y
  <2>5. Freed(w, y, v, b)
    BY <2>2, <2>3, <2>4 DEF Freed
  <2> QED BY <2>5 DEF x, y
<1> QED BY <1>3, <1>4

\* A credit of virtual money to the player or the house frees nothing more.
LEMMA FreedCredit ==
  ASSUME Limits, NEW w, NEW x \in Purses, NEW v \in Users, NEW b \in Nat, Freed(w, x, v, b),
         NEW c \in {v, House}, NEW amount \in Int
  PROVE  Freed(w, Credit(x, c, "BONUS", amount), v, b)
<1> DEFINE y == Credit(x, c, "BONUS", amount)
<1>1. c \in Accounts /\ \A u \in Users : u \in Accounts /\ u # House
  BY UsersAccounts DEF Limits
<1>2. y \in Purses
  BY <1>1, CreditPurse, UsersAccounts
<1>3. \A u \in Users :
        /\ y[u]["REAL"] = x[u]["REAL"]
        /\ y[u]["BONUS"].locked = x[u]["BONUS"].locked
        /\ u # c => y[u] = x[u]
  BY <1>1, CreditReads, UsersAccounts
<1> HIDE DEF y
<1>4. Freed(w, y, v, b)
  BY <1>1, <1>2, <1>3 DEF Freed
<1> QED BY <1>4 DEF y

\* The rake of a match for virtual money is nothing.
LEMMA FreedRake ==
  ASSUME Limits, NEW w, NEW x \in Purses, NEW v \in Users, NEW b \in Nat, Freed(w, x, v, b)
  PROVE  Freed(w, Credit(x, House, "REAL", 0), v, b)
<1> DEFINE y == Credit(x, House, "REAL", 0)
<1>1. \A u \in Users : u \in Accounts /\ u # House
  BY UsersAccounts DEF Limits
<1>2. y \in Purses
  BY CreditPurse, UsersAccounts
<1>3. \A u \in Users : y[u] = x[u]
  BY <1>1, CreditReads, UsersAccounts
<1> HIDE DEF y
<1>4. Freed(w, y, v, b)
  BY <1>2, <1>3 DEF Freed
<1> QED BY <1>4 DEF y

\* However the match ends.
LEMMA WonFreed ==
  ASSUME Limits, MoneyTypeOK, NEW m \in open, NEW winner, NEW loser,
         \/ winner = m.player /\ loser = House
         \/ winner = House /\ loser = m.player
  PROVE  Freed(wallet, WonBy(m, winner, loser), m.player, m.stake)
<1> DEFINE v == m.player
           b == m.stake
           x == Unlock(Unlock(wallet, winner, "BONUS", b), loser, "BONUS", b)
           y == Credit(x, winner, "BONUS", 2 * b - 0)
<1>1. v \in Users /\ b \in Nat /\ wallet \in Purses /\ winner \in {v, House}
  BY DEF MoneyTypeOK, Rows, Limits
<1>2. WonBy(m, winner, loser) = Credit(y, House, "REAL", 0)
  BY DEF WonBy, Settle
<1>3. Freed(wallet, x, v, b)
  BY <1>1, BothFreed
<1> HIDE DEF x
<1>4. x \in Purses /\ 2 * b - 0 \in Int
  BY <1>1, <1>3 DEF Freed
<1>5. Freed(wallet, y, v, b)
  BY <1>1, <1>3, <1>4, FreedCredit
<1> HIDE DEF y
<1>6. y \in Purses
  BY <1>5 DEF Freed
<1> QED BY <1>1, <1>2, <1>5, <1>6, FreedRake

LEMMA RefundedFreed ==
  ASSUME Limits, MoneyTypeOK, NEW m \in open
  PROVE  Freed(wallet, Refunded(m), m.player, m.stake)
<1> DEFINE v == m.player
           b == m.stake
           x == Credit(Unlock(wallet, v, "BONUS", b), v, "BONUS", b)
<1>1. /\ v \in Users /\ b \in Int /\ wallet \in Purses /\ v \in Accounts /\ v # House
      /\ \A u \in Users : u \in Accounts /\ u # House
  BY UsersAccounts DEF MoneyTypeOK, Rows, Limits
<1>2. Refunded(m) = Credit(Unlock(x, House, "BONUS", b), House, "BONUS", b)
  BY DEF Refunded, Refund
<1>3. Freed(wallet, x, v, b)
  <2> DEFINE y == Unlock(wallet, v, "BONUS", b)
  <2>1. y \in Purses
    BY <1>1, UnlockPurse, UsersAccounts
  <2>2. \A u \in Users :
          /\ y[u]["REAL"] = wallet[u]["REAL"]
          /\ y[u]["BONUS"].locked = wallet[u]["BONUS"].locked - (IF u = v THEN b ELSE 0)
          /\ u # v => y[u]["BONUS"] = wallet[u]["BONUS"]
    BY <1>1, UnlockReads
  <2>3. Freed(wallet, y, v, b)
    BY <2>1, <2>2 DEF Freed
  <2>4. b \in Nat
    BY DEF MoneyTypeOK, Rows, Limits
  <2> HIDE DEF y
  <2>5. Freed(wallet, Credit(y, v, "BONUS", b), v, b)
    BY <1>1, <2>1, <2>3, <2>4, FreedCredit
  <2> QED BY <2>5 DEF y
<1> HIDE DEF x
<1> DEFINE z  == Unlock(x, House, "BONUS", b)
           z2 == Credit(z, House, "BONUS", b)
<1>4. x \in Purses
  BY <1>3 DEF Freed
<1>5. z \in Purses
  BY <1>1, <1>4, UnlockPurse, UsersAccounts
<1>6. \A u \in Users : z[u]["REAL"] = x[u]["REAL"] /\ z[u]["BONUS"] = x[u]["BONUS"]
  BY <1>1, <1>4, UnlockReads, UsersAccounts
<1> HIDE DEF z
<1>7. Freed(wallet, z, v, b)
  BY <1>3, <1>5, <1>6 DEF Freed
<1>8. b \in Nat
  BY DEF MoneyTypeOK, Rows, Limits
<1>9. Freed(wallet, z2, v, b)
  BY <1>1, <1>5, <1>7, <1>8, FreedCredit
<1> QED BY <1>2, <1>9 DEF z, z2

LEMMA EndMatchStep ==
  ASSUME Limits, MoneyIInv, NEW m \in open, EndMatch(m)
  PROVE  MoneyIInv'
<1>1. MoneyTypeOK /\ m \in Rows /\ closed \subseteq Users
  BY DEF MoneyIInv, MoneyTypeOK
<1>2. /\ open' = open \ {m}
      /\ wallet' \in {WonBy(m, m.player, House), WonBy(m, House, m.player), Refunded(m)}
      /\ UNCHANGED <<granted, closed, total, converting>>
  BY DEF EndMatch
<1>3. Freed(wallet, wallet', m.player, m.stake)
  <2>1. CASE wallet' = WonBy(m, m.player, House)
    BY <1>1, <2>1, WonFreed
  <2>2. CASE wallet' = WonBy(m, House, m.player)
    BY <1>1, <2>2, WonFreed
  <2>3. CASE wallet' = Refunded(m)
    BY <1>1, <2>3, RefundedFreed
  <2> QED BY <1>2, <2>1, <2>2, <2>3
<1>4. MoneyTypeOK' /\ Alone'
  <2>1. IsFiniteSet(open')
    BY <1>1, <1>2, FS_RemoveElement DEF MoneyTypeOK
  <2> QED BY <1>1, <1>2, <1>3, <2>1 DEF MoneyIInv, MoneyTypeOK, Alone, Freed
<1>5. CapHolds'
  <2>1. \A u \in Users : wallet'[u]["REAL"].avail = wallet[u]["REAL"].avail
    BY <1>3 DEF Freed
  <2> QED BY <1>2, <2>1, GivenKept DEF MoneyIInv
<1>6. Locked'
  <2> SUFFICES ASSUME NEW u \in Users
      PROVE  wallet'[u]["BONUS"].locked = SumOf(Staked(u), open')
    BY DEF Locked, Staked
  <2>1. SumOf(Staked(u), open') = SumOf(Staked(u), open) - Staked(u)[m]
    BY <1>1, <1>2, StakedLess
  <2>2. Staked(u)[m] = IF u = m.player THEN m.stake ELSE 0
    BY <1>1 DEF Staked
  <2>3. wallet[u]["BONUS"].locked = SumOf(Staked(u), open)
    BY DEF MoneyIInv, Locked
  <2> QED BY <1>3, <2>1, <2>2, <2>3 DEF Freed
<1>7. ClosedStaysEmpty'
  <2>1. m.player \notin closed
    BY DEF MoneyIInv, ClosedStaysEmpty
  <2>2. \A u \in closed : wallet'[u]["BONUS"] = wallet[u]["BONUS"]
    BY <1>1, <1>3, <2>1 DEF Freed
  <2> QED BY <1>2, <2>2, ClosedKept DEF MoneyIInv
<1> QED BY <1>4, <1>5, <1>6, <1>7 DEF MoneyIInv

------------------------------------------------------------------------------
\* Conversions.

LEMMA BeginConversionStep ==
  ASSUME Limits, MoneyIInv, NEW v \in Users, BeginConversion(v)
  PROVE  MoneyIInv'
<1>1. /\ converting = {} /\ converting' = converting \cup {[user |-> v, read |-> total]}
      /\ UNCHANGED <<wallet, granted, closed, open, total>>
  BY DEF BeginConversion, Free
<1>2. MoneyTypeOK'
  BY <1>1 DEF MoneyIInv, MoneyTypeOK
<1>3. Alone'
  BY <1>1 DEF Alone
<1>4. CapHolds' /\ Locked' /\ ClosedStaysEmpty'
  BY <1>1 DEF MoneyIInv, CapHolds, Locked, Staked, ClosedStaysEmpty
<1> QED BY <1>2, <1>3, <1>4 DEF MoneyIInv

LEMMA RefuseStep ==
  ASSUME Limits, MoneyIInv, NEW c \in converting, Refuse(c)
  PROVE  MoneyIInv'
<1>1. converting' = converting \ {c} /\ UNCHANGED <<wallet, granted, closed, open, total>>
  BY DEF Refuse
<1>2. MoneyTypeOK'
  BY <1>1 DEF MoneyIInv, MoneyTypeOK
<1>3. Alone'
  BY <1>1 DEF MoneyIInv, Alone
<1>4. CapHolds' /\ Locked' /\ ClosedStaysEmpty'
  BY <1>1 DEF MoneyIInv, CapHolds, Locked, Staked, ClosedStaysEmpty
<1> QED BY <1>2, <1>3, <1>4 DEF MoneyIInv

\* What is converted: whole tranches, and at least one.
LEMMA TranchesType ==
  ASSUME Limits, MoneyTypeOK, NEW u \in Users
  PROVE  Tranches(u) \in Int
<1>1. wallet[u]["BONUS"].avail \in Int /\ Threshold \in Nat \ {0}
  BY PursesType, UsersAccounts DEF MoneyTypeOK, Limits
<1> QED BY <1>1 DEF Tranches

LEMMA ConvertStep ==
  ASSUME Limits, MoneyIInv, NEW c \in converting, Convert(c)
  PROVE  MoneyIInv'
<1> DEFINE v == c.user
           n == Tranches(v)
           t == n * PerTranche
           b == n * Threshold
<1>1. /\ Allowed(c) /\ wallet' = Converted(v) /\ total' = c.read + t
      /\ closed' = closed \cup {u \in {v} : Emptied(wallet', u)}
      /\ converting' = converting \ {c} /\ UNCHANGED <<granted, open>>
  BY DEF Convert
<1>2. /\ v \in Users /\ c.read = total /\ converting = {c} /\ total \in Int
      /\ wallet \in Purses /\ closed \subseteq Users /\ v \in Accounts /\ MoneyTypeOK
  BY UsersAccounts DEF MoneyIInv, MoneyTypeOK, Alone
<1>3. n \in Nat /\ n # 0
  BY <1>1, <1>2, TranchesType DEF Allowed
<1>4. t \in Int /\ b \in Int
  BY <1>3 DEF Limits
<1>5. /\ wallet' = [wallet EXCEPT ![v]["BONUS"].avail = @ - b, ![v]["REAL"].avail = @ + t]
      /\ total' = total + t
      /\ Cap # 0 => total + t <= Cap
  BY <1>1, <1>2 DEF Converted, Allowed
<1>6. v \notin closed
  <2>1. v \in closed => wallet[v]["BONUS"].avail = 0
    BY DEF MoneyIInv, ClosedStaysEmpty
  <2>2. wallet[v]["BONUS"].avail = 0 => n = 0
    BY DEF Tranches, Limits
  <2> QED BY <1>3, <2>1, <2>2
<1> HIDE DEF n, t, b, v
<1>7. /\ wallet' \in Purses
      /\ \A u \in Accounts :
           /\ wallet'[u]["REAL"].avail = wallet[u]["REAL"].avail + (IF u = v THEN t ELSE 0)
           /\ wallet'[u]["BONUS"].locked = wallet[u]["BONUS"].locked
           /\ u # v => wallet'[u]["BONUS"] = wallet[u]["BONUS"]
  <2>1. wallet \in [Accounts -> [Pockets -> [avail : Int, locked : Int]]]
    BY <1>2 DEF Purses
  <2> DEFINE purse == [wallet[v] EXCEPT !["BONUS"].avail = @ - b, !["REAL"].avail = @ + t]
  <2>2. wallet[v] \in [Pockets -> [avail : Int, locked : Int]]
    BY <1>2, <2>1
  <2>3. /\ purse \in [Pockets -> [avail : Int, locked : Int]]
        /\ purse["REAL"].avail = wallet[v]["REAL"].avail + t
        /\ purse["BONUS"].locked = wallet[v]["BONUS"].locked
    BY <1>4, <2>2 DEF Pockets
  <2>4. wallet' = [wallet EXCEPT ![v] = purse]
    BY <1>2, <1>5, <2>1
  <2> HIDE DEF purse
  <2>5. /\ wallet' \in [Accounts -> [Pockets -> [avail : Int, locked : Int]]]
        /\ wallet'[v] = purse
        /\ \A u \in Accounts \ {v} : wallet'[u] = wallet[u]
    BY <1>2, <2>1, <2>3, <2>4
  <2>6. \A u \in Accounts : wallet[u]["REAL"].avail \in Int
    BY <2>1 DEF Pockets
  <2>7. ASSUME NEW u \in Accounts
        PROVE  /\ wallet'[u]["REAL"].avail = wallet[u]["REAL"].avail + (IF u = v THEN t ELSE 0)
               /\ wallet'[u]["BONUS"].locked = wallet[u]["BONUS"].locked
               /\ u # v => wallet'[u]["BONUS"] = wallet[u]["BONUS"]
    <3>1. CASE u = v
      BY <2>3, <2>5, <3>1
    <3>2. CASE u # v
      BY <2>5, <2>6, <3>2
    <3> QED BY <3>1, <3>2
  <2> QED BY <2>5, <2>7 DEF Purses
<1>8. MoneyTypeOK'
  <2>1. total' \in Int
    BY <1>2, <1>4, <1>5
  <2>2. closed' \subseteq Users /\ converting' = {} /\ open' = open
    BY <1>1, <1>2
  <2> QED BY <1>2, <1>7, <2>1, <2>2 DEF MoneyTypeOK
<1>9. Alone'
  BY <1>1, <1>2 DEF Alone
<1>10. CapHolds'
  <2> DEFINE f == [u \in Users |-> wallet[u]["REAL"].avail]
             h == [u \in Users |-> wallet'[u]["REAL"].avail]
  <2>1. /\ \A u \in Users : f[u] \in Int /\ h[u] \in Int
        /\ \A u \in Users \ {v} : h[u] = f[u]
        /\ h[v] = f[v] + t
    BY <1>2, <1>4, <1>7, PursesType, UsersAccounts
  <2>2. total = SumOf(f, Users)
    BY DEF MoneyIInv, CapHolds
  <2> HIDE DEF f, h
  <2>3. SumOf(h, Users) = SumOf(f, Users) - f[v] + h[v]
    BY <1>2, <2>1, SumChanged DEF Limits
  <2>4. f[v] \in Int
    BY <1>2, <2>1
  <2>5. SumOf(h, Users) = total + t
    BY <1>2, <1>4, <2>1, <2>2, <2>3, <2>4
  <2>6. total' = SumOf(h, Users) /\ (Cap # 0 => SumOf(h, Users) <= Cap)
    BY <1>5, <2>5
  <2> QED BY <2>6 DEF CapHolds, h
<1>11. Locked'
  BY <1>1, <1>7, UsersAccounts, LockedKept DEF MoneyIInv
<1>12. ClosedStaysEmpty'
  <2> SUFFICES ASSUME NEW u \in closed'
      PROVE  /\ wallet'[u]["BONUS"] = [avail |-> 0, locked |-> 0]
             /\ \A m \in open' : m.player # u
    BY DEF ClosedStaysEmpty
  <2>1. CASE u \in closed
    BY <1>1, <1>2, <1>6, <1>7, <2>1, UsersAccounts DEF MoneyIInv, ClosedStaysEmpty
  <2>2. CASE u = v /\ Emptied(wallet', u)
    <3>1. wallet'[v]["BONUS"] = [avail |-> 0, locked |-> 0]
      BY <2>2 DEF Emptied
    <3>2. wallet[v]["BONUS"].locked = 0
      BY <1>2, <1>7, <3>1
    <3>3. \A m \in open : m.player # v
      BY <1>2, <3>2, NothingRuns DEF MoneyIInv
    <3> QED BY <1>1, <2>2, <3>1, <3>3
  <2> QED BY <1>1, <2>1, <2>2
<1> QED BY <1>8, <1>9, <1>10, <1>11, <1>12 DEF MoneyIInv

------------------------------------------------------------------------------
\* The theorems.

LEMMA NextStep ==
  ASSUME Limits, MoneyIInv, [MoneyNext]_moneyVars
  PROVE  MoneyIInv'
<1>1. CASE UNCHANGED moneyVars
  <2>1. MoneyTypeOK' /\ Alone'
    BY <1>1 DEF moneyVars, MoneyIInv, MoneyTypeOK, Alone
  <2> QED BY <1>1, <2>1 DEF moneyVars, MoneyIInv, CapHolds, Locked, Staked, ClosedStaysEmpty
<1>2. ASSUME NEW u \in Users, Grant(u) \/ BeginConversion(u)
      PROVE  MoneyIInv'
  BY <1>2, GrantStep, BeginConversionStep
<1>3. ASSUME NEW u \in Users, NEW s \in Stakes, Bet(u, s)
      PROVE  MoneyIInv'
  BY <1>3, BetStep
<1>4. ASSUME NEW m, EndMatch(m)
      PROVE  MoneyIInv'
  BY <1>4, EndMatchStep DEF EndMatch
<1>5. ASSUME NEW c \in converting, Convert(c) \/ Refuse(c)
      PROVE  MoneyIInv'
  BY <1>5, ConvertStep, RefuseStep
<1> QED BY <1>1, <1>2, <1>3, <1>4, <1>5 DEF MoneyNext

\* One lock on the counter is enough: whoever converts, and whatever else moves the
\* wallets meanwhile, what all conversions have given is the counter and stays under
\* the cap.
THEOREM ConversionsCapped == Limits => (MoneySpec => []CapHolds)
<1> SUFFICES ASSUME Limits PROVE MoneySpec => []CapHolds
  OBVIOUS
<1>1. MoneyInit => MoneyIInv
  BY MoneyInitially
<1>2. MoneyIInv /\ [MoneyNext]_moneyVars => MoneyIInv'
  BY NextStep
<1>3. MoneyIInv => CapHolds
  BY DEF MoneyIInv
<1> QED BY <1>1, <1>2, <1>3, PTL DEF MoneySpec

\* A pocket is closed for life only when nothing comes back to it: what is locked in it
\* are the stakes of the matches that still run.
THEOREM ClosedForLife == Limits => (MoneySpec => []ClosedStaysEmpty)
<1> SUFFICES ASSUME Limits PROVE MoneySpec => []ClosedStaysEmpty
  OBVIOUS
<1>1. MoneyInit => MoneyIInv
  BY MoneyInitially
<1>2. MoneyIInv /\ [MoneyNext]_moneyVars => MoneyIInv'
  BY NextStep
<1>3. MoneyIInv => ClosedStaysEmpty
  BY DEF MoneyIInv
<1> QED BY <1>1, <1>2, <1>3, PTL DEF MoneySpec

------------------------------------------------------------------------------
\* LOCKS.

\* Wallets are numbered apart.  When a match against the AI can be created, the wallet
\* of the house is the last.
Ranked ==
  /\ IsFiniteSet(Procs) /\ Matches \subseteq Nat /\ House \notin Users
  /\ Operations \subseteq {"vs_house", "single", "join", "merge", "settle", "refund"}
  /\ Rank \in [Accounts -> Int]
  /\ "vs_house" \in Operations => \A u \in Users : Rank[u] < Rank[House]

Locks == {MatchLock(m) : m \in Matches} \cup {WalletLock(u) : u \in Accounts}

\* The order all transactions keep to: matches by number, then wallets by rank.
Before(a, b) ==
  \/ \E m, n \in Matches : a = MatchLock(m) /\ b = MatchLock(n) /\ m < n
  \/ \E m \in Matches, u \in Accounts : a = MatchLock(m) /\ b = WalletLock(u)
  \/ \E u, v \in Accounts : a = WalletLock(u) /\ b = WalletLock(v) /\ Rank[u] < Rank[v]

Ascending(s) == \A i, j \in 1..Len(s) : i < j => Before(s[i], s[j])

LocksTypeOK ==
  /\ held \in [Procs -> SUBSET Locks]
  /\ wanted \in [Procs -> Seq(Locks)]

\* What a transaction holds comes before all it still wants.
InTurn(p) == \A l \in held[p] : \A i \in 1..Len(wanted[p]) : Before(l, wanted[p][i])

\* The inductive invariant.
Ordered == LocksTypeOK /\ \A p \in Procs : Ascending(wanted[p]) /\ InTurn(p)

------------------------------------------------------------------------------
LEMMA BeforeStrict ==
  ASSUME Ranked, NEW a, NEW b, NEW c, Before(a, b)
  PROVE  a # b /\ (Before(b, c) => Before(a, c))
<1> \A m, n : MatchLock(m) # WalletLock(n)
  BY DEF MatchLock, WalletLock
<1> \A m, n : MatchLock(m) = MatchLock(n) => m = n
  BY DEF MatchLock
<1> \A m, n : WalletLock(m) = WalletLock(n) => m = n
  BY DEF WalletLock
<1> \A m \in Matches : m \in Nat
  BY DEF Ranked
<1> \A u \in Accounts : Rank[u] \in Int
  BY DEF Ranked
<1>1. CASE \E m, n \in Matches : a = MatchLock(m) /\ b = MatchLock(n) /\ m < n
  <2>1. PICK m, n \in Matches : a = MatchLock(m) /\ b = MatchLock(n) /\ m < n
    BY <1>1
  <2>2. a # b
    BY <2>1
  <2>3. ASSUME NEW k \in Matches, b = MatchLock(k), NEW j \in Matches, c = MatchLock(j), k < j
        PROVE  Before(a, c)
    <3>a. k = n
      BY <2>1, <2>3
    <3>b. m \in Nat /\ n \in Nat /\ j \in Nat
      OBVIOUS
    <3>1. m < j
      BY <2>1, <2>3, <3>a, <3>b
    <3> QED BY <2>1, <2>3, <3>1 DEF Before
  <2>4. ASSUME NEW u \in Accounts, c = WalletLock(u)
        PROVE  Before(a, c)
    BY <2>1, <2>4 DEF Before
  <2> QED BY <2>1, <2>2, <2>3, <2>4 DEF Before
<1>2. CASE \E m \in Matches, u \in Accounts : a = MatchLock(m) /\ b = WalletLock(u)
  BY <1>2 DEF Before
<1>3. CASE \E u, v \in Accounts : a = WalletLock(u) /\ b = WalletLock(v) /\ Rank[u] < Rank[v]
  <2>1. PICK u, v \in Accounts : a = WalletLock(u) /\ b = WalletLock(v) /\ Rank[u] < Rank[v]
    BY <1>3
  <2>2. a # b
    BY <2>1
  <2>3. ASSUME NEW w \in Accounts, b = WalletLock(w), NEW x \in Accounts, c = WalletLock(x),
               Rank[w] < Rank[x]
        PROVE  Before(a, c)
    <3>a. w = v
      BY <2>1, <2>3
    <3>1. Rank[u] < Rank[x]
      BY <2>1, <2>3, <3>a
    <3> QED BY <2>1, <2>3, <3>1 DEF Before
  <2> QED BY <2>1, <2>2, <2>3 DEF Before
<1> QED BY <1>1, <1>2, <1>3 DEF Before

LEMMA BeforeTypes ==
  ASSUME NEW a, NEW b, Before(a, b)
  PROVE  a \in Locks /\ b \in Locks
BY DEF Before, Locks

------------------------------------------------------------------------------
\* The sequences the methods lock by are ascending.

LEMMA OneLock ==
  ASSUME NEW a \in Locks
  PROVE  <<a>> \in Seq(Locks) /\ Ascending(<<a>>)
<1>1. Len(<<a>>) = 1
  OBVIOUS
<1> QED BY <1>1 DEF Ascending

\* A lock is put before a sequence.
LEMMA OneLockMore ==
  ASSUME NEW a \in Locks, NEW s \in Seq(Locks), Ascending(s),
         \A i \in 1..Len(s) : Before(a, s[i])
  PROVE  <<a>> \o s \in Seq(Locks) /\ Ascending(<<a>> \o s)
<1> DEFINE t == <<a>> \o s
<1>1. t \in Seq(Locks) /\ Len(t) = Len(s) + 1 /\ t[1] = a
  OBVIOUS
<1>2. \A i \in 2..Len(t) : t[i] = s[i - 1] /\ i - 1 \in 1..Len(s)
  OBVIOUS
<1> HIDE DEF t
<1>3. ASSUME NEW i \in 1..Len(t), NEW j \in 1..Len(t), i < j
      PROVE  Before(t[i], t[j])
  <2>1. Len(s) \in Nat /\ j \in 2..Len(t)
    BY <1>1, <1>3
  <2>2. CASE i = 1
    BY <1>1, <1>2, <2>1, <2>2
  <2>3. CASE i # 1
    <3>1. i \in 2..Len(t) /\ i - 1 < j - 1
      BY <1>1, <1>3, <2>1, <2>3
    <3>2. i - 1 \in 1..Len(s) /\ j - 1 \in 1..Len(s) /\ t[i] = s[i - 1] /\ t[j] = s[j - 1]
      BY <1>2, <2>1, <3>1
    <3> QED BY <3>1, <3>2 DEF Ascending
  <2> QED BY <2>2, <2>3
<1>4. Ascending(t)
  BY <1>3 DEF Ascending
<1> QED BY <1>1, <1>4 DEF t

LEMMA TwoLocks ==
  ASSUME NEW a, NEW b, Before(a, b)
  PROVE  <<a, b>> \in Seq(Locks) /\ Ascending(<<a, b>>)
<1>1. <<a, b>> \in Seq(Locks)
  BY BeforeTypes
<1>2. \A i, j \in 1..2 : i < j => i = 1 /\ j = 2
  OBVIOUS
<1>3. Len(<<a, b>>) = 2 /\ <<a, b>>[1] = a /\ <<a, b>>[2] = b
  OBVIOUS
<1> QED BY <1>1, <1>2, <1>3 DEF Ascending

LEMMA ThreeLocks ==
  ASSUME NEW a, NEW b, NEW c, Before(a, b), Before(a, c), Before(b, c)
  PROVE  <<a, b, c>> \in Seq(Locks) /\ Ascending(<<a, b, c>>)
<1>1. <<a, b, c>> \in Seq(Locks)
  BY BeforeTypes
<1>2. \A i, j \in 1..3 : i < j => (i = 1 /\ j \in {2, 3}) \/ (i = 2 /\ j = 3)
  OBVIOUS
<1> DEFINE t == <<a, b, c>>
<1>3. Len(t) = 3 /\ t[1] = a /\ t[2] = b /\ t[3] = c
  OBVIOUS
<1> HIDE DEF t
<1>4. \A i, j \in 1..3 : i < j => Before(t[i], t[j])
  BY <1>2, <1>3
<1>5. Ascending(t)
  BY <1>3, <1>4 DEF Ascending
<1> QED BY <1>1, <1>5 DEF t

\* _lock_wallets, for the accounts of any finite set.
LEMMA WalletsInOrder ==
  ASSUME Ranked, NEW S \in SUBSET Accounts, IsFiniteSet(S), NEW s \in InOrder(S)
  PROVE  /\ s \in Seq({WalletLock(u) : u \in S})
         /\ s \in Seq(Locks) /\ Ascending(s)
<1> DEFINE W == {WalletLock(u) : u \in S}
           n == Cardinality(S)
<1>1. n \in Nat
  BY FS_CardinalityType
<1>2. s \in [1..n -> W] /\ \A i, j \in 1..n : i < j => Rank[s[i][2]] < Rank[s[j][2]]
  BY DEF InOrder
<1>3. W \subseteq Locks
  BY DEF Locks
<1> HIDE DEF n, W
<1>4. s \in Seq(W) /\ Len(s) = n /\ s \in Seq(Locks)
  BY <1>1, <1>2, <1>3
<1>5. ASSUME NEW i \in 1..n, NEW j \in 1..n, i < j
      PROVE  Before(s[i], s[j])
  <2>1. s[i] \in W /\ s[j] \in W /\ Rank[s[i][2]] < Rank[s[j][2]]
    BY <1>2, <1>5
  <2>2. PICK u \in S, v \in S : s[i] = WalletLock(u) /\ s[j] = WalletLock(v)
    BY <2>1 DEF W
  <2>3. s[i][2] = u /\ s[j][2] = v
    BY <2>2 DEF WalletLock
  <2> QED BY <2>1, <2>2, <2>3 DEF Before
<1>6. Ascending(s)
  BY <1>4, <1>5 DEF Ascending
<1> QED BY <1>4, <1>6 DEF W

LEMMA MatchThenWallets ==
  ASSUME Ranked, NEW m \in Matches, NEW S \in SUBSET Accounts, IsFiniteSet(S),
         NEW t \in MatchThen(m, S)
  PROVE  t \in Seq(Locks) /\ Ascending(t)
<1> DEFINE W == {WalletLock(u) : u \in S}
<1>1. PICK s \in InOrder(S) : t = <<MatchLock(m)>> \o s
  BY DEF MatchThen
<1>2. s \in Seq(W) /\ s \in Seq(Locks) /\ Ascending(s)
  BY WalletsInOrder
<1>3. \A l \in W : Before(MatchLock(m), l)
  BY DEF Before
<1>4. MatchLock(m) \in Locks
  BY DEF Locks
<1> HIDE DEF W
<1>5. \A i \in 1..Len(s) : s[i] \in W
  BY <1>2
<1>6. \A i \in 1..Len(s) : Before(MatchLock(m), s[i])
  BY <1>3, <1>5
<1> QED BY <1>1, <1>2, <1>4, <1>6, OneLockMore

LEMMA MethodsAscend ==
  ASSUME Ranked, NEW op \in Operations, NEW t \in LockSequences(op)
  PROVE  t \in Seq(Locks) /\ Ascending(t)
<1> USE DEF Accounts
<1>a. op \in {"vs_house", "single", "join", "merge", "settle", "refund"}
  BY DEF Ranked
<1>1. CASE op = "vs_house"
  <2>1. PICK u \in Users : t = <<WalletLock(u), WalletLock(House)>>
    BY <1>1 DEF LockSequences, CreateVsHouse
  <2>2. Before(WalletLock(u), WalletLock(House))
    BY <1>1 DEF Before, Ranked
  <2> QED BY <2>1, <2>2, TwoLocks
<1>2. CASE op = "single"
  <2>1. PICK u \in Users : t = <<WalletLock(u)>>
    BY <1>2 DEF LockSequences, Single
  <2>2. WalletLock(u) \in Locks
    BY DEF Locks
  <2> QED BY <2>1, <2>2, OneLock
<1>3. CASE op = "join"
  <2>1. PICK m \in Matches, u \in Users : t = <<MatchLock(m), WalletLock(u)>>
    BY <1>3 DEF LockSequences, JoinOrCancel
  <2>2. Before(MatchLock(m), WalletLock(u))
    BY DEF Before
  <2> QED BY <2>1, <2>2, TwoLocks
<1>4. CASE op = "merge"
  <2>1. PICK mn \in {x \in Matches \X Matches : x[1] < x[2]}, u \in Users : t = Merge(mn[1], mn[2], u)
    BY <1>4 DEF LockSequences
  <2> DEFINE a == MatchLock(mn[1])
             b == MatchLock(mn[2])
             c == WalletLock(u)
  <2>2. mn[1] \in Matches /\ mn[2] \in Matches /\ mn[1] < mn[2] /\ u \in Accounts
    BY <2>1
  <2>3. Before(a, b) /\ Before(a, c) /\ Before(b, c) /\ t = <<a, b, c>>
    BY <2>1, <2>2 DEF Before, Merge
  <2> HIDE DEF a, b, c
  <2> QED BY <2>3, ThreeLocks
<1>5. CASE op = "settle"
  <2>1. PICK m \in Matches, x \in Opponents : t \in MatchThen(m, {x[1], x[2], House})
    BY <1>5 DEF LockSequences
  <2>2. {x[1], x[2], House} \in SUBSET Accounts
    BY DEF Opponents
  <2>3. IsFiniteSet({x[1], x[2], House})
    <3>1. IsFiniteSet({x[1]} \cup {x[2]}) /\ IsFiniteSet({House})
      BY FS_Singleton, FS_Union
    <3>2. IsFiniteSet(({x[1]} \cup {x[2]}) \cup {House})
      BY <3>1, FS_Union
    <3>3. ({x[1]} \cup {x[2]}) \cup {House} = {x[1], x[2], House}
      OBVIOUS
    <3> QED BY <3>2, <3>3
  <2> QED BY <2>1, <2>2, <2>3, MatchThenWallets
<1>6. CASE op = "refund"
  <2>1. PICK m \in Matches, x \in Opponents : t \in MatchThen(m, {x[1], x[2]})
    BY <1>6 DEF LockSequences
  <2>2. {x[1], x[2]} \in SUBSET Accounts
    BY DEF Opponents
  <2>3. IsFiniteSet({x[1], x[2]})
    <3>1. IsFiniteSet({x[1]} \cup {x[2]})
      BY FS_Singleton, FS_Union
    <3>2. {x[1]} \cup {x[2]} = {x[1], x[2]}
      OBVIOUS
    <3> QED BY <3>1, <3>2
  <2> QED BY <2>1, <2>2, <2>3, MatchThenWallets
<1> QED BY <1>a, <1>1, <1>2, <1>3, <1>4, <1>5, <1>6

------------------------------------------------------------------------------
LEMMA InitOrdered == LocksInit => Ordered
<1> SUFFICES ASSUME LocksInit PROVE Ordered
  OBVIOUS
<1>1. LocksTypeOK
  BY DEF LocksInit, LocksTypeOK
<1>2. \A p \in Procs : Ascending(wanted[p]) /\ InTurn(p)
  BY DEF LocksInit, Ascending, InTurn
<1> QED BY <1>1, <1>2 DEF Ordered

LEMMA BeginStep ==
  ASSUME Ranked, Ordered, NEW p \in Procs, Begin(p)
  PROVE  Ordered'
<1>0. PICK op \in Operations :
        \E t \in LockSequences(op) : wanted' = [wanted EXCEPT ![p] = t]
  BY DEF Begin
<1>1. PICK t \in LockSequences(op) : wanted' = [wanted EXCEPT ![p] = t]
  BY <1>0
<1>b. held' = held /\ held[p] = {}
  BY DEF Begin, Idle
<1>2. t \in Seq(Locks) /\ Ascending(t)
  BY MethodsAscend
<1>3. LocksTypeOK'
  BY <1>1, <1>2, <1>b DEF Ordered, LocksTypeOK
<1>4. wanted'[p] = t /\ held'[p] = {} /\ \A q \in Procs \ {p} : wanted'[q] = wanted[q]
  BY <1>1, <1>b DEF Ordered, LocksTypeOK
<1>5. \A q \in Procs : Ascending(wanted'[q]) /\ InTurn(q)'
  BY <1>b, <1>2, <1>4 DEF Ordered, InTurn
<1> QED BY <1>3, <1>5 DEF Ordered

LEMMA AcquireStep ==
  ASSUME Ranked, Ordered, NEW p \in Procs, Acquire(p)
  PROVE  Ordered'
<1> DEFINE s == wanted[p]
           a == Head(s)
           t == Tail(s)
<1>1. s \in Seq(Locks) /\ s # <<>> /\ held[p] \in SUBSET Locks /\ Ascending(s) /\ InTurn(p)
  BY DEF Ordered, LocksTypeOK, Acquire
<1>2. held' = [held EXCEPT ![p] = held[p] \cup {a}] /\ wanted' = [wanted EXCEPT ![p] = t]
  BY DEF Acquire
<1>3. a \in Locks /\ t \in Seq(Locks) /\ Len(t) = Len(s) - 1 /\ a = s[1] /\ Len(s) \in Nat
      /\ Len(s) # 0
  BY <1>1
<1>4. \A i \in 1..Len(t) : t[i] = s[i + 1] /\ i + 1 \in 1..Len(s)
  BY <1>1
<1>4a. \A l \in held[p], i \in 1..Len(s) : Before(l, s[i])
  BY <1>1 DEF InTurn
<1>5. LocksTypeOK'
  BY <1>1, <1>2, <1>3 DEF Ordered, LocksTypeOK
<1>6. held'[p] = held[p] \cup {a} /\ wanted'[p] = t
  BY <1>2 DEF Ordered, LocksTypeOK
<1>7. \A q \in Procs \ {p} : wanted'[q] = wanted[q] /\ held'[q] = held[q]
  BY <1>2 DEF Ordered, LocksTypeOK
<1> HIDE DEF s, a, t
<1>8. Ascending(t)
  <2>1. ASSUME NEW i \in 1..Len(t), NEW j \in 1..Len(t), i < j
        PROVE  Before(t[i], t[j])
    <3>1. i + 1 \in 1..Len(s) /\ j + 1 \in 1..Len(s) /\ i + 1 < j + 1
      BY <1>3, <1>4, <2>1
    <3>2. Before(s[i + 1], s[j + 1])
      BY <1>1, <3>1 DEF Ascending
    <3> QED BY <1>4, <3>2
  <2> QED BY <2>1 DEF Ascending
<1>9. \A l \in held'[p] : \A i \in 1..Len(t) : Before(l, t[i])
  <2>1. ASSUME NEW l \in held[p], NEW i \in 1..Len(t)
        PROVE  Before(l, t[i])
    BY <1>4, <1>4a
  <2>2. ASSUME NEW i \in 1..Len(t)
        PROVE  Before(a, t[i])
    <3>1. 1 \in 1..Len(s) /\ i + 1 \in 1..Len(s) /\ 1 < i + 1
      BY <1>3, <1>4
    <3>2. Before(s[1], s[i + 1])
      BY <1>1, <3>1 DEF Ascending
    <3> QED BY <1>3, <1>4, <3>2
  <2> QED BY <1>6, <2>1, <2>2
<1>a. \A q \in Procs : Ascending(wanted'[q]) /\ InTurn(q)'
  <2>1. Ascending(wanted'[p]) /\ InTurn(p)'
    BY <1>6, <1>8, <1>9 DEF InTurn
  <2>2. \A q \in Procs \ {p} : Ascending(wanted'[q]) /\ InTurn(q)'
    BY <1>7 DEF Ordered, InTurn
  <2> QED BY <2>1, <2>2
<1> QED BY <1>5, <1>a DEF Ordered

LEMMA CommitStep ==
  ASSUME Ordered, NEW p \in Procs, CommitTx(p)
  PROVE  Ordered'
<1>1. held' = [held EXCEPT ![p] = {}] /\ wanted' = wanted
  BY DEF CommitTx
<1>2. held'[p] = {} /\ \A q \in Procs \ {p} : held'[q] = held[q]
  BY <1>1 DEF Ordered, LocksTypeOK
<1>3. LocksTypeOK'
  BY <1>1 DEF Ordered, LocksTypeOK
<1>4. \A q \in Procs : Ascending(wanted'[q]) /\ InTurn(q)'
  BY <1>1, <1>2 DEF Ordered, InTurn
<1> QED BY <1>3, <1>4 DEF Ordered

------------------------------------------------------------------------------
\* Among finitely many transactions one wants a lock that no other's comes after.
LEMMA SomeoneIsFirst ==
  ASSUME Ranked, NEW first, NEW S \in SUBSET Procs, S # {}
  PROVE  \E p \in S : \A q \in S : ~Before(first[p], first[q])
<1> DEFINE Last(T, p) == \A q \in T : ~Before(first[p], first[q])
           G == {T \in SUBSET Procs : T = {} \/ \E p \in T : Last(T, p)}
<1>1. ASSUME NEW T \in SUBSET Procs, \A U \in SUBSET T : U # T => U \in G
      PROVE  T \in G
  <2>1. SUFFICES ASSUME T # {} PROVE \E p \in T : Last(T, p)
    OBVIOUS
  <2>2. PICK x \in T : TRUE
    BY <2>1
  <2>3. T \ {x} \in G /\ T \ {x} \in SUBSET T
    BY <1>1, <2>2
  <2>4. ~Before(first[x], first[x])
    BY BeforeStrict
  <2>5. CASE T \ {x} = {}
    BY <2>2, <2>4, <2>5
  <2>6. CASE T \ {x} # {}
    <3>1. PICK p \in T \ {x} : Last(T \ {x}, p)
      BY <2>3, <2>6
    <3>2. CASE ~Before(first[p], first[x])
      BY <3>1, <3>2
    <3>3. CASE Before(first[p], first[x])
      <4>1. ASSUME NEW q \in T, Before(first[x], first[q])
            PROVE  FALSE
        <5>1. q # x
          BY <2>4, <4>1
        <5>2. Before(first[p], first[q])
          BY <3>3, <4>1, BeforeStrict
        <5> QED BY <3>1, <5>1, <5>2
      <4> QED BY <4>1
    <3> QED BY <3>2, <3>3
  <2> QED BY <2>5, <2>6
<1>2. IsFiniteSet(Procs)
  BY DEF Ranked
<1> HIDE DEF G
<1>3. S \in G
  BY <1>1, <1>2, SubsetInduction
<1> QED BY <1>3 DEF G

LEMMA NoCircle == ASSUME Ranked, Ordered PROVE NoInterlock
<1> SUFFICES ASSUME NEW S \in (SUBSET Procs) \ {{}},
                    \A p \in S : \E q \in S \ {p} : WaitsFor(p, q)
             PROVE  FALSE
  BY DEF NoInterlock
<1> DEFINE first == [p \in Procs |-> Head(wanted[p])]
<1>1. PICK p \in S : \A q \in S : ~Before(first[p], first[q])
  <2>1. S \in SUBSET Procs /\ S # {}
    OBVIOUS
  <2> HIDE DEF first
  <2> QED BY <2>1, SomeoneIsFirst
<1>2. PICK q \in S : WaitsFor(p, q)
  OBVIOUS
<1>3. WaitsFor(p, q) /\ wanted[q] # <<>>
  BY <1>2 DEF WaitsFor
<1>4. wanted[q] \in Seq(Locks) /\ p \in Procs /\ q \in Procs /\ InTurn(q)
  BY DEF Ordered, LocksTypeOK
<1>5. Head(wanted[q]) = wanted[q][1] /\ 1 \in 1..Len(wanted[q])
  BY <1>3, <1>4
<1>6. Before(Head(wanted[p]), Head(wanted[q]))
  BY <1>3, <1>4, <1>5 DEF InTurn, WaitsFor
<1> QED BY <1>1, <1>4, <1>6

------------------------------------------------------------------------------
\* However many transactions run, those of matchmaking, resolution and payments never
\* wait for one another in a circle, if the wallet of the house comes last or no match
\* against the AI is created.
THEOREM TransactionsNeverInterlock == Ranked => (LocksSpec => []NoInterlock)
<1> SUFFICES ASSUME Ranked PROVE LocksSpec => []NoInterlock
  OBVIOUS
<1>1. LocksInit => Ordered
  BY InitOrdered
<1>2. Ordered /\ [LocksNext]_lockVars => Ordered'
  <2> SUFFICES ASSUME Ordered, [LocksNext]_lockVars PROVE Ordered'
    OBVIOUS
  <2>1. CASE LocksNext
    BY <2>1, BeginStep, AcquireStep, CommitStep DEF LocksNext
  <2>2. CASE UNCHANGED lockVars
    BY <2>2 DEF lockVars, Ordered, LocksTypeOK, InTurn, Ascending
  <2> QED BY <2>1, <2>2
<1>3. Ordered => NoInterlock
  BY NoCircle
<1> QED BY <1>1, <1>2, <1>3, PTL DEF LocksSpec

------------------------------------------------------------------------------
\* THE TURNS OF A MATCH.


\* A match under way has a move left.
Unfinished == Active(match) => match.seq < MaxMoves

\* One connection at a time: a player has one browser, and one that is live
\* has written its event after the last DISCONNECT.
OneBrowser ==
  ~Overlap => \A s \in Sockets :
    /\ \A r \in Sockets : socket[s] # "none" /\ socket[r] # "none"
                          /\ Owner[s] = Owner[r] => s = r
    /\ socket[s] = "live" => ~presence[Owner[s]].out

\* The inductive invariant.
IInv == TypeOK /\ Unfinished /\ TimerArmed /\ OneBrowser

\* What a transaction that plays one or two moves may make of the row m.
Progress(m, n) ==
  /\ n \in Row
  /\ n.seq > m.seq
  /\ Active(n) => n.seq < MaxMoves

USE DEF Turns, Players, Active

\* A move takes the row to the next turn or ends the match.
LEMMA OneMove ==
  ASSUME NEW m \in Row, m.seq < MaxMoves, NEW n \in AfterMove(m)
  PROVE  Progress(m, n)
<1> USE BoundsAssumption DEF Row
<1>1. Moved(m) \in Row /\ Moved(m).seq = m.seq + 1 /\ Moved(m).status = m.status
  <2>1. m.seq + 1 \in Turns /\ 1 - m.mover \in Players
    OBVIOUS
  <2> QED BY <2>1 DEF Moved
<1>2. CASE n = [Moved(m) EXCEPT !.status = "COMPLETED"]
  BY <1>1, <1>2 DEF Progress
<1>3. CASE n = Moved(m) /\ n.seq < MaxMoves
  BY <1>1, <1>3 DEF Progress
<1> QED BY <1>2, <1>3 DEF AfterMove

\* So does a move with the answer of the house.
LEMMA OneTurn ==
  ASSUME NEW m \in Row, m.seq < MaxMoves, NEW n \in AfterTurn(m)
  PROVE  Progress(m, n)
<1>1. PICK k \in AfterMove(m) : n \in Answers(k)
  BY DEF AfterTurn
<1>2. Progress(m, k)
  BY <1>1, OneMove
<1>3. CASE HousesTurn(k)
  <2>1. k \in Row /\ k.seq < MaxMoves
    BY <1>2, <1>3 DEF Progress, HousesTurn
  <2>2. Progress(k, n)
    BY <1>1, <1>3, <2>1, OneMove DEF Answers
  <2> QED BY <1>2, <2>2, BoundsAssumption DEF Progress, Row
<1>4. CASE ~HousesTurn(k)
  BY <1>1, <1>2, <1>4 DEF Answers
<1> QED BY <1>3, <1>4

\* What Commit does to the row and to the timer of its turn.
LEMMA CommitEffect ==
  ASSUME TypeOK, TimerArmed, NEW n, NEW p \in Players,
         NEW c \in {"player", "forfeit", "operator", "timer", "absence"},
         Commit(n, c, p),
         n \in Row, n.seq >= match.seq, Active(n) => n.seq > match.seq /\ n.seq < MaxMoves
  PROVE  /\ match' \in Row /\ match'.cause = c /\ match'.whose = p
         /\ expired' \in BOOLEAN /\ unpublished' \subseteq Turns
         /\ Active(match)' => match'.seq < MaxMoves
         /\ Active(match)' /\ game.timing = "REALTIME" => match'.seq \in unpublished'
<1> USE BoundsAssumption DEF Row
<1>1. match' = [n EXCEPT !.cause = c, !.whose = p]
  BY DEF Commit
<1>2. /\ match' \in Row /\ match'.cause = c /\ match'.whose = p
      /\ match'.seq = n.seq /\ match'.status = n.status
  BY <1>1
<1>3. match \in Row /\ Armed(match, n) \subseteq Turns
  BY DEF Armed, TypeOK
<1>4. Active(n) => n.seq \in Armed(match, n)
  BY <1>3 DEF Armed
<1>5. expired' \in BOOLEAN
  BY DEF Commit, TypeOK
<1>6. unpublished' \subseteq Turns
  BY <1>3 DEF Commit, TypeOK
<1>7. Active(n) /\ game.timing = "REALTIME" => n.seq \in unpublished'
  BY <1>4 DEF Commit
<1> QED BY <1>2, <1>5, <1>6, <1>7

\* A transaction on the row keeps the invariant, if it loses no one's presence
\* and adds no task.
LEMMA CommitKeepsIInv ==
  ASSUME IInv, NEW n, NEW p \in Players,
         NEW c \in {"player", "forfeit", "operator", "timer", "absence"},
         Commit(n, c, p),
         n \in Row, n.seq >= match.seq, Active(n) => n.seq > match.seq /\ n.seq < MaxMoves,
         tasks' \subseteq tasks, grace' \subseteq grace,
         UNCHANGED <<game, presence, socket, faults>>
  PROVE  IInv'
<1> USE DEF IInv
<1>1. /\ match' \in Row
      /\ expired' \in BOOLEAN /\ unpublished' \subseteq Turns
      /\ Active(match)' => match'.seq < MaxMoves
      /\ Active(match)' /\ game.timing = "REALTIME" => match'.seq \in unpublished'
  BY CommitEffect
<1>2. TypeOK'
  BY <1>1 DEF TypeOK, Row
<1>3. Unfinished'
  BY <1>1 DEF Unfinished
<1>4. TimerArmed'
  BY <1>1 DEF TimerArmed
<1>5. OneBrowser'
  BY DEF OneBrowser
<1> QED BY <1>2, <1>3, <1>4, <1>5

\* A step that leaves the row and the connections alone keeps the invariant, if
\* it counts a fault or leaves the current turn its task.
LEMMA TimerKeepsIInv ==
  ASSUME IInv, UNCHANGED <<game, match, presence, socket>>,
         expired' \in BOOLEAN, unpublished' \subseteq Turns, tasks' \subseteq Turns,
         grace' \subseteq grace, faults' \in 0..MaxFaults,
         \/ faults' # 0
         \/ faults' = faults
            /\ (match.seq \in unpublished \cup tasks /\ Active(match)
                 => match.seq \in unpublished' \cup tasks')
  PROVE  IInv'
<1> USE DEF IInv
<1>1. TypeOK'
  BY DEF TypeOK, Row
<1>2. Unfinished'
  BY DEF Unfinished
<1>3. TimerArmed'
  BY DEF TimerArmed
<1>4. OneBrowser'
  BY DEF OneBrowser
<1> QED BY <1>1, <1>2, <1>3, <1>4

\* So does a step of the connections and their events.
LEMMA SocketKeepsIInv ==
  ASSUME IInv, UNCHANGED <<game, match, expired, unpublished, tasks>>,
         presence' \in [Players -> [out : BOOLEAN, drops : 0..MaxDrops, graced : BOOLEAN]],
         socket' \in [Sockets -> {"none", "accepted", "live", "gone"}],
         grace' \subseteq Players \X (1..MaxDrops),
         faults' \in {faults, faults + 1}, faults' \in 0..MaxFaults,
         OneBrowser'
  PROVE  IInv'
<1> USE DEF IInv
<1>1. TypeOK'
  BY DEF TypeOK, Row
<1>2. Unfinished'
  BY DEF Unfinished
<1>3. TimerArmed'
  BY DEF TimerArmed, TypeOK
<1> QED BY <1>1, <1>2, <1>3

\* The moves a transaction makes of a match under way.
LEMMA TurnOfMatch ==
  ASSUME TypeOK, Unfinished, Active(match), NEW n,
         n \in AfterTurn(match) \/ n \in AfterMove(match)
  PROVE  n \in Row /\ n.seq > match.seq /\ (Active(n) => n.seq < MaxMoves)
<1>1. match \in Row /\ match.seq < MaxMoves
  BY DEF TypeOK, Unfinished
<1>2. Progress(match, n)
  BY <1>1, OneTurn, OneMove
<1> QED BY <1>2 DEF Progress

\* A match that is stopped makes no move.
LEMMA StopOfMatch ==
  ASSUME TypeOK, NEW s \in {"COMPLETED", "CANCELLED"}
  PROVE  LET n == [match EXCEPT !.status = s]
         IN  n \in Row /\ n.seq = match.seq /\ ~Active(n)
BY DEF TypeOK, Row

------------------------------------------------------------------------------
\* The steps.

LEMMA InitIInv == Init => IInv
<1> SUFFICES ASSUME Init PROVE IInv
  OBVIOUS
<1> USE BoundsAssumption, GamesAssumption, OwnerAssumption DEF Init
<1>1. TypeOK
  <2>1. match \in Row
    BY DEF Row
  <2>2. /\ presence \in [Players -> [out : BOOLEAN, drops : 0..MaxDrops, graced : BOOLEAN]]
        /\ socket \in [Sockets -> {"none", "accepted", "live", "gone"}]
    OBVIOUS
  <2>3. unpublished \subseteq Turns /\ tasks \subseteq Turns /\ faults \in 0..MaxFaults
    OBVIOUS
  <2> QED BY <2>1, <2>2, <2>3 DEF TypeOK
<1>2. Unfinished /\ TimerArmed
  BY DEF Unfinished, TimerArmed
<1>3. OneBrowser
  BY DEF OneBrowser
<1> QED BY <1>1, <1>2, <1>3 DEF IInv

LEMMA RequestStep == IInv /\ Request => IInv'
<1> SUFFICES ASSUME IInv, Request PROVE IInv'
  OBVIOUS
<1> USE DEF IInv, online
<1>1. ASSUME NEW p \in Players, PlayMove(p) PROVE IInv'
  <2>1. PICK n \in AfterTurn(match) : Commit(n, "player", p)
    BY <1>1 DEF PlayMove
  <2>2. n \in Row /\ n.seq > match.seq /\ (Active(n) => n.seq < MaxMoves)
    BY <1>1, TurnOfMatch DEF PlayMove
  <2>3. n.seq >= match.seq
    BY <2>2 DEF TypeOK, Row
  <2>4. UNCHANGED <<game, presence, socket, faults>> /\ tasks' \subseteq tasks
        /\ grace' \subseteq grace
    BY <1>1 DEF PlayMove
  <2> QED BY <2>1, <2>2, <2>3, <2>4, CommitKeepsIInv
<1>2. ASSUME NEW p \in Players, Forfeit(p) PROVE IInv'
  <2> DEFINE n == [match EXCEPT !.status = "COMPLETED"]
  <2>1. n \in Row /\ n.seq = match.seq /\ ~Active(n)
    BY StopOfMatch
  <2>2. Commit(n, "forfeit", p)
    BY <1>2 DEF Forfeit
  <2>3. UNCHANGED <<game, presence, socket, faults>> /\ tasks' \subseteq tasks
        /\ grace' \subseteq grace
    BY <1>2 DEF Forfeit
  <2>4. n.seq >= match.seq
    BY <2>1 DEF TypeOK, Row
  <2> HIDE DEF n
  <2> QED BY <2>1, <2>2, <2>3, <2>4, CommitKeepsIInv
<1>3. ASSUME VoidMatch PROVE IInv'
  <2> DEFINE n == [match EXCEPT !.status = "CANCELLED"]
  <2>1. n \in Row /\ n.seq = match.seq /\ ~Active(n)
    BY StopOfMatch
  <2>2. Commit(n, "operator", 0)
    BY <1>3 DEF VoidMatch
  <2>3. UNCHANGED <<game, presence, socket, faults>> /\ tasks' \subseteq tasks
        /\ grace' \subseteq grace
    BY <1>3 DEF VoidMatch
  <2>4. n.seq >= match.seq
    BY <2>1 DEF TypeOK, Row
  <2> HIDE DEF n
  <2> QED BY <2>1, <2>2, <2>3, <2>4, CommitKeepsIInv
<1> QED BY <1>1, <1>2, <1>3 DEF Request

LEMMA TimerStep == IInv /\ Timer => IInv'
<1> SUFFICES ASSUME IInv, Timer PROVE IInv'
  OBVIOUS
<1> USE BoundsAssumption DEF IInv, online
<1>1. ASSUME Expire PROVE IInv'
  BY <1>1, TimerKeepsIInv DEF Expire, TypeOK
<1>2. ASSUME NEW t \in Turns, Publish(t) PROVE IInv'
  BY <1>2, TimerKeepsIInv DEF Publish, TypeOK
<1>3. ASSUME NEW t \in Turns, PublishCrash(t) PROVE IInv'
  <2>1. faults' \in 0..MaxFaults /\ faults' # 0
    BY <1>3 DEF PublishCrash, TypeOK
  <2> QED BY <1>3, <2>1, TimerKeepsIInv DEF PublishCrash, TypeOK
<1>4. ASSUME NEW t \in Turns, LoseTask(t) PROVE IInv'
  <2>1. faults' \in 0..MaxFaults /\ faults' # 0
    BY <1>4 DEF LoseTask, TypeOK
  <2> QED BY <1>4, <2>1, TimerKeepsIInv DEF LoseTask, TypeOK
<1>5. ASSUME NEW t \in Turns, RunMoveTimeout(t), TimedOut PROVE IInv'
  <2>1. PICK n \in AfterTurn(match) : Commit(n, "timer", match.mover)
    BY <1>5 DEF RunMoveTimeout
  <2>2. n \in Row /\ n.seq > match.seq /\ (Active(n) => n.seq < MaxMoves)
    BY <1>5, TurnOfMatch DEF TimedOut
  <2>3. n.seq >= match.seq /\ match.mover \in Players
    BY <2>2 DEF TypeOK, Row
  <2>4. UNCHANGED <<game, presence, socket, faults>> /\ tasks' \subseteq tasks
        /\ grace' \subseteq grace
    BY <1>5 DEF RunMoveTimeout
  <2> QED BY <2>1, <2>2, <2>3, <2>4, CommitKeepsIInv
<1>6. ASSUME NEW t \in Turns, RunMoveTimeout(t), ~TimedOut PROVE IInv'
  <2>1. UNCHANGED <<game, match, expired, unpublished, presence, grace, socket, faults>>
        /\ tasks' \in {tasks, tasks \ {t}}
    BY <1>6 DEF RunMoveTimeout
  <2>2. Active(match) => t # match.seq
    BY <1>6 DEF RunMoveTimeout, TimedOut, TypeOK, Row
  <2> QED BY <2>1, <2>2, TimerKeepsIInv DEF TypeOK
<1> QED BY <1>1, <1>2, <1>3, <1>4, <1>5, <1>6 DEF Timer

LEMMA PresenceStep == IInv /\ Presence => IInv'
<1> SUFFICES ASSUME IInv, Presence PROVE IInv'
  OBVIOUS
<1> USE BoundsAssumption, OwnerAssumption DEF IInv, clock
<1>1. ASSUME NEW s \in Sockets, Connect(s) PROVE IInv'
  <2>1. OneBrowser'
    BY <1>1 DEF Connect, OneBrowser, TypeOK
  <2> QED BY <1>1, <2>1, SocketKeepsIInv DEF Connect, TypeOK
<1>2. ASSUME NEW s \in Sockets, OnConnect(s) PROVE IInv'
  <2>1. OneBrowser'
    BY <1>2 DEF OnConnect, OneBrowser, TypeOK
  <2>2. presence' \in [Players -> [out : BOOLEAN, drops : 0..MaxDrops, graced : BOOLEAN]]
    <3> DEFINE P == [out : BOOLEAN, drops : 0..MaxDrops, graced : BOOLEAN]
               there == [presence[Owner[s]] EXCEPT !.out = FALSE]
    <3>1. presence \in [Players -> P] /\ Owner[s] \in Players
      BY DEF TypeOK
    <3>2. presence' = [presence EXCEPT ![Owner[s]] = there]
      BY <1>2 DEF OnConnect
    <3>3. there \in P
      BY <3>1
    <3> HIDE DEF P, there
    <3>4. presence' \in [Players -> P]
      BY <3>1, <3>2, <3>3
    <3> QED BY <3>4 DEF P
  <2>3. socket' \in [Sockets -> {"none", "accepted", "live", "gone"}]
    BY <1>2 DEF OnConnect, TypeOK
  <2>4. UNCHANGED <<game, match, expired, unpublished, tasks, grace, faults>>
    BY <1>2 DEF OnConnect
  <2> QED BY <2>1, <2>2, <2>3, <2>4, SocketKeepsIInv DEF TypeOK
<1>3. ASSUME NEW s \in Sockets, Leave(s) PROVE IInv'
  <2>1. OneBrowser'
    BY <1>3 DEF Leave, OneBrowser, TypeOK
  <2> QED BY <1>3, <2>1, SocketKeepsIInv DEF Leave, TypeOK
<1>4. ASSUME NEW s \in Sockets, OnDisconnect(s) PROVE IInv'
  <2>1. OneBrowser'
    BY <1>4 DEF OnDisconnect, OneBrowser, TypeOK
  <2>2. presence[Owner[s]].drops + 1 \in 1..MaxDrops
    BY <1>4 DEF OnDisconnect, TypeOK
  <2> QED BY <1>4, <2>1, <2>2, SocketKeepsIInv DEF OnDisconnect, TypeOK
<1>5. ASSUME NEW s \in Sockets, SocketCrash(s) PROVE IInv'
  <2>1. OneBrowser'
    BY <1>5 DEF SocketCrash, OneBrowser, TypeOK
  <2>2. faults' \in 0..MaxFaults
    BY <1>5 DEF SocketCrash, TypeOK
  <2> QED BY <1>5, <2>1, <2>2, SocketKeepsIInv DEF SocketCrash, TypeOK
<1>6. ASSUME NEW p \in Players, GraceElapse(p) PROVE IInv'
  <2>1. OneBrowser'
    BY <1>6 DEF GraceElapse, OneBrowser, TypeOK
  <2> QED BY <1>6, <2>1, SocketKeepsIInv DEF GraceElapse, TypeOK
<1>7. ASSUME NEW p \in Players, NEW e \in 1..MaxDrops, LoseGrace(p, e) PROVE IInv'
  <2>1. OneBrowser'
    BY <1>7 DEF LoseGrace, OneBrowser
  <2>2. faults' \in 0..MaxFaults
    BY <1>7 DEF LoseGrace, TypeOK
  <2> QED BY <1>7, <2>1, <2>2, SocketKeepsIInv DEF LoseGrace, TypeOK
<1>8. ASSUME NEW p \in Players, NEW e \in 1..MaxDrops, RunDisconnectTimeout(p, e)
      PROVE  IInv'
  <2>1. UNCHANGED <<game, presence, socket, faults>> /\ tasks' \subseteq tasks
        /\ tasks' = tasks /\ grace' \subseteq grace
    BY <1>8 DEF RunDisconnectTimeout
  <2>2. ASSUME UNCHANGED <<match, expired, unpublished>> PROVE IInv'
    BY <2>1, <2>2, TimerKeepsIInv DEF TypeOK
  <2>3. ASSUME Commit([match EXCEPT !.status = "CANCELLED"], "absence", p) PROVE IInv'
    <3> DEFINE n == [match EXCEPT !.status = "CANCELLED"]
    <3>1. n \in Row /\ n.seq = match.seq /\ ~Active(n)
      BY StopOfMatch
    <3>2. n.seq >= match.seq
      BY <3>1 DEF TypeOK, Row
    <3>3. Commit(n, "absence", p)
      BY <2>3
    <3> HIDE DEF n
    <3> QED BY <2>1, <3>1, <3>2, <3>3, CommitKeepsIInv
  <2>4. ASSUME Active(match), NEW n \in AfterMove(match), Commit(n, "absence", p)
        PROVE  IInv'
    <3>1. n \in Row /\ n.seq > match.seq /\ (Active(n) => n.seq < MaxMoves)
      BY <2>4, TurnOfMatch
    <3>2. n.seq >= match.seq
      BY <3>1 DEF TypeOK, Row
    <3> QED BY <2>1, <2>4, <3>1, <3>2, CommitKeepsIInv
  <2> QED BY <1>8, <2>2, <2>3, <2>4 DEF RunDisconnectTimeout, AutoFinish
<1> QED BY <1>1, <1>2, <1>3, <1>4, <1>5, <1>6, <1>7, <1>8 DEF Presence

LEMMA StutterStep == IInv /\ UNCHANGED vars => IInv'
BY DEF vars, IInv, TypeOK, Row, Unfinished, TimerArmed, OneBrowser

\* The inductive invariant: the turn under way keeps its task, and a player who
\* has one browser is not marked absent while it is live.
THEOREM InductiveInvariant == Spec => []IInv
<1>1. IInv /\ [Next]_vars => IInv'
  BY RequestStep, TimerStep, PresenceStep, StutterStep DEF Next
<1> QED BY <1>1, InitIInv, PTL DEF Spec

\* Every variable stays in its type (the fields of Match and MatchEvent).
THEOREM TypeCorrect == Spec => []TypeOK
<1>1. IInv => TypeOK
  BY DEF IInv
<1> QED BY <1>1, InductiveInvariant, PTL

\* Whoever moved last, _arm_deadline or _start left the current turn of a
\* realtime match a timeout task that is not consumed before it acts.
THEOREM TimerIsArmed == Spec => []TimerArmed
<1>1. IInv => TimerArmed
  BY DEF IInv
<1> QED BY <1>1, InductiveInvariant, PTL

------------------------------------------------------------------------------
\* Who may change the match.

LEMMA CommitCause ==
  ASSUME NEW n \in Row, NEW p, NEW c, Commit(n, c, p)
  PROVE  match'.cause = c /\ match'.whose = p
BY DEF Commit, Row

\* The match only changes while it is under way: for a request, for a turn whose
\* deadline has passed, or for a player whose last event is a disconnection with
\* its grace over.
LEMMA Causes ==
  ASSUME IInv, [Next]_vars, match' # match
  PROVE  /\ Active(match)
         /\ \/ match'.cause \in {"player", "forfeit", "operator"}
            \/ match'.cause = "timer" /\ expired
            \/ /\ match'.cause = "absence" /\ match'.whose \in Players
               /\ presence[match'.whose].out /\ presence[match'.whose].graced
<1> USE DEF IInv, online, clock
<1>1. ASSUME NEW p \in Players, PlayMove(p)
      PROVE  Active(match) /\ match'.cause = "player"
  BY <1>1, TurnOfMatch, CommitCause DEF PlayMove
<1>2. ASSUME NEW p \in Players, Forfeit(p)
      PROVE  Active(match) /\ match'.cause = "forfeit"
  BY <1>2, StopOfMatch, CommitCause DEF Forfeit
<1>3. ASSUME VoidMatch PROVE Active(match) /\ match'.cause = "operator"
  BY <1>3, StopOfMatch, CommitCause DEF VoidMatch
<1>4. ASSUME NEW t \in Turns, RunMoveTimeout(t)
      PROVE  Active(match) /\ match'.cause = "timer" /\ expired
  <2>1. TimedOut /\ \E n \in AfterTurn(match) : Commit(n, "timer", match.mover)
    BY <1>4 DEF RunMoveTimeout
  <2> QED BY <2>1, TurnOfMatch, CommitCause DEF TimedOut
<1>5. ASSUME NEW p \in Players, NEW e \in 1..MaxDrops, RunDisconnectTimeout(p, e)
      PROVE  /\ Active(match) /\ match'.cause = "absence" /\ match'.whose = p
             /\ presence[p].out /\ presence[p].graced
  <2>1. Active(match) /\ StillAway(p, e)
    BY <1>5 DEF RunDisconnectTimeout
  <2>2. presence[p].out /\ presence[p].graced
    <3>1. presence[p].out /\ presence[p].drops = e /\ presence[p].drops \in Int
      BY <2>1 DEF StillAway, TypeOK
    <3> QED BY <1>5, <3>1 DEF RunDisconnectTimeout
  <2>3. \/ Commit([match EXCEPT !.status = "CANCELLED"], "absence", p)
        \/ \E n \in AfterMove(match) : Commit(n, "absence", p)
    BY <1>5, <2>1 DEF RunDisconnectTimeout, AutoFinish
  <2>4. match'.cause = "absence" /\ match'.whose = p
    BY <2>1, <2>3, TurnOfMatch, StopOfMatch, CommitCause
  <2> QED BY <2>1, <2>2, <2>4
<1>6. \/ \E p \in Players : PlayMove(p) \/ Forfeit(p)
      \/ VoidMatch
      \/ \E t \in Turns : RunMoveTimeout(t)
      \/ \E p \in Players, e \in 1..MaxDrops : RunDisconnectTimeout(p, e)
  BY DEF Next, Request, Timer, Presence, vars, Expire, Publish, PublishCrash, LoseTask,
         Connect, OnConnect, Leave, OnDisconnect, SocketCrash, GraceElapse, LoseGrace
<1> QED BY <1>1, <1>2, <1>3, <1>4, <1>5, <1>6

\* run_move_timeout checks the deadline again, so a late, repeated or stale task
\* never takes time from the turn it meets.
THEOREM TurnsGetTheirTime == Spec => TurnGetsItsTime
<1>1. IInv /\ [Next]_vars => (match' # match /\ match'.cause = "timer" => expired)
  BY Causes
<1> QED BY <1>1, InductiveInvariant, PTL DEF Spec, TurnGetsItsTime

\* on_disconnect_timeout compares its event with the last one, so the timer of
\* an earlier disconnection does not shorten the grace of the current one.
THEOREM GracesAreWhole == Spec => GraceIsWhole
<1>1. IInv /\ [Next]_vars
        => (match' # match /\ match'.cause = "absence" => presence[match'.whose].graced)
  BY Causes
<1> QED BY <1>1, InductiveInvariant, PTL DEF Spec, GraceIsWhole

\* Every handler reads the status under the lock: what is over stays as it ended.
THEOREM EndedStays == Spec => OverIsOver
<1>1. IInv /\ [Next]_vars => (~Active(match) => UNCHANGED match)
  BY Causes
<1> QED BY <1>1, InductiveInvariant, PTL DEF Spec, OverIsOver

\* With one connection at a time the last presence event tells who is there, and
\* nobody who is there is treated as absent.
THEOREM NobodyPresentIsForced ==
  ASSUME ~Overlap
  PROVE  Spec => PresentNotForced
<1>1. IInv /\ [Next]_vars
        => (match' # match /\ match'.cause = "absence" => ~Connected(match'.whose))
  BY Causes DEF IInv, OneBrowser, Connected
<1> QED BY <1>1, InductiveInvariant, PTL DEF Spec, PresentNotForced
==============================================================================
