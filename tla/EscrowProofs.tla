---------------------------- MODULE EscrowProofs -----------------------------
(***************************************************************************)
(* Theorems about Escrow, for every set of players, stakes and codes and   *)
(* any number of matches and workers: the francs that are locked are those *)
(* at stake; Escrow implements Wager; a private challenge starts only for  *)
(* a holder of its code; and every balance is the sum of its ledger rows.  *)
(***************************************************************************)
EXTENDS EscrowWager, TotalsProofs, FiniteSetTheorems, TLAPS

------------------------------------------------------------------------------
\* Arithmetic and counting.

\* A rake of at most 100 percent is between nothing and the pot.
LEMMA RakeBounds ==
  ASSUME NEW pot \in Nat, NEW q, NEW percent \in 0..100
  PROVE  Rake(pot, q, percent) \in 0..pot
<1>1. pot * percent \in 0..(pot * 100)
  OBVIOUS
<1>2. (pot * percent) \div 100 \in 0..pot
  BY <1>1
<1>3. QED
  BY <1>2 DEF Rake

\* A stake of b francs in match m is b elements.
LEMMA StakeSize ==
  ASSUME NEW m, NEW b \in Nat
  PROVE  /\ IsFiniteSet({m} \X (1..b))
         /\ Cardinality({m} \X (1..b)) = b
<1>1. IsFiniteSet({m}) /\ Cardinality({m}) = 1
  BY FS_Singleton
<1>2. IsFiniteSet(1..b) /\ Cardinality(1..b) = b
  BY FS_Interval
<1>3. /\ IsFiniteSet({m} \X (1..b))
      /\ Cardinality({m} \X (1..b)) = Cardinality({m}) * Cardinality(1..b)
  BY <1>1, <1>2, FS_Product, Zenon
<1>4. QED
  BY <1>1, <1>2, <1>3

\* What one row contributes to the francs u has staked in pocket q.
Share(row, u, q) ==
  IF u \in Holders(row) /\ row.kind = q THEN row.bet ELSE 0

\* The francs of a table are those of one of its rows and those of the others.
LEMMA SplitFrancs ==
  ASSUME NEW t, NEW m \in Matches, t[m].bet \in Nat, NEW u, NEW q,
         IsFiniteSet(Francs(t, u, q))
  PROVE  LET rest == UNION {{k} \X (1..t[k].bet) : k \in Staked(t, u, q) \ {m}}
         IN  /\ IsFiniteSet(rest)
             /\ Cardinality(Francs(t, u, q)) = Cardinality(rest) + Share(t[m], u, q)
<1> DEFINE rest == UNION {{k} \X (1..t[k].bet) : k \in Staked(t, u, q) \ {m}}
           own  == {m} \X (1..t[m].bet)
<1>1. IsFiniteSet(rest)
  <2>1. rest \in SUBSET Francs(t, u, q)
    BY DEF Francs
  <2>2. QED
    BY <2>1, FS_Subset
<1>2. IsFiniteSet(own) /\ Cardinality(own) = t[m].bet
  BY StakeSize
<1>3. CASE m \in Staked(t, u, q)
  <2>1. Francs(t, u, q) = rest \cup own
    BY <1>3 DEF Francs
  <2>2. rest \cap own = {}
    OBVIOUS
  <2>3. Cardinality(rest \cup own)
          = Cardinality(rest) + Cardinality(own) - Cardinality(rest \cap own)
    BY <1>1, <1>2, FS_Union, Zenon
  <2>4. Cardinality(rest \cap own) = 0
    BY <2>2, FS_EmptySet
  <2>5. Cardinality(rest) \in Nat /\ Cardinality(own) \in Nat
    BY <1>1, <1>2, FS_CardinalityType
  <2>6. Share(t[m], u, q) = t[m].bet
    BY <1>3 DEF Staked, Share
  <2>7. QED
    BY <1>1, <1>2, <2>1, <2>3, <2>4, <2>5, <2>6
<1>4. CASE m \notin Staked(t, u, q)
  <2>1. Francs(t, u, q) = rest
    BY <1>4 DEF Francs
  <2>2. Share(t[m], u, q) = 0
    BY <1>4 DEF Staked, Share
  <2>3. QED
    BY <1>1, <2>1, <2>2, FS_CardinalityType
<1>5. QED
  BY <1>3, <1>4

\* Changing one row changes the count by the change of that row's share.
LEMMA OneRow ==
  ASSUME NEW t1, NEW t2, NEW m \in Matches,
         t1[m].bet \in Nat, t2[m].bet \in Nat,
         \A k \in Matches \ {m} : t2[k] = t1[k],
         NEW u, NEW q, IsFiniteSet(Francs(t1, u, q))
  PROVE  /\ IsFiniteSet(Francs(t2, u, q))
         /\ Cardinality(Francs(t2, u, q)) + Share(t1[m], u, q)
              = Cardinality(Francs(t1, u, q)) + Share(t2[m], u, q)
<1> DEFINE rest(t) == UNION {{k} \X (1..t[k].bet) : k \in Staked(t, u, q) \ {m}}
           own == {m} \X (1..t2[m].bet)
<1>1. rest(t2) = rest(t1)
  <2>1. Staked(t2, u, q) \ {m} = Staked(t1, u, q) \ {m}
    BY DEF Staked
  <2>2. \A k \in Staked(t1, u, q) \ {m} : t2[k] = t1[k]
    BY DEF Staked
  <2>3. QED
    BY <2>1, <2>2
<1>2. /\ IsFiniteSet(rest(t1))
      /\ Cardinality(Francs(t1, u, q)) = Cardinality(rest(t1)) + Share(t1[m], u, q)
  BY SplitFrancs
<1>3. IsFiniteSet(Francs(t2, u, q))
  <2>1. Francs(t2, u, q) \in SUBSET (rest(t2) \cup own)
    BY DEF Francs
  <2>2. IsFiniteSet(rest(t2) \cup own)
    BY <1>1, <1>2, StakeSize, FS_Union
  <2>3. QED
    BY <2>1, <2>2, FS_Subset
<1>4. /\ IsFiniteSet(rest(t2))
      /\ Cardinality(Francs(t2, u, q)) = Cardinality(rest(t2)) + Share(t2[m], u, q)
  BY <1>3, SplitFrancs
<1>5. Share(t1[m], u, q) \in Nat /\ Share(t2[m], u, q) \in Nat
  BY DEF Share
<1>6. Cardinality(rest(t1)) \in Nat
  BY <1>2, FS_CardinalityType
<1>7. QED
  BY <1>1, <1>2, <1>3, <1>4, <1>5, <1>6

------------------------------------------------------------------------------
\* What the wallet operations return.

LEMMA CreditEffect ==
  ASSUME NEW w \in Wallets, NEW u \in Accounts, NEW q \in Pockets, NEW x \in Nat
  PROVE  /\ Credit(w, u, q, x) \in Wallets
         /\ \A v \in Accounts, p \in Pockets :
              Credit(w, u, q, x)[v][p].locked = w[v][p].locked
  BY DEF Credit, Wallets, Balance

LEMMA ReserveEffect ==
  ASSUME NEW w \in Wallets, NEW u \in Accounts, NEW x \in Nat, CanReserve(w, u, x)
  PROVE  /\ Reserve(w, u, x) \in Wallets
         /\ \A v \in Accounts, p \in Pockets :
              Reserve(w, u, x)[v][p].locked = w[v][p].locked
<1>1. "REAL" \in Pockets
  BY DEF Pockets
<1>2. QED
  BY <1>1 DEF Reserve, CanReserve, Wallets, Balance

LEMMA LockEffect ==
  ASSUME NEW w \in Wallets, NEW u \in Accounts, NEW q \in Pockets, NEW b \in Nat,
         CanLock(w, u, q, b)
  PROVE  /\ Lock(w, u, q, b) \in Wallets
         /\ \A v \in Accounts, p \in Pockets :
              Lock(w, u, q, b)[v][p].locked
                = w[v][p].locked + (IF v = u /\ p = q THEN b ELSE 0)
  BY DEF Lock, CanLock, Wallets, Balance

LEMMA UnlockEffect ==
  ASSUME NEW w \in Wallets, NEW u \in Accounts, NEW q \in Pockets, NEW b \in Nat,
         w[u][q].locked >= b
  PROVE  /\ Unlock(w, u, q, b) \in Wallets
         /\ \A v \in Accounts, p \in Pockets :
              Unlock(w, u, q, b)[v][p].locked
                = w[v][p].locked - (IF v = u /\ p = q THEN b ELSE 0)
  BY DEF Unlock, Wallets, Balance

LEMMA RefundEffect ==
  ASSUME NEW w \in Wallets, NEW u \in Accounts, NEW q \in Pockets, NEW b \in Nat,
         CanRefund(w, u, q, b)
  PROVE  /\ Refund(w, u, q, b) \in Wallets
         /\ \A v \in Accounts, p \in Pockets :
              Refund(w, u, q, b)[v][p].locked
                = w[v][p].locked - (IF v = u /\ p = q THEN b ELSE 0)
  BY UnlockEffect, CreditEffect DEF Refund, CanRefund

LEMMA SettleEffect ==
  ASSUME NEW w \in Wallets, NEW win \in Accounts, NEW lose \in Accounts,
         win # lose, NEW q \in Pockets, NEW b \in Nat, NEW rake \in 0..(2 * b),
         CanSettle(w, win, lose, q, b)
  PROVE  /\ Settle(w, win, lose, House, q, b, rake) \in Wallets
         /\ \A v \in Accounts, p \in Pockets :
              Settle(w, win, lose, House, q, b, rake)[v][p].locked
                = w[v][p].locked - (IF v \in {win, lose} /\ p = q THEN b ELSE 0)
<1> DEFINE one  == Unlock(w, win, q, b)
           both == Unlock(one, lose, q, b)
           gain == 2 * b - rake
           paid == Credit(both, win, q, gain)
<1>1. w[win][q].locked >= b /\ w[lose][q].locked >= b
  BY DEF CanSettle
<1>2. /\ one \in Wallets
      /\ \A v \in Accounts, p \in Pockets :
           one[v][p].locked = w[v][p].locked - (IF v = win /\ p = q THEN b ELSE 0)
  BY <1>1, UnlockEffect
<1> HIDE DEF one
<1>3. one[lose][q].locked >= b
  <2>1. w[lose][q].locked \in Nat
    BY DEF Wallets, Balance
  <2>2. QED
    BY <1>1, <1>2, <2>1
<1>4. /\ both \in Wallets
      /\ \A v \in Accounts, p \in Pockets :
           both[v][p].locked
             = one[v][p].locked - (IF v = lose /\ p = q THEN b ELSE 0)
  BY <1>2, <1>3, UnlockEffect
<1> HIDE DEF both
<1>5. gain \in Nat /\ rake \in Nat
  OBVIOUS
<1> HIDE DEF gain
<1>6. /\ paid \in Wallets
      /\ \A v \in Accounts, p \in Pockets : paid[v][p].locked = both[v][p].locked
  BY <1>4, <1>5, CreditEffect
<1> HIDE DEF paid
<1>7. House \in Accounts /\ "REAL" \in Pockets
  BY DEF Accounts, Pockets
<1>8. /\ Credit(paid, House, "REAL", rake) \in Wallets
      /\ \A v \in Accounts, p \in Pockets :
           Credit(paid, House, "REAL", rake)[v][p].locked = paid[v][p].locked
  BY <1>5, <1>6, <1>7, CreditEffect
<1>9. Settle(w, win, lose, House, q, b, rake) = Credit(paid, House, "REAL", rake)
  BY DEF Settle, paid, gain, both, one
<1>10. \A v \in Accounts, p \in Pockets :
         w[v][p].locked - (IF v = win /\ p = q THEN b ELSE 0)
                        - (IF v = lose /\ p = q THEN b ELSE 0)
           = w[v][p].locked - (IF v \in {win, lose} /\ p = q THEN b ELSE 0)
  BY DEF Wallets, Balance
<1>11. QED
  BY <1>2, <1>4, <1>6, <1>8, <1>9, <1>10

\* Ledger rows stay integers.
LEMMA PostType ==
  ASSUME NEW book \in [MatchTx -> [Accounts -> Int]], NEW t \in MatchTx,
         NEW u \in Accounts, NEW x \in Int
  PROVE  Post(book, t, u, x) \in [MatchTx -> [Accounts -> Int]]
  BY DEF Post

------------------------------------------------------------------------------
\* What the row operations return.

LEMMA NewRowEffect ==
  ASSUME NEW c \in Players, NEW opp \in {"HUMAN", "AI"},
         NEW pair \in {"AUTO", "INVITE_CODE"}, NEW f \in Formats,
         NEW kind \in Pockets, NEW b \in Nat, NEW code \in Codes \cup {NoCode}
  PROVE  /\ NewRow(c, opp, pair, f, kind, b, code) \in Row
         /\ NewRow(c, opp, pair, f, kind, b, code).status = "PENDING"
         /\ ~NewRow(c, opp, pair, f, kind, b, code).training
         /\ NewRow(c, opp, pair, f, kind, b, code).p1 = c
         /\ NewRow(c, opp, pair, f, kind, b, code).p2 = NoOne
         /\ NewRow(c, opp, pair, f, kind, b, code).kind = kind
         /\ NewRow(c, opp, pair, f, kind, b, code).bet = b
  BY DEF NewRow, Absent, Row, Accounts, Status

LEMMA StartedEffect ==
  ASSUME NEW row \in Row, NEW u \in Accounts
  PROVE  /\ Started(row, u) \in Row
         /\ Started(row, u).status = "ACTIVE"
         /\ Started(row, u).training = row.training
         /\ Started(row, u).p1 = row.p1 /\ Started(row, u).p2 = u
         /\ Started(row, u).kind = row.kind /\ Started(row, u).bet = row.bet
  BY DEF Started, Row, Status

\* How a match can end, and why.
Endings ==
  {"COMPLETED", "CANCELLED"} \X {"WIN", "DRAW", "FORFEIT", "VOID"}

LEMMA ClosedEffect ==
  ASSUME NEW row \in Row, NEW status, NEW reason, <<status, reason>> \in Endings,
         NEW winner \in Accounts \cup {NoOne}
  PROVE  /\ Closed(row, status, reason, winner) \in Row
         /\ Closed(row, status, reason, winner).status = status
         /\ Closed(row, status, reason, winner).p1 = row.p1
<1>1. status \in Status /\ reason \in {"WIN", "DRAW", "FORFEIT", "VOID"}
  BY DEF Status, Endings
<1>2. Closed(row, status, reason, winner) \in Row
  BY <1>1, ZenonT(40) DEF Closed, Row
<1>3. Closed(row, status, reason, winner).status = status
  BY Zenon DEF Closed, Row
<1>4. Closed(row, status, reason, winner).p1 = row.p1
  BY Zenon DEF Closed, Row
<1> QED BY <1>2, <1>3, <1>4

\* A row whose code was renewed, used up or has expired: nothing else changes.
LEMMA RecodedRow ==
  ASSUME NEW r \in Row, NEW c \in Codes \cup {NoCode}, NEW e \in BOOLEAN
  PROVE  /\ [r EXCEPT !.code = c, !.expired = e] \in Row
         /\ [r EXCEPT !.code = c] \in Row
         /\ [r EXCEPT !.expired = e] \in Row
<1>1. [r EXCEPT !.code = c, !.expired = e] \in Row
  BY ZenonT(40) DEF Row
<1>2. [r EXCEPT !.code = c] \in Row
  BY ZenonT(40) DEF Row
<1>3. [r EXCEPT !.expired = e] \in Row
  BY ZenonT(40) DEF Row
<1> QED BY <1>1, <1>2, <1>3

------------------------------------------------------------------------------
\* The inductive invariant.

\* Who sits at a match, by its status.
RowOK(row) ==
  /\ row.status # "NONE" => row.p1 \in Accounts
  /\ row.status = "PENDING" => row.p2 = NoOne /\ ~row.training
  /\ row.status = "ACTIVE" => row.p2 \in Accounts /\ row.p2 # row.p1

\* A match table and a wallet table whose escrow agrees.
Agree(table, w) ==
  /\ table \in [Matches -> Row]
  /\ \A m \in Matches : RowOK(table[m])
  /\ w \in Wallets
  /\ \A u \in Accounts, q \in Pockets :
       /\ IsFiniteSet(Francs(table, u, q))
       /\ w[u][q].locked = Cardinality(Francs(table, u, q))

LedgerOK ==
  /\ posted \in [Matches -> [MatchTx -> [Accounts -> Int]]]
  /\ external \in [Accounts -> [Pockets -> Int]]
  /\ scan \in [Workers -> SUBSET Matches]

IInv == Agree(match, wallet) /\ LedgerOK

\* The stakes of one row in the terms the steps need.
LEMMA ShareOf ==
  ASSUME NEW row \in Row, RowOK(row), NEW u \in Accounts, NEW q
  PROVE  Share(row, u, q) =
           IF /\ ~row.training /\ row.kind = q
              /\ \/ row.status = "PENDING" /\ u = row.p1
                 \/ row.status = "ACTIVE" /\ u \in {row.p1, row.p2}
           THEN row.bet ELSE 0
<1>1. u # NoOne
  BY AccountsAssumption
<1>2. row.status \in Status
  BY DEF Row
<1>3. QED
  BY <1>1, <1>2 DEF Share, Holders, RowOK, Status

\* Replacing one row keeps the agreement when the locked balances move by the
\* difference of the stakes.
LEMMA RowStep ==
  ASSUME NEW table, NEW w, Agree(table, w),
         NEW m \in Matches, NEW row \in Row, RowOK(row), NEW w2 \in Wallets,
         \A u \in Accounts, q \in Pockets :
           w2[u][q].locked + Share(table[m], u, q)
             = w[u][q].locked + Share(row, u, q)
  PROVE  Agree([table EXCEPT ![m] = row], w2)
<1> DEFINE table2 == [table EXCEPT ![m] = row]
<1>1. table \in [Matches -> Row] /\ w \in Wallets
  BY DEF Agree
<1>2. /\ table2 \in [Matches -> Row]
      /\ table2[m] = row
      /\ \A k \in Matches \ {m} : table2[k] = table[k]
  BY <1>1
<1>3. table[m].bet \in Nat /\ row.bet \in Nat
  BY <1>1 DEF Row
<1> HIDE DEF table2
<1>4. ASSUME NEW u \in Accounts, NEW q \in Pockets
      PROVE  /\ IsFiniteSet(Francs(table2, u, q))
             /\ w2[u][q].locked = Cardinality(Francs(table2, u, q))
  <2>1. /\ IsFiniteSet(Francs(table, u, q))
        /\ w[u][q].locked = Cardinality(Francs(table, u, q))
    BY DEF Agree
  <2>2. table2[m].bet \in Nat
    BY <1>2, <1>3
  <2>3. /\ IsFiniteSet(Francs(table2, u, q))
        /\ Cardinality(Francs(table2, u, q)) + Share(table[m], u, q)
             = Cardinality(Francs(table, u, q)) + Share(table2[m], u, q)
    <3>1. table[m].bet \in Nat /\ \A k \in Matches \ {m} : table2[k] = table[k]
      BY <1>2, <1>3
    <3> HIDE <1>4
    <3> QED BY <3>1, <2>1, <2>2, OneRow
  <2>4. w2[u][q].locked + Share(table[m], u, q)
          = w[u][q].locked + Share(row, u, q)
    OBVIOUS
  <2>5. Share(table[m], u, q) \in Nat /\ Share(row, u, q) \in Nat
    BY <1>3 DEF Share
  <2>6. Cardinality(Francs(table2, u, q)) \in Nat
    BY <2>3, FS_CardinalityType
  <2>7. w2[u][q].locked \in Nat
    BY DEF Wallets, Balance
  <2>8. QED
    BY <1>2, <2>1, <2>3, <2>4, <2>5, <2>6, <2>7
<1>5. \A k \in Matches : RowOK(table2[k])
  BY <1>2 DEF Agree
<1>6. QED
  BY <1>2, <1>4, <1>5 DEF Agree, table2

------------------------------------------------------------------------------
\* The invariant holds at the start.

LEMMA InitIInv == Init => IInv
<1> SUFFICES ASSUME Init PROVE IInv
  OBVIOUS
<1>1. Absent \in Row
  BY AmountsAssumption DEF Absent, Row, Status, Pockets
<1>2. \A m \in Matches : match[m] = Absent
  BY DEF Init
<1>3. match \in [Matches -> Row] /\ \A m \in Matches : RowOK(match[m])
  BY <1>1, <1>2 DEF Init, RowOK, Absent
<1>4. wallet \in Wallets /\ \A u \in Accounts, q \in Pockets : wallet[u][q].locked = 0
  BY AmountsAssumption DEF Init, Wallets, Balance, Pockets
<1>5. ASSUME NEW u \in Accounts, NEW q \in Pockets
      PROVE  Francs(match, u, q) = {}
  <2>1. Holders(Absent) = {}
    BY DEF Holders, Absent
  <2>2. Staked(match, u, q) = {}
    BY <1>2, <2>1 DEF Staked
  <2>3. QED
    BY <2>2 DEF Francs
<1>6. Agree(match, wallet)
  BY <1>3, <1>4, <1>5, FS_EmptySet DEF Agree
<1>7. LedgerOK
  BY AmountsAssumption DEF Init, LedgerOK, Pockets
<1>8. QED
  BY <1>6, <1>7 DEF IInv

------------------------------------------------------------------------------
\* Every action preserves it.

\* A row id that has not been created holds no stake.
LEMMA NoShare ==
  ASSUME NEW row, row.status \notin {"PENDING", "ACTIVE"}, NEW u, NEW q
  PROVE  Share(row, u, q) = 0
  BY DEF Share, Holders

LEMMA CreateChallengeInv ==
  ASSUME IInv, NEW m \in Matches, NEW c \in Players, NEW f \in Formats,
         NEW kind \in Kinds, NEW b \in Bets, NEW pair \in {"AUTO", "INVITE_CODE"},
         NEW code \in Codes \cup {NoCode},
         CreateChallenge(m, c, f, kind, b, pair, code)
  PROVE  IInv'
<1> DEFINE row == NewRow(c, "HUMAN", pair, f, kind, b, code)
<1>1. kind \in Pockets /\ b \in Nat /\ c \in Accounts /\ -b \in Int
  BY AmountsAssumption DEF Pockets, Accounts
<1>2. /\ row \in Row
      /\ row.status = "PENDING" /\ ~row.training
      /\ row.p1 = c /\ row.p2 = NoOne /\ row.kind = kind /\ row.bet = b
  <2>1. "HUMAN" \in {"HUMAN", "AI"}
    OBVIOUS
  <2>2. QED
    BY <1>1, <2>1, NewRowEffect
<1>3. /\ match' = [match EXCEPT ![m] = row]
      /\ match[m].status = "NONE"
      /\ CanLock(wallet, c, kind, b)
      /\ wallet' = Lock(wallet, c, kind, b)
      /\ posted' = [posted EXCEPT ![m] = Post(posted[m], "BET_LOCK", c, -b)]
      /\ external' = external /\ scan' = scan
  BY DEF CreateChallenge, NextId
<1> HIDE DEF row
<1>4. RowOK(row)
  BY <1>1, <1>2 DEF RowOK
<1>5. /\ wallet \in Wallets /\ wallet' \in Wallets
      /\ \A u \in Accounts, q \in Pockets :
           wallet'[u][q].locked
             = wallet[u][q].locked + (IF u = c /\ q = kind THEN b ELSE 0)
  BY <1>1, <1>3, LockEffect DEF IInv, Agree
<1>6. ASSUME NEW u \in Accounts, NEW q \in Pockets
      PROVE  wallet'[u][q].locked + Share(match[m], u, q)
               = wallet[u][q].locked + Share(row, u, q)
  <2>1. Share(match[m], u, q) = 0
    BY <1>3, NoShare
  <2>2. Share(row, u, q) = IF u = c /\ q = kind THEN b ELSE 0
    BY <1>2, <1>4, ShareOf
  <2>3. wallet'[u][q].locked \in Nat
    BY <1>5 DEF Wallets, Balance
  <2>4. QED
    BY <1>5, <2>1, <2>2, <2>3
<1>7. Agree(match', wallet')
  <2>1. Agree([match EXCEPT ![m] = row], wallet')
    BY <1>2, <1>4, <1>5, <1>6, RowStep DEF IInv
  <2>2. QED
    BY <1>3, <2>1
<1>8. LedgerOK'
  BY <1>1, <1>3, PostType DEF IInv, LedgerOK, MatchTx
<1>9. QED
  BY <1>7, <1>8 DEF IInv

LEMMA CreateVsHouseInv ==
  ASSUME IInv, NEW m \in Matches, NEW c \in Players, NEW f \in Formats,
         NEW kind \in Kinds, NEW b \in Bets, CreateVsHouse(m, c, f, kind, b)
  PROVE  IInv'
<1> DEFINE waiting == NewRow(c, "AI", "AUTO", f, kind, b, NoCode)
           row     == Started(waiting, House)
           held    == Lock(wallet, c, kind, b)
<1>1. /\ kind \in Pockets /\ b \in Nat /\ c \in Accounts /\ -b \in Int
      /\ House \in Accounts /\ c # House
  BY AccountsAssumption, AmountsAssumption DEF Pockets, Accounts
<1>2. /\ row \in Row
      /\ row.status = "ACTIVE" /\ ~row.training
      /\ row.p1 = c /\ row.p2 = House /\ row.kind = kind /\ row.bet = b
  <2>1. "AI" \in {"HUMAN", "AI"} /\ "AUTO" \in {"AUTO", "INVITE_CODE"}
    OBVIOUS
  <2>2. /\ waiting \in Row
        /\ ~waiting.training
        /\ waiting.p1 = c /\ waiting.kind = kind /\ waiting.bet = b
    BY <1>1, <2>1, NewRowEffect
  <2> HIDE DEF waiting
  <2>3. QED
    BY <1>1, <2>2, StartedEffect
<1>3. /\ match' = [match EXCEPT ![m] = row]
      /\ match[m].status = "NONE"
      /\ CanLock(wallet, c, kind, b) /\ CanLock(held, House, kind, b)
      /\ wallet' = Lock(held, House, kind, b)
      /\ posted' = [posted EXCEPT
           ![m] = Post(Post(posted[m], "BET_LOCK", c, -b), "BET_LOCK", House, -b)]
      /\ external' = external /\ scan' = scan
  BY DEF CreateVsHouse, NextId
<1>4. /\ held \in Wallets
      /\ \A u \in Accounts, q \in Pockets :
           held[u][q].locked
             = wallet[u][q].locked + (IF u = c /\ q = kind THEN b ELSE 0)
  BY <1>1, <1>3, LockEffect DEF IInv, Agree
<1> HIDE DEF row, held, waiting
<1>5. /\ wallet' \in Wallets
      /\ \A u \in Accounts, q \in Pockets :
           wallet'[u][q].locked
             = held[u][q].locked + (IF u = House /\ q = kind THEN b ELSE 0)
  BY <1>1, <1>3, <1>4, LockEffect
<1>6. RowOK(row)
  BY <1>1, <1>2 DEF RowOK
<1>7. ASSUME NEW u \in Accounts, NEW q \in Pockets
      PROVE  wallet'[u][q].locked + Share(match[m], u, q)
               = wallet[u][q].locked + Share(row, u, q)
  <2>1. Share(match[m], u, q) = 0
    BY <1>3, NoShare
  <2>2. Share(row, u, q) = IF u \in {c, House} /\ q = kind THEN b ELSE 0
    BY <1>2, <1>6, ShareOf
  <2>3. wallet'[u][q].locked \in Nat /\ wallet[u][q].locked \in Nat
    BY <1>5 DEF Wallets, Balance, IInv, Agree
  <2>4. QED
    BY <1>1, <1>4, <1>5, <2>1, <2>2, <2>3
<1>8. Agree(match', wallet')
  <2>1. Agree([match EXCEPT ![m] = row], wallet')
    BY <1>2, <1>5, <1>6, <1>7, RowStep DEF IInv
  <2>2. QED
    BY <1>3, <2>1
<1>9. LedgerOK'
  <2>1. posted[m] \in [MatchTx -> [Accounts -> Int]] /\ "BET_LOCK" \in MatchTx
    BY DEF IInv, LedgerOK, MatchTx
  <2>2. Post(posted[m], "BET_LOCK", c, -b) \in [MatchTx -> [Accounts -> Int]]
    BY <1>1, <2>1, PostType
  <2>3. Post(Post(posted[m], "BET_LOCK", c, -b), "BET_LOCK", House, -b)
          \in [MatchTx -> [Accounts -> Int]]
    BY <1>1, <2>1, <2>2, PostType
  <2>4. QED
    BY <1>3, <2>3 DEF IInv, LedgerOK
<1>10. QED
  BY <1>8, <1>9 DEF IInv

LEMMA CreateTrainingInv ==
  ASSUME IInv, NEW m \in Matches, NEW c \in Players, NEW f \in Formats,
         CreateTraining(m, c, f)
  PROVE  IInv'
<1> DEFINE waiting == NewRow(c, "AI", "AUTO", f, "REAL", 0, NoCode)
           started == Started(waiting, House)
           row     == [started EXCEPT !.training = TRUE]
<1>1. /\ House \in Accounts /\ c \in Accounts /\ c # House
      /\ "REAL" \in Pockets /\ 0 \in Nat
      /\ "AI" \in {"HUMAN", "AI"} /\ "AUTO" \in {"AUTO", "INVITE_CODE"}
  BY AccountsAssumption DEF Pockets, Accounts
<1>2. waiting \in Row /\ waiting.p1 = c
  BY <1>1, NewRowEffect
<1> HIDE DEF waiting
<1>3. /\ started \in Row /\ started.status = "ACTIVE"
      /\ started.p1 = c /\ started.p2 = House
  BY <1>1, <1>2, StartedEffect
<1>4. /\ match' = [match EXCEPT ![m] = row]
      /\ match[m].status = "NONE"
      /\ wallet' = wallet /\ posted' = posted
      /\ external' = external /\ scan' = scan
  BY DEF CreateTraining, NextId, waiting
<1> HIDE DEF started
<1>5. /\ row \in Row /\ row.training /\ row.status = "ACTIVE"
      /\ row.p1 = c /\ row.p2 = House
  BY <1>3 DEF Row
<1> HIDE DEF row
<1>6. RowOK(row)
  BY <1>1, <1>5 DEF RowOK
<1>7. ASSUME NEW u \in Accounts, NEW q \in Pockets
      PROVE  Share(match[m], u, q) = 0 /\ Share(row, u, q) = 0
  BY <1>4, <1>5, <1>6, NoShare, ShareOf
<1>8. Agree([match EXCEPT ![m] = row], wallet)
  <2>1. wallet \in Wallets
    BY DEF IInv, Agree
  <2>2. \A u \in Accounts, q \in Pockets :
          wallet[u][q].locked + Share(match[m], u, q)
            = wallet[u][q].locked + Share(row, u, q)
    BY <1>7
  <2>3. QED
    BY <1>5, <1>6, <2>1, <2>2, RowStep DEF IInv
<1>9. QED
  BY <1>4, <1>8 DEF IInv, LedgerOK

\* Taking a waiting challenge: the second stake is locked and the match starts.
LEMMA TakeStep ==
  ASSUME NEW table, NEW w, Agree(table, w), NEW m \in Matches, NEW j \in Accounts,
         table[m].status = "PENDING", j # table[m].p1,
         NEW before \in Row, ~before.training,
         before.kind = table[m].kind, before.bet = table[m].bet,
         before.p1 = table[m].p1, CanLock(w, j, table[m].kind, table[m].bet)
  PROVE  Agree([table EXCEPT ![m] = Started(before, j)],
               Lock(w, j, table[m].kind, table[m].bet))
<1> DEFINE row  == Started(before, j)
           kind == table[m].kind
           bet  == table[m].bet
           w2   == Lock(w, j, kind, bet)
<1>1. table[m] \in Row /\ RowOK(table[m]) /\ w \in Wallets
  BY DEF Agree
<1>2. kind \in Pockets /\ bet \in Nat
  BY <1>1 DEF Row
<1>3. table[m].p1 \in Accounts /\ ~table[m].training
  BY <1>1 DEF RowOK
<1>4. /\ w2 \in Wallets
      /\ \A u \in Accounts, q \in Pockets :
           w2[u][q].locked = w[u][q].locked + (IF u = j /\ q = kind THEN bet ELSE 0)
  BY <1>1, <1>2, LockEffect
<1>5. /\ row \in Row /\ row.status = "ACTIVE" /\ ~row.training
      /\ row.p1 = table[m].p1 /\ row.p2 = j /\ row.kind = kind /\ row.bet = bet
  BY StartedEffect
<1> HIDE DEF row, w2
<1>6. RowOK(row)
  BY <1>3, <1>5 DEF RowOK
<1>7. ASSUME NEW u \in Accounts, NEW q \in Pockets
      PROVE  w2[u][q].locked + Share(table[m], u, q)
               = w[u][q].locked + Share(row, u, q)
  <2>1. Share(table[m], u, q)
          = IF u = table[m].p1 /\ q = kind THEN bet ELSE 0
    BY <1>1, <1>3, ShareOf
  <2>2. Share(row, u, q)
          = IF u \in {table[m].p1, j} /\ q = kind THEN bet ELSE 0
    BY <1>5, <1>6, ShareOf
  <2>3. w2[u][q].locked \in Nat /\ w[u][q].locked \in Nat
    BY <1>1, <1>4 DEF Wallets, Balance
  <2>4. QED
    BY <1>2, <1>4, <2>1, <2>2, <2>3
<1>8. Agree([table EXCEPT ![m] = row], w2)
  BY <1>4, <1>5, <1>6, <1>7, RowStep
<1>9. QED
  BY <1>8 DEF row, w2

LEMMA JoinInv ==
  ASSUME IInv, NEW m \in Matches, NEW j \in Players,
         match[m].status = "PENDING", j # match[m].p1,
         NEW before \in Row, ~before.training,
         before.kind = match[m].kind, before.bet = match[m].bet,
         before.p1 = match[m].p1, Join(m, j, before)
  PROVE  IInv'
<1>1. match[m] \in Row /\ j \in Accounts
  BY DEF IInv, Agree, Accounts
<1>2. /\ match' = [match EXCEPT ![m] = Started(before, j)]
      /\ CanLock(wallet, j, match[m].kind, match[m].bet)
      /\ wallet' = Lock(wallet, j, match[m].kind, match[m].bet)
      /\ posted' = [posted EXCEPT ![m] = Post(posted[m], "BET_LOCK", j, -before.bet)]
      /\ external' = external /\ scan' = scan
  BY DEF Join
<1>3. Agree(match', wallet')
  BY <1>1, <1>2, TakeStep DEF IInv
<1>4. LedgerOK'
  <2>1. before.bet \in Nat
    BY DEF Row
  <2>2. -before.bet \in Int
    BY <2>1
  <2>3. QED
    BY <1>1, <1>2, <2>2, PostType DEF IInv, LedgerOK, MatchTx
<1>5. QED
  BY <1>3, <1>4 DEF IInv

LEMMA JoinFromLobbyInv ==
  ASSUME IInv, NEW m \in Matches, NEW j \in Players, JoinFromLobby(m, j)
  PROVE  IInv'
<1>1. /\ match[m] \in Row /\ RowOK(match[m]) /\ match[m].status = "PENDING"
      /\ j # match[m].p1 /\ Join(m, j, match[m])
  BY DEF IInv, Agree, JoinFromLobby, Joinable
<1>2. ~match[m].training
  BY <1>1 DEF RowOK
<1>3. QED
  BY <1>1, <1>2, JoinInv

LEMMA JoinByCodeInv ==
  ASSUME IInv, NEW m \in Matches, NEW j \in Players, NEW c \in Codes,
         JoinByCode(m, j, c)
  PROVE  IInv'
<1> DEFINE before == [match[m] EXCEPT !.code = NoCode]
<1>1. /\ match[m] \in Row /\ RowOK(match[m]) /\ match[m].status = "PENDING"
      /\ j # match[m].p1 /\ Join(m, j, before)
  BY DEF IInv, Agree, JoinByCode, Joinable
<1>2. ~match[m].training
  BY <1>1 DEF RowOK
<1>3. /\ before \in Row /\ ~before.training
      /\ before.kind = match[m].kind /\ before.bet = match[m].bet
      /\ before.p1 = match[m].p1
  BY <1>1, <1>2 DEF Row
<1> HIDE DEF before
<1>4. QED
  BY <1>1, <1>3, JoinInv

\* A change of a row's code touches neither its players nor its money.
LEMMA CodeStep ==
  ASSUME NEW table, NEW w, Agree(table, w), NEW m \in Matches, NEW row \in Row,
         row.status = table[m].status, row.training <=> table[m].training,
         row.kind = table[m].kind, row.bet = table[m].bet,
         row.p1 = table[m].p1, row.p2 = table[m].p2
  PROVE  Agree([table EXCEPT ![m] = row], w)
<1>1. RowOK(table[m]) /\ w \in Wallets
  BY DEF Agree
<1>2. RowOK(row)
  BY <1>1 DEF RowOK
<1>3. ASSUME NEW u \in Accounts, NEW q \in Pockets
      PROVE  w[u][q].locked + Share(table[m], u, q)
               = w[u][q].locked + Share(row, u, q)
  BY DEF Share, Holders
<1>4. QED
  BY <1>1, <1>2, <1>3, RowStep

LEMMA RegenerateCodeInv ==
  ASSUME IInv, NEW m \in Matches, NEW c \in Codes, RegenerateCode(m, c)
  PROVE  IInv'
<1> DEFINE row == [match[m] EXCEPT !.code = c, !.expired = FALSE]
<1>1. match \in [Matches -> Row]
  BY DEF IInv, Agree
<1>2. /\ row \in Row
      /\ row.status = match[m].status /\ row.training = match[m].training
      /\ row.kind = match[m].kind /\ row.bet = match[m].bet
      /\ row.p1 = match[m].p1 /\ row.p2 = match[m].p2
  <2>1. match[m] \in Row
    BY <1>1
  <2>2. row \in Row
    BY <2>1, RecodedRow
  <2> QED BY <2>1, <2>2, Zenon DEF Row
<1>3. match' = [match EXCEPT ![m] = row]
  BY <1>1 DEF RegenerateCode, Row
<1>4. UNCHANGED <<wallet, posted, external, scan>>
  BY DEF RegenerateCode
<1> HIDE DEF row
<1>5. Agree([match EXCEPT ![m] = row], wallet)
  BY <1>2, CodeStep DEF IInv
<1>6. QED
  BY <1>3, <1>4, <1>5 DEF IInv, LedgerOK

LEMMA ExpireCodeInv ==
  ASSUME IInv, NEW m \in Matches, ExpireCode(m)
  PROVE  IInv'
<1> DEFINE row == [match[m] EXCEPT !.expired = TRUE]
<1>1. match \in [Matches -> Row]
  BY DEF IInv, Agree
<1>2. /\ row \in Row
      /\ row.status = match[m].status /\ row.training = match[m].training
      /\ row.kind = match[m].kind /\ row.bet = match[m].bet
      /\ row.p1 = match[m].p1 /\ row.p2 = match[m].p2
  <2>1. match[m] \in Row
    BY <1>1
  <2>2. row \in Row
    BY <2>1, RecodedRow
  <2> QED BY <2>1, <2>2, Zenon DEF Row
<1>3. match' = [match EXCEPT ![m] = row]
  BY <1>1 DEF ExpireCode, Row
<1>4. UNCHANGED <<wallet, posted, external, scan>>
  BY DEF ExpireCode
<1> HIDE DEF row
<1>5. Agree([match EXCEPT ![m] = row], wallet)
  BY <1>2, CodeStep DEF IInv
<1>6. QED
  BY <1>3, <1>4, <1>5 DEF IInv, LedgerOK

\* Ending a waiting challenge: the creator's stake goes back.
LEMMA CallOffStep ==
  ASSUME NEW table, NEW w, Agree(table, w), NEW m \in Matches,
         table[m].status = "PENDING", NEW row \in Row, row.status = "CANCELLED",
         row.p1 = table[m].p1,
         CanRefund(w, table[m].p1, table[m].kind, table[m].bet)
  PROVE  Agree([table EXCEPT ![m] = row],
               Refund(w, table[m].p1, table[m].kind, table[m].bet))
<1> DEFINE p1   == table[m].p1
           kind == table[m].kind
           bet  == table[m].bet
           w2   == Refund(w, p1, kind, bet)
<1>1. table[m] \in Row /\ RowOK(table[m]) /\ w \in Wallets
  BY DEF Agree
<1>2. kind \in Pockets /\ bet \in Nat
  BY <1>1 DEF Row
<1>3. p1 \in Accounts /\ ~table[m].training
  BY <1>1 DEF RowOK
<1>4. /\ w2 \in Wallets
      /\ \A u \in Accounts, q \in Pockets :
           w2[u][q].locked = w[u][q].locked - (IF u = p1 /\ q = kind THEN bet ELSE 0)
  BY <1>1, <1>2, <1>3, RefundEffect
<1>5. RowOK(row)
  BY <1>3 DEF RowOK
<1> HIDE DEF w2
<1>6. ASSUME NEW u \in Accounts, NEW q \in Pockets
      PROVE  w2[u][q].locked + Share(table[m], u, q)
               = w[u][q].locked + Share(row, u, q)
  <2>1. Share(table[m], u, q) = IF u = p1 /\ q = kind THEN bet ELSE 0
    BY <1>1, <1>3, ShareOf
  <2>2. Share(row, u, q) = 0
    BY NoShare
  <2>3. w2[u][q].locked \in Nat /\ w[u][q].locked \in Nat
    BY <1>1, <1>4 DEF Wallets, Balance
  <2>4. QED
    BY <1>2, <1>4, <2>1, <2>2, <2>3
<1>7. Agree([table EXCEPT ![m] = row], w2)
  BY <1>4, <1>5, <1>6, RowStep
<1>8. QED
  BY <1>7 DEF w2

\* From w to w2 the locked balances fall by both stakes of a row.
Released(w, row, w2) ==
  /\ w2 \in Wallets
  /\ \A u \in Accounts, q \in Pockets :
       w2[u][q].locked = w[u][q].locked
         - (IF u \in {row.p1, row.p2} /\ q = row.kind THEN row.bet ELSE 0)

\* Ending a running match: both stakes leave escrow, wherever the money goes.
LEMMA FinishStep ==
  ASSUME NEW table, NEW w, Agree(table, w), NEW m \in Matches,
         table[m].status = "ACTIVE", ~table[m].training,
         NEW row \in Row, row.status \in {"COMPLETED", "CANCELLED"},
         row.p1 = table[m].p1, NEW w2, Released(w, table[m], w2)
  PROVE  Agree([table EXCEPT ![m] = row], w2)
<1>0. w2 \in Wallets
  BY DEF Released
<1>1. table[m] \in Row /\ RowOK(table[m]) /\ w \in Wallets
  BY DEF Agree
<1>2. table[m].bet \in Nat
  BY <1>1 DEF Row
<1>3. table[m].p1 \in Accounts
  BY <1>1 DEF RowOK
<1>4. RowOK(row)
  BY <1>3 DEF RowOK
<1>5. ASSUME NEW u \in Accounts, NEW q \in Pockets
      PROVE  w2[u][q].locked + Share(table[m], u, q)
               = w[u][q].locked + Share(row, u, q)
  <2>1. Share(table[m], u, q)
          = IF u \in {table[m].p1, table[m].p2} /\ q = table[m].kind
              THEN table[m].bet ELSE 0
    BY <1>1, ShareOf
  <2>2. Share(row, u, q) = 0
    BY NoShare
  <2>3. w2[u][q].locked \in Nat /\ w[u][q].locked \in Nat
    BY <1>0, <1>1 DEF Wallets, Balance
  <2>4. QED
    BY <1>2, <2>1, <2>2, <2>3 DEF Released
<1>6. QED
  BY <1>0, <1>4, <1>5, RowStep

\* Ending a training match: nothing was staked.
LEMMA TrainingStep ==
  ASSUME NEW table, NEW w, Agree(table, w), NEW m \in Matches,
         table[m].status \in {"ACTIVE", "PENDING"}, table[m].training,
         NEW row \in Row, row.status \in {"COMPLETED", "CANCELLED"},
         row.p1 = table[m].p1
  PROVE  Agree([table EXCEPT ![m] = row], w)
<1>1. table[m] \in Row /\ RowOK(table[m]) /\ w \in Wallets
  BY DEF Agree
<1>2. RowOK(row)
  BY <1>1 DEF RowOK
<1>3. ASSUME NEW u \in Accounts, NEW q \in Pockets
      PROVE  w[u][q].locked + Share(table[m], u, q)
               = w[u][q].locked + Share(row, u, q)
  BY NoShare DEF Share, Holders
<1>4. QED
  BY <1>1, <1>2, <1>3, RowStep

LEMMA CancelInv ==
  ASSUME IInv, NEW m \in Matches, Cancel(m)
  PROVE  IInv'
<1> DEFINE row == [match[m] EXCEPT !.status = "CANCELLED"]
<1>1. match \in [Matches -> Row] /\ match[m] \in Row /\ RowOK(match[m])
  BY DEF IInv, Agree
<1>2. /\ match[m].status = "PENDING"
      /\ CanRefund(wallet, match[m].p1, match[m].kind, match[m].bet)
      /\ wallet' = Refund(wallet, match[m].p1, match[m].kind, match[m].bet)
      /\ posted' = [posted EXCEPT
           ![m] = Post(posted[m], "REFUND", match[m].p1, match[m].bet)]
      /\ external' = external /\ scan' = scan
  BY DEF Cancel
<1>3. match' = [match EXCEPT ![m] = row]
  BY <1>1 DEF Cancel, Row
<1>4. row \in Row /\ row.status = "CANCELLED" /\ row.p1 = match[m].p1
  BY <1>1 DEF Row, Status
<1> HIDE DEF row
<1>5. Agree([match EXCEPT ![m] = row],
            Refund(wallet, match[m].p1, match[m].kind, match[m].bet))
  BY <1>2, <1>4, CallOffStep DEF IInv
<1>6. match[m].p1 \in Accounts /\ match[m].bet \in Int
  <2>1. match[m].bet \in Nat
    BY <1>1 DEF Row
  <2>2. match[m].p1 \in Accounts
    BY <1>1, <1>2 DEF RowOK
  <2>3. QED
    BY <2>1, <2>2
<1>7. LedgerOK'
  BY <1>2, <1>6, PostType DEF IInv, LedgerOK, MatchTx
<1>8. QED
  BY <1>2, <1>3, <1>5, <1>7 DEF IInv

LEMMA AutoPairScanInv ==
  ASSUME IInv, NEW w \in Workers, AutoPairScan(w)
  PROVE  IInv'
  BY DEF IInv, LedgerOK, AutoPairScan

LEMMA MergeInv ==
  ASSUME IInv, NEW w \in Workers, NEW a \in Matches, NEW b \in Matches,
         Merge(w, a, b)
  PROVE  IInv'
<1> DEFINE second == match[b].p1
           kind   == match[a].kind
           bet    == match[a].bet
           freed  == Refund(wallet, second, kind, bet)
           closed == [match[b] EXCEPT !.status = "CANCELLED"]
           middle == [match EXCEPT ![b] = closed]
<1>1. /\ match \in [Matches -> Row] /\ match[a] \in Row /\ match[b] \in Row
      /\ RowOK(match[a]) /\ RowOK(match[b])
  BY DEF IInv, Agree
<1>2. /\ a # b /\ match[b].kind = kind /\ match[b].bet = bet
      /\ match[a].status = "PENDING" /\ match[b].status = "PENDING"
      /\ match[a].p1 # second
      /\ CanRefund(wallet, second, kind, bet) /\ CanLock(freed, second, kind, bet)
      /\ wallet' = Lock(freed, second, kind, bet)
      /\ posted' = [posted EXCEPT
           ![a] = Post(posted[a], "BET_LOCK", second, -bet),
           ![b] = Post(posted[b], "REFUND", second, bet)]
      /\ scan' = [scan EXCEPT ![w] = scan[w] \ {a, b}]
      /\ external' = external
  <2>1. a \in Nat /\ b \in Nat /\ a < b
    BY AmountsAssumption DEF Matches, Merge
  <2>2. a # b
    BY <2>1
  <2>3. QED
    BY <2>2 DEF Merge, Mergeable, Compatible
<1>3. second \in Accounts /\ bet \in Nat /\ ~match[a].training
  BY <1>1, <1>2 DEF Row, RowOK
<1>4. closed \in Row /\ closed.status = "CANCELLED" /\ closed.p1 = second
  <2>1. closed \in Row
    BY <1>1, ZenonT(40) DEF Row, Status
  <2> QED BY <1>1, <2>1, Zenon DEF Row
<1>5. match' = [match EXCEPT ![a] = Started(match[a], second), ![b] = closed]
  BY <1>1, <1>2 DEF Merge, Row
<1> HIDE DEF closed
<1>6. Agree(middle, freed)
  <2>1. CanRefund(wallet, match[b].p1, match[b].kind, match[b].bet)
    BY <1>2
  <2>2. Agree([match EXCEPT ![b] = closed],
              Refund(wallet, match[b].p1, match[b].kind, match[b].bet))
    BY <1>2, <1>4, <2>1, CallOffStep DEF IInv
  <2>3. QED
    BY <1>2, <2>2
<1>7. middle[a] = match[a]
  BY <1>1, <1>2
<1>8. match' = [middle EXCEPT ![a] = Started(match[a], second)]
  BY <1>1, <1>2, <1>5
<1> HIDE DEF middle, freed
<1>9. Agree([middle EXCEPT ![a] = Started(match[a], second)],
            Lock(freed, second, middle[a].kind, middle[a].bet))
  <2>1. /\ middle[a].status = "PENDING" /\ second # middle[a].p1
        /\ match[a].kind = middle[a].kind /\ match[a].bet = middle[a].bet
        /\ match[a].p1 = middle[a].p1
        /\ CanLock(freed, second, middle[a].kind, middle[a].bet)
    BY <1>2, <1>7
  <2> HIDE DEF second, kind, bet
  <2>2. QED
    BY <1>1, <1>3, <1>6, <2>1, TakeStep
<1>10. Agree(match', wallet')
  BY <1>2, <1>7, <1>8, <1>9
<1>11. LedgerOK'
  <2>1. /\ posted[a] \in [MatchTx -> [Accounts -> Int]]
        /\ posted[b] \in [MatchTx -> [Accounts -> Int]]
        /\ "BET_LOCK" \in MatchTx /\ "REFUND" \in MatchTx
        /\ bet \in Int /\ -bet \in Int
    BY <1>3 DEF IInv, LedgerOK, MatchTx
  <2>2. /\ Post(posted[a], "BET_LOCK", second, -bet) \in [MatchTx -> [Accounts -> Int]]
        /\ Post(posted[b], "REFUND", second, bet) \in [MatchTx -> [Accounts -> Int]]
    BY <1>3, <2>1, PostType
  <2>3. scan' \in [Workers -> SUBSET Matches]
    BY <1>2 DEF IInv, LedgerOK
  <2>4. QED
    BY <1>2, <2>2, <2>3 DEF IInv, LedgerOK
<1>12. QED
  BY <1>10, <1>11 DEF IInv

\* refund_escrow for both players lowers both locked balances by the stake.
LEMMA RefundBothEffect ==
  ASSUME IInv, NEW m \in Matches, match[m].status = "ACTIVE", RefundBoth(m)
  PROVE  /\ Released(wallet, match[m], wallet')
         /\ posted' \in [Matches -> [MatchTx -> [Accounts -> Int]]]
<1> DEFINE p1 == match[m].p1
           p2 == match[m].p2
           kind == match[m].kind
           bet == match[m].bet
           once == Refund(wallet, p1, kind, bet)
<1>1. wallet \in Wallets /\ match[m] \in Row /\ RowOK(match[m])
  BY DEF IInv, Agree
<1>2. /\ p1 \in Accounts /\ p2 \in Accounts /\ p1 # p2
      /\ kind \in Pockets /\ bet \in Nat
  BY <1>1 DEF Row, RowOK
<1>3. /\ CanRefund(wallet, p1, kind, bet) /\ CanRefund(once, p2, kind, bet)
      /\ wallet' = Refund(once, p2, kind, bet)
      /\ posted' = [posted EXCEPT ![m] =
           Post(Post(posted[m], "REFUND", p1, bet), "REFUND", p2, bet)]
  BY DEF RefundBoth
<1>4. /\ once \in Wallets
      /\ \A u \in Accounts, q \in Pockets :
           once[u][q].locked
             = wallet[u][q].locked - (IF u = p1 /\ q = kind THEN bet ELSE 0)
  BY <1>1, <1>2, <1>3, RefundEffect
<1> HIDE DEF once
<1>5. /\ wallet' \in Wallets
      /\ \A u \in Accounts, q \in Pockets :
           wallet'[u][q].locked
             = once[u][q].locked - (IF u = p2 /\ q = kind THEN bet ELSE 0)
  BY <1>2, <1>3, <1>4, RefundEffect
<1>6. ASSUME NEW u \in Accounts, NEW q \in Pockets
      PROVE  wallet'[u][q].locked = wallet[u][q].locked -
                (IF u \in {p1, p2} /\ q = kind THEN bet ELSE 0)
  <2>1. wallet[u][q].locked \in Nat
    BY <1>1 DEF Wallets, Balance
  <2>2. QED
    BY <1>2, <1>4, <1>5, <2>1
<1>7. posted' \in [Matches -> [MatchTx -> [Accounts -> Int]]]
  <2>1. /\ posted[m] \in [MatchTx -> [Accounts -> Int]]
        /\ "REFUND" \in MatchTx /\ bet \in Int
    BY <1>2 DEF IInv, LedgerOK, MatchTx
  <2>2. Post(posted[m], "REFUND", p1, bet) \in [MatchTx -> [Accounts -> Int]]
    BY <1>2, <2>1, PostType
  <2>3. Post(Post(posted[m], "REFUND", p1, bet), "REFUND", p2, bet)
          \in [MatchTx -> [Accounts -> Int]]
    BY <1>2, <2>1, <2>2, PostType
  <2>4. QED
    BY <1>3, <2>3 DEF IInv, LedgerOK
<1>8. QED
  BY <1>5, <1>6, <1>7 DEF Released

\* settle_escrow lowers the same two locked balances by the stake.
LEMMA PayWinnerEffect ==
  ASSUME IInv, NEW m \in Matches, match[m].status = "ACTIVE",
         NEW winner \in {match[m].p1, match[m].p2}, NEW percent \in RakePercents,
         PayWinner(m, winner, Opponent(m, winner), percent)
  PROVE  /\ Released(wallet, match[m], wallet')
         /\ posted' \in [Matches -> [MatchTx -> [Accounts -> Int]]]
<1> DEFINE loser == Opponent(m, winner)
           kind  == match[m].kind
           bet   == match[m].bet
           rake  == Rake(2 * bet, kind, percent)
           won   == Post(posted[m], "BET_WIN", winner, 2 * bet - rake)
<1>1. wallet \in Wallets /\ match[m] \in Row /\ RowOK(match[m])
  BY DEF IInv, Agree
<1>2. kind \in Pockets /\ bet \in Nat
  BY <1>1 DEF Row
<1>3. /\ match[m].p1 \in Accounts /\ match[m].p2 \in Accounts
      /\ match[m].p1 # match[m].p2
  BY <1>1 DEF RowOK
<1>4. /\ winner \in Accounts /\ loser \in Accounts /\ winner # loser
      /\ {winner, loser} = {match[m].p1, match[m].p2}
  BY <1>3 DEF Opponent
<1>5. rake \in 0..(2 * bet)
  <2>1. percent \in 0..100 /\ 2 * bet \in Nat
    BY <1>2, AmountsAssumption
  <2>2. QED
    BY <2>1, RakeBounds
<1>6. /\ CanSettle(wallet, winner, loser, kind, bet)
      /\ wallet' = Settle(wallet, winner, loser, House, kind, bet, rake)
      /\ posted' = [posted EXCEPT ![m] =
           IF rake > 0 THEN Post(won, "COMMISSION", House, rake) ELSE won]
  BY DEF PayWinner
<1> HIDE DEF loser, kind, bet, rake, won
<1>7. /\ wallet' \in Wallets
      /\ \A u \in Accounts, q \in Pockets :
           wallet'[u][q].locked = wallet[u][q].locked
             - (IF u \in {winner, loser} /\ q = kind THEN bet ELSE 0)
  BY <1>1, <1>2, <1>4, <1>5, <1>6, SettleEffect
<1>8. posted' \in [Matches -> [MatchTx -> [Accounts -> Int]]]
  <2>1. /\ posted[m] \in [MatchTx -> [Accounts -> Int]]
        /\ "BET_WIN" \in MatchTx /\ "COMMISSION" \in MatchTx
        /\ House \in Accounts
    BY DEF IInv, LedgerOK, MatchTx, Accounts
  <2>2. rake \in Int /\ 2 * bet - rake \in Int
    BY <1>2, <1>5
  <2>3. won \in [MatchTx -> [Accounts -> Int]]
    BY <1>4, <2>1, <2>2, PostType DEF won
  <2>4. Post(won, "COMMISSION", House, rake) \in [MatchTx -> [Accounts -> Int]]
    BY <2>1, <2>2, <2>3, PostType
  <2>5. QED
    BY <1>6, <2>3, <2>4 DEF IInv, LedgerOK
<1>9. QED
  BY <1>4, <1>7, <1>8 DEF kind, bet, Released

LEMMA WinInv ==
  ASSUME IInv, NEW m \in Matches, NEW winner \in Accounts,
         NEW reason \in {"WIN", "FORFEIT"}, NEW percent \in RakePercents,
         Win(m, winner, reason, percent)
  PROVE  IInv'
<1> DEFINE row == Closed(match[m], "COMPLETED", reason, winner)
<1>1. match \in [Matches -> Row] /\ match[m] \in Row
  BY DEF IInv, Agree
<1>2. /\ match[m].status = "ACTIVE" /\ winner \in {match[m].p1, match[m].p2}
      /\ match' = [match EXCEPT ![m] = row]
      /\ external' = external /\ scan' = scan
  BY DEF Win, Running
<1>3. row \in Row /\ row.status = "COMPLETED" /\ row.p1 = match[m].p1
  <2>1. winner \in Accounts \cup {NoOne} /\ match[m] \in Row
    BY <1>1
  <2>2. <<"COMPLETED", reason>> \in Endings
    BY DEF Endings
  <2> QED BY <2>1, <2>2, ClosedEffect
<1> HIDE DEF row
<1>4. CASE match[m].training
  <2>1. wallet' = wallet /\ posted' = posted
    BY <1>4 DEF Win
  <2>2. Agree([match EXCEPT ![m] = row], wallet)
    BY <1>2, <1>3, <1>4, TrainingStep DEF IInv
  <2>3. QED
    BY <1>2, <2>1, <2>2 DEF IInv, LedgerOK
<1>5. CASE ~match[m].training
  <2>1. PayWinner(m, winner, Opponent(m, winner), percent)
    BY <1>5 DEF Win
  <2>2. /\ Released(wallet, match[m], wallet')
        /\ posted' \in [Matches -> [MatchTx -> [Accounts -> Int]]]
    BY <1>2, <2>1, PayWinnerEffect
  <2>3. Agree([match EXCEPT ![m] = row], wallet')
    BY <1>2, <1>3, <1>5, <2>2, FinishStep DEF IInv
  <2>4. QED
    BY <1>2, <2>2, <2>3 DEF IInv, LedgerOK
<1>6. QED
  BY <1>4, <1>5

LEMMA ForfeitInv ==
  ASSUME IInv, NEW m \in Matches, NEW quitter \in Players,
         NEW percent \in RakePercents, Forfeit(m, quitter, percent)
  PROVE  IInv'
<1>1. Win(m, Opponent(m, quitter), "FORFEIT", percent)
  BY DEF Forfeit
<1>2. Opponent(m, quitter) \in Accounts
  <2>1. /\ Opponent(m, quitter) \in {match[m].p1, match[m].p2}
        /\ match[m].status = "ACTIVE"
    BY <1>1 DEF Win, Running
  <2>2. RowOK(match[m])
    BY DEF IInv, Agree
  <2>3. QED
    BY <2>1, <2>2 DEF RowOK
<1>3. QED
  BY <1>1, <1>2, WinInv

LEMMA DrawInv ==
  ASSUME IInv, NEW m \in Matches, Draw(m)
  PROVE  IInv'
<1> DEFINE row == Closed(match[m], "COMPLETED", "DRAW", NoOne)
<1>1. match \in [Matches -> Row] /\ match[m] \in Row
  BY DEF IInv, Agree
<1>2. /\ match[m].status = "ACTIVE"
      /\ match' = [match EXCEPT ![m] = row]
      /\ external' = external /\ scan' = scan
  BY DEF Draw, Running
<1>3. row \in Row /\ row.status = "COMPLETED" /\ row.p1 = match[m].p1
  <2>1. <<"COMPLETED", "DRAW">> \in Endings /\ NoOne \in Accounts \cup {NoOne}
    BY DEF Endings
  <2> QED BY <1>1, <2>1, ClosedEffect
<1> HIDE DEF row
<1>4. CASE match[m].training
  <2>1. wallet' = wallet /\ posted' = posted
    BY <1>4 DEF Draw
  <2>2. Agree([match EXCEPT ![m] = row], wallet)
    BY <1>2, <1>3, <1>4, TrainingStep DEF IInv
  <2>3. QED
    BY <1>2, <2>1, <2>2 DEF IInv, LedgerOK
<1>5. CASE ~match[m].training
  <2>1. RefundBoth(m)
    BY <1>5 DEF Draw
  <2>2. /\ Released(wallet, match[m], wallet')
        /\ posted' \in [Matches -> [MatchTx -> [Accounts -> Int]]]
    BY <1>2, <2>1, RefundBothEffect
  <2>3. Agree([match EXCEPT ![m] = row], wallet')
    BY <1>2, <1>3, <1>5, <2>2, FinishStep DEF IInv
  <2>4. QED
    BY <1>2, <2>2, <2>3 DEF IInv, LedgerOK
<1>6. QED
  BY <1>4, <1>5

LEMMA VoidInv ==
  ASSUME IInv, NEW m \in Matches, Void(m)
  PROVE  IInv'
<1> DEFINE row == Closed(match[m], "CANCELLED", "VOID", match[m].winner)
<1>1. match \in [Matches -> Row] /\ match[m] \in Row /\ RowOK(match[m])
  BY DEF IInv, Agree
<1>2. /\ match[m].status \in {"ACTIVE", "PENDING"}
      /\ match' = [match EXCEPT ![m] = row]
      /\ external' = external /\ scan' = scan
  BY DEF Void, Voidable
<1>3. row \in Row /\ row.status = "CANCELLED" /\ row.p1 = match[m].p1
  <2>1. match[m].winner \in Accounts \cup {NoOne} /\ match[m] \in Row
    BY <1>1 DEF Row
  <2>2. <<"CANCELLED", "VOID">> \in Endings
    BY DEF Endings
  <2> QED BY <2>1, <2>2, ClosedEffect
<1> HIDE DEF row
<1>4. CASE match[m].training
  <2>1. wallet' = wallet /\ posted' = posted
    BY <1>4 DEF Void
  <2>2. Agree([match EXCEPT ![m] = row], wallet)
    BY <1>2, <1>3, <1>4, TrainingStep DEF IInv
  <2>3. QED
    BY <1>2, <2>1, <2>2 DEF IInv, LedgerOK
<1>5. CASE ~match[m].training /\ match[m].p2 # NoOne
  <2>1. RefundBoth(m)
    BY <1>5 DEF Void
  <2>2. match[m].status = "ACTIVE"
    BY <1>1, <1>2, <1>5 DEF RowOK
  <2>3. /\ Released(wallet, match[m], wallet')
        /\ posted' \in [Matches -> [MatchTx -> [Accounts -> Int]]]
    BY <2>1, <2>2, RefundBothEffect
  <2>4. Agree([match EXCEPT ![m] = row], wallet')
    BY <1>3, <1>5, <2>2, <2>3, FinishStep DEF IInv
  <2>5. QED
    BY <1>2, <2>3, <2>4 DEF IInv, LedgerOK
<1>6. CASE ~match[m].training /\ match[m].p2 = NoOne
  <2>1. /\ CanRefund(wallet, match[m].p1, match[m].kind, match[m].bet)
        /\ wallet' = Refund(wallet, match[m].p1, match[m].kind, match[m].bet)
        /\ posted' = [posted EXCEPT
             ![m] = Post(posted[m], "REFUND", match[m].p1, match[m].bet)]
    BY <1>6 DEF Void
  <2>2. match[m].status = "PENDING" /\ match[m].p1 \in Accounts
    BY <1>1, <1>2, <1>6, AccountsAssumption DEF RowOK
  <2>3. Agree([match EXCEPT ![m] = row],
              Refund(wallet, match[m].p1, match[m].kind, match[m].bet))
    BY <1>3, <2>1, <2>2, CallOffStep DEF IInv
  <2>4. LedgerOK'
    <3>1. match[m].bet \in Nat
      BY <1>1 DEF Row
    <3>2. match[m].bet \in Int
      BY <3>1
    <3>3. QED
      BY <1>2, <2>1, <2>2, <3>2, PostType DEF IInv, LedgerOK, MatchTx
  <2>5. QED
    BY <1>2, <2>1, <2>3, <2>4 DEF IInv
<1>7. QED
  BY <1>4, <1>5, <1>6

\* Movements of the available balances only.
LEMMA IdleStep ==
  ASSUME NEW table, NEW w, Agree(table, w), NEW w2 \in Wallets,
         \A u \in Accounts, q \in Pockets : w2[u][q].locked = w[u][q].locked
  PROVE  Agree(table, w2)
  BY DEF Agree

LEMMA FundInv ==
  ASSUME IInv, NEW u \in Players, NEW q \in Pockets, NEW x \in Nat, Fund(u, q, x)
  PROVE  IInv'
<1>1. wallet \in Wallets /\ u \in Accounts
  BY DEF IInv, Agree, Accounts
<1>2. /\ wallet' = Credit(wallet, u, q, x)
      /\ external' = [external EXCEPT ![u][q] = external[u][q] + x]
      /\ match' = match /\ posted' = posted /\ scan' = scan
  BY DEF Fund
<1>3. Agree(match, Credit(wallet, u, q, x))
  BY <1>1, CreditEffect, IdleStep DEF IInv
<1>4. external' \in [Accounts -> [Pockets -> Int]]
  BY <1>1, <1>2 DEF IInv, LedgerOK
<1>5. QED
  BY <1>2, <1>3, <1>4 DEF IInv, LedgerOK

LEMMA WithdrawInv ==
  ASSUME IInv, NEW u \in Players, NEW x \in Nat, Withdraw(u, x)
  PROVE  IInv'
<1>1. wallet \in Wallets /\ u \in Accounts /\ "REAL" \in Pockets
  BY DEF IInv, Agree, Accounts, Pockets
<1>2. /\ CanReserve(wallet, u, x)
      /\ wallet' = Reserve(wallet, u, x)
      /\ external' = [external EXCEPT ![u]["REAL"] = external[u]["REAL"] - x]
      /\ match' = match /\ posted' = posted /\ scan' = scan
  BY DEF Withdraw
<1>3. Agree(match, Reserve(wallet, u, x))
  BY <1>1, <1>2, ReserveEffect, IdleStep DEF IInv
<1>4. external' \in [Accounts -> [Pockets -> Int]]
  BY <1>1, <1>2 DEF IInv, LedgerOK
<1>5. QED
  BY <1>2, <1>3, <1>4 DEF IInv, LedgerOK

LEMMA LobbyInv ==
  ASSUME IInv, Lobby
  PROVE  IInv'
<1>1. /\ Bets \subseteq Nat \ {0}
      /\ Kinds \subseteq Pockets
      /\ Modes \cap {"AUTO", "INVITE_CODE"} \subseteq {"AUTO", "INVITE_CODE"}
  BY AmountsAssumption DEF Pockets
<1>2. CASE \E m \in Matches, c \in Players, f \in Formats, k \in Kinds, b \in Bets,
              p \in Modes \cap {"AUTO", "INVITE_CODE"},
              code \in Codes \cup {NoCode} :
             CreateChallenge(m, c, f, k, b, p, code)
  BY <1>1, <1>2, CreateChallengeInv
<1>3. CASE \E m \in Matches, c \in Players, f \in Formats, k \in Kinds, b \in Bets :
             "AI" \in Modes /\ CreateVsHouse(m, c, f, k, b)
  BY <1>1, <1>3, CreateVsHouseInv
<1>4. CASE \E m \in Matches, c \in Players, f \in Formats :
             "TRAINING" \in Modes /\ CreateTraining(m, c, f)
  BY <1>4, CreateTrainingInv
<1>5. CASE \E m \in Matches, j \in Players : JoinFromLobby(m, j)
  BY <1>5, JoinFromLobbyInv
<1>6. CASE \E m \in Matches, j \in Players, c \in Codes : JoinByCode(m, j, c)
  BY <1>6, JoinByCodeInv
<1>7. CASE \E m \in Matches, c \in Codes : RegenerateCode(m, c)
  BY <1>7, RegenerateCodeInv
<1>8. CASE \E m \in Matches : ExpireCode(m)
  BY <1>8, ExpireCodeInv
<1>9. CASE \E m \in Matches : Cancel(m)
  BY <1>9, CancelInv
<1>10. QED
  BY <1>2, <1>3, <1>4, <1>5, <1>6, <1>7, <1>8, <1>9 DEF Lobby

LEMMA NextIInv == IInv /\ [Next]_vars => IInv'
<1> SUFFICES ASSUME IInv, [Next]_vars PROVE IInv'
  OBVIOUS
<1>1. CASE Lobby
  BY <1>1, LobbyInv
<1>2. CASE Pairing
  BY <1>2, AutoPairScanInv, MergeInv DEF Pairing
<1>3. CASE Resolution
  <2>1. CASE \E m \in Matches, u \in Accounts, r \in RakePercents :
               Win(m, u, "WIN", r)
    BY <2>1, WinInv
  <2>2. CASE \E m \in Matches, u \in Players, r \in RakePercents : Forfeit(m, u, r)
    BY <2>2, ForfeitInv
  <2>3. CASE \E m \in Matches : Draw(m)
    BY <2>3, DrawInv
  <2>4. CASE \E m \in Matches : Void(m)
    BY <2>4, VoidInv
  <2>5. QED
    BY <1>3, <2>1, <2>2, <2>3, <2>4 DEF Resolution
<1>4. CASE Cashier
  <2>1. Kinds \subseteq Pockets /\ Transfers \subseteq Nat
    BY AmountsAssumption DEF Pockets
  <2>2. CASE \E u \in Players, q \in Kinds, x \in Transfers : Fund(u, q, x)
    BY <2>1, <2>2, FundInv
  <2>3. CASE \E u \in Players, x \in Transfers : Withdraw(u, x)
    BY <2>1, <2>3, WithdrawInv
  <2>4. QED
    BY <1>4, <2>2, <2>3 DEF Cashier
<1>5. CASE UNCHANGED vars
  BY <1>5 DEF vars, IInv, LedgerOK
<1>6. QED
  BY <1>1, <1>2, <1>3, <1>4, <1>5 DEF Next

------------------------------------------------------------------------------
\* The theorems.

\* The seats, the wallets and the ledger agree in every reachable state.
THEOREM InductiveInvariant == Spec => []IInv
<1>1. Init => IInv
  BY InitIInv
<1>2. IInv /\ [Next]_vars => IInv'
  BY NextIInv
<1>3. QED
  BY <1>1, <1>2, PTL DEF Spec

\* Every variable keeps its type, so that no balance, available or locked, is
\* ever negative: each debit is covered when it is made (_add, lock_funds).
THEOREM TypeCorrect == Spec => []TypeOK
<1>1. IInv => TypeOK
  BY DEF IInv, Agree, LedgerOK, TypeOK
<1>2. QED
  BY <1>1, InductiveInvariant, PTL

\* In every reachable state the locked balance of a pocket is what its owner
\* has staked in open matches (lock_funds, settle_escrow, refund_escrow).
THEOREM EscrowIsBacked == Spec => []EscrowBacked
<1>1. IInv => EscrowBacked
  BY DEF IInv, Agree, EscrowBacked
<1>2. QED
  BY <1>1, InductiveInvariant, PTL

\* A stake in an open match is covered by the locked balance of its owner.
LEMMA Covered ==
  ASSUME IInv, NEW m \in Matches, NEW u \in Holders(match[m]) \cap Accounts
  PROVE  wallet[u][match[m].kind].locked >= match[m].bet
<1> DEFINE q == match[m].kind
           own == {m} \X (1..match[m].bet)
<1>1. match[m] \in Row
  BY DEF IInv, Agree
<1>2. q \in Pockets /\ match[m].bet \in Nat
  BY <1>1 DEF Row
<1>3. /\ IsFiniteSet(Francs(match, u, q))
      /\ wallet[u][q].locked = Cardinality(Francs(match, u, q))
  BY <1>2 DEF IInv, Agree
<1>4. IsFiniteSet(own) /\ Cardinality(own) = match[m].bet
  BY <1>2, StakeSize
<1>5. own \in SUBSET Francs(match, u, q)
  BY DEF Francs, Staked
<1>6. Cardinality(own) <= Cardinality(Francs(match, u, q))
  BY <1>3, <1>5, FS_Subset
<1>7. QED
  BY <1>2, <1>3, <1>4, <1>6, FS_CardinalityType

\* No open match is stuck with its stakes: whatever ends it, the wallets can
\* make the movement (settle_escrow, refund_escrow, void).
THEOREM NobodyIsStuck == Spec => []NeverStuck
<1>1. ASSUME IInv, NEW m \in Matches, ~match[m].training,
             match[m].status = "PENDING"
      PROVE  CanRefund(wallet, match[m].p1, match[m].kind, match[m].bet)
  <2>1. match[m].p1 \in Accounts
    BY <1>1 DEF IInv, Agree, RowOK
  <2>2. match[m].p1 \in Holders(match[m])
    BY <1>1, <2>1, AccountsAssumption DEF Holders
  <2>3. QED
    BY <1>1, <2>1, <2>2, Covered DEF CanRefund
<1>2. ASSUME IInv, NEW m \in Matches, ~match[m].training,
             match[m].status = "ACTIVE"
      PROVE  /\ match[m].p1 # match[m].p2
             /\ CanSettle(wallet, match[m].p1, match[m].p2, match[m].kind, match[m].bet)
             /\ CanSettle(wallet, match[m].p2, match[m].p1, match[m].kind, match[m].bet)
  <2>1. /\ match[m].p1 \in Accounts /\ match[m].p2 \in Accounts
        /\ match[m].p1 # match[m].p2
    BY <1>2 DEF IInv, Agree, RowOK
  <2>2. match[m].p1 \in Holders(match[m]) /\ match[m].p2 \in Holders(match[m])
    BY <1>2, <2>1, AccountsAssumption DEF Holders
  <2>3. /\ wallet[match[m].p1][match[m].kind].locked >= match[m].bet
        /\ wallet[match[m].p2][match[m].kind].locked >= match[m].bet
    BY <1>2, <2>1, <2>2, Covered
  <2>4. QED
    BY <2>1, <2>3 DEF CanSettle
<1>3. IInv => NeverStuck
  BY <1>1, <1>2 DEF NeverStuck
<1>4. QED
  BY <1>3, InductiveInvariant, PTL

------------------------------------------------------------------------------
\* The ledger rows of one match.

\* Net, of a book of ledger rows.
NetOf(book, u) == book["BET_LOCK"][u] + book["BET_WIN"][u]
                  + book["REFUND"][u] + book["COMMISSION"][u]

Books == [MatchTx -> [Accounts -> Int]]

LEMMA NetType ==
  ASSUME NEW book \in Books, NEW u \in Accounts
  PROVE  NetOf(book, u) \in Int
BY DEF NetOf, Books, MatchTx

LEMMA PostNet ==
  ASSUME NEW book \in Books, NEW t \in MatchTx, NEW c \in Accounts, NEW x \in Int
  PROVE  /\ Post(book, t, c, x) \in Books
         /\ \A u \in Accounts :
              /\ NetOf(book, u) \in Int
              /\ NetOf(Post(book, t, c, x), u) = NetOf(book, u) + IF u = c THEN x ELSE 0
<1>1. Post(book, t, c, x) \in Books
  BY PostType DEF Books
<1>2. ASSUME NEW u \in Accounts
      PROVE  /\ NetOf(book, u) \in Int
             /\ NetOf(Post(book, t, c, x), u) = NetOf(book, u) + IF u = c THEN x ELSE 0
  <2>1. \A s \in MatchTx : Post(book, t, c, x)[s][u]
           = IF s = t /\ u = c THEN book[s][u] + x ELSE book[s][u]
    BY DEF Post, Books
  <2>2. \A s \in MatchTx : book[s][u] \in Int
    BY DEF Books
  <2> QED BY <2>1, <2>2 DEF NetOf, MatchTx
<1> QED BY <1>1, <1>2

\* A stake that goes in, and one that comes back.
LEMMA LockNet ==
  ASSUME NEW book \in Books, NEW c \in Accounts, NEW b \in Nat
  PROVE  LET after == Post(book, "BET_LOCK", c, -b)
         IN  /\ after \in Books
             /\ \A u \in Accounts : NetOf(after, u) = NetOf(book, u) + IF u = c THEN -b ELSE 0
<1>1. "BET_LOCK" \in MatchTx /\ -b \in Int
  BY DEF MatchTx
<1> QED BY <1>1, PostNet

LEMMA RefundNet ==
  ASSUME NEW book \in Books, NEW c \in Accounts, NEW b \in Nat
  PROVE  LET after == Post(book, "REFUND", c, b)
         IN  /\ after \in Books
             /\ \A u \in Accounts : NetOf(after, u) = NetOf(book, u) + IF u = c THEN b ELSE 0
<1>1. "REFUND" \in MatchTx /\ b \in Int
  BY DEF MatchTx
<1> QED BY <1>1, PostNet

\* What u has put into an open match.
PutIn(row, u) == IF u \in {row.p1, row.p2} THEN -row.bet ELSE 0

\* The ledger rows of a match that has not ended are its stakes, each once; a training
\* match has none.
Booked ==
  \A m \in Matches :
    /\ match[m].status = "NONE" => match[m].p1 = NoOne /\ match[m].p2 = NoOne
    /\ match[m].training => match[m].bet = 0
    /\ match[m].status \in {"NONE", "PENDING", "ACTIVE"} =>
         \A u \in Accounts : NetOf(posted[m], u) = PutIn(match[m], u)

------------------------------------------------------------------------------
\* What one match does in a step, in the terms of its row and its ledger rows.

SameTerms(m) ==
  /\ match'[m].p1 = match[m].p1 /\ match'[m].p2 = match[m].p2
  /\ match'[m].bet = match[m].bet /\ match'[m].training = match[m].training

Stays(m) ==
  SameTerms(m) /\ match'[m].status = match[m].status /\ posted'[m] = posted[m]

Paid(m) == \A u \in Accounts : NetOf(posted'[m], u) = PutIn(match'[m], u)

Offers(m) ==
  /\ match[m].status = "NONE" /\ match'[m].status = "PENDING"
  /\ match'[m].p1 \in Accounts /\ match'[m].p2 = NoOne
  /\ ~match'[m].training
  /\ Paid(m)

Engages(m) ==
  /\ match[m].status = "NONE" /\ match'[m].status = "ACTIVE"
  /\ match'[m].p1 \in Accounts /\ match'[m].p2 \in Accounts
  /\ match'[m].training => match'[m].bet = 0
  /\ Paid(m)

Takes(m) ==
  /\ match[m].status = "PENDING" /\ match'[m].status = "ACTIVE"
  /\ match'[m].bet = match[m].bet /\ match'[m].training = match[m].training
  /\ match'[m].p1 = match[m].p1
  /\ match'[m].p2 \in Accounts /\ match'[m].p2 # match[m].p1
  /\ Paid(m)

Ends(m) ==
  /\ match[m].status \in {"PENDING", "ACTIVE"}
  /\ match'[m].status \in {"COMPLETED", "CANCELLED"}
  /\ SameTerms(m)

GivesBack(m) == Ends(m) /\ \A u \in Accounts : NetOf(posted'[m], u) = 0

PaysOut(m) ==
  /\ Ends(m) /\ match[m].status = "ACTIVE"
  /\ \E winner \in {match[m].p1, match[m].p2}, rake \in 0..(2 * match[m].bet) :
       \A u \in Accounts : NetOf(posted'[m], u) =
         PutIn(match[m], u) + (IF u = winner THEN 2 * match[m].bet - rake ELSE 0)
                            + (IF u = House THEN rake ELSE 0)

Moves(m) ==
  Stays(m) \/ Offers(m) \/ Engages(m) \/ Takes(m) \/ GivesBack(m) \/ PaysOut(m)

\* Each of these keeps the books in order.
LEMMA MovesBooked ==
  ASSUME IInv, Booked, \A m \in Matches : Moves(m)
  PROVE  Booked'
<1> SUFFICES ASSUME NEW m \in Matches
    PROVE  /\ match'[m].status = "NONE" => match'[m].p1 = NoOne /\ match'[m].p2 = NoOne
           /\ match'[m].training => match'[m].bet = 0
           /\ match'[m].status \in {"NONE", "PENDING", "ACTIVE"} =>
                \A u \in Accounts : NetOf(posted'[m], u) = PutIn(match'[m], u)
  BY DEF Booked, NetOf
<1>1. /\ match[m].status = "NONE" => match[m].p1 = NoOne /\ match[m].p2 = NoOne
      /\ match[m].training => match[m].bet = 0
      /\ match[m].status \in {"NONE", "PENDING", "ACTIVE"} =>
           \A u \in Accounts : NetOf(posted[m], u) = PutIn(match[m], u)
  BY DEF Booked
<1>2. CASE Stays(m)
  BY <1>1, <1>2 DEF Stays, SameTerms, PutIn
<1>3. CASE Offers(m)
  BY <1>3 DEF Offers, Paid
<1>4. CASE Engages(m)
  BY <1>4 DEF Engages, Paid
<1>5. CASE Takes(m)
  BY <1>1, <1>5 DEF Takes, Paid
<1>6. CASE Ends(m)
  BY <1>1, <1>6 DEF Ends, SameTerms
<1> QED BY <1>2, <1>3, <1>4, <1>5, <1>6 DEF Moves, GivesBack, PaysOut

------------------------------------------------------------------------------
\* The same in the terms of the contract.

LEMMA MappedIdle ==
  ASSUME NEW m \in Matches, Stays(m)
  PROVE  Contract!Idle(m)
BY DEF Stays, SameTerms, Contract!Idle, Phase, Net

\* Net is NetOf, before and after the step.
LEMMA MappedNet ==
  ASSUME NEW m \in Matches
  PROVE  /\ \A u : Net(m, u) = NetOf(posted[m], u)
         /\ \A u : Net(m, u)' = NetOf(posted'[m], u)
BY DEF Net, NetOf

LEMMA MappedOffer ==
  ASSUME NEW m \in Matches, Offers(m)
  PROVE  Contract!Offer(m)
<1>1. Phase(match[m]) = "none" /\ Phase(match'[m]) = "offered"
  BY DEF Offers, Phase
<1>2. <<match'[m].p1, match'[m].p2>> \in Accounts \X {NoOne}
  BY DEF Offers
<1>3. \A u \in Accounts : Net(m, u)' = PutIn(match'[m], u)
  BY MappedNet DEF Offers, Paid
<1>4. [u \in Accounts |-> Net(m, u)']
        = Contract!PaidIn(<<match'[m].p1, match'[m].p2>>, match'[m].bet)
  BY <1>3 DEF Contract!PaidIn, PutIn
<1> QED BY <1>1, <1>2, <1>4 DEF Contract!Offer

LEMMA MappedEngage ==
  ASSUME NEW m \in Matches, Engages(m)
  PROVE  Contract!Engage(m)
<1>1. Phase(match[m]) = "none" /\ Phase(match'[m]) = "engaged"
  BY DEF Engages, Phase
<1>2. <<match'[m].p1, match'[m].p2>> \in Accounts \X Accounts
  BY DEF Engages
<1>3. \A u \in Accounts : Net(m, u)' = PutIn(match'[m], u)
  BY MappedNet DEF Engages, Paid
<1>4. [u \in Accounts |-> Net(m, u)']
        = Contract!PaidIn(<<match'[m].p1, match'[m].p2>>, match'[m].bet)
  BY <1>3 DEF Contract!PaidIn, PutIn
<1> QED BY <1>1, <1>2, <1>4 DEF Contract!Engage

LEMMA MappedTake ==
  ASSUME NEW m \in Matches, Takes(m)
  PROVE  Contract!Take(m)
<1>1. Phase(match[m]) = "offered" /\ Phase(match'[m]) = "engaged"
  BY DEF Takes, Phase
<1>2. match'[m].bet = match[m].bet
  BY DEF Takes
<1>3. \E u \in Accounts \ {<<match[m].p1, match[m].p2>>[1]} :
        <<match'[m].p1, match'[m].p2>> = <<<<match[m].p1, match[m].p2>>[1], u>>
  BY DEF Takes
<1>4. \A u \in Accounts : Net(m, u)' = PutIn(match'[m], u)
  BY MappedNet DEF Takes, Paid
<1>5. [u \in Accounts |-> Net(m, u)']
        = Contract!PaidIn(<<match'[m].p1, match'[m].p2>>, match[m].bet)
  BY <1>2, <1>4 DEF Contract!PaidIn, PutIn
<1> QED BY <1>1, <1>2, <1>3, <1>5 DEF Contract!Take

LEMMA MappedClose ==
  ASSUME NEW m \in Matches, Ends(m)
  PROVE  Contract!Close(m)
<1>1. Phase(match[m]) \in {"offered", "engaged"} /\ Phase(match'[m]) = "closed"
  BY DEF Ends, Phase
<1> QED BY <1>1 DEF Ends, SameTerms, Contract!Close

LEMMA MappedGiveBack ==
  ASSUME NEW m \in Matches, GivesBack(m)
  PROVE  Contract!GiveBack(m)
<1>1. Contract!Close(m)
  BY MappedClose DEF GivesBack
<1>2. [u \in Accounts |-> Net(m, u)'] = Contract!Nothing
  BY MappedNet DEF GivesBack, Contract!Nothing
<1> QED BY <1>1, <1>2 DEF Contract!GiveBack

LEMMA MappedPayOut ==
  ASSUME NEW m \in Matches, PaysOut(m)
  PROVE  Contract!PayOut(m)
<1>1. Contract!Close(m)
  BY MappedClose DEF PaysOut
<1>2. Phase(match[m]) = "engaged"
  BY DEF PaysOut, Phase
<1>3. PICK winner \in {match[m].p1, match[m].p2}, rake \in 0..(2 * match[m].bet) :
        \A u \in Accounts : NetOf(posted'[m], u) =
          PutIn(match[m], u) + (IF u = winner THEN 2 * match[m].bet - rake ELSE 0)
                             + (IF u = House THEN rake ELSE 0)
  BY DEF PaysOut
<1>4. \A u \in Accounts :
        Contract!PaidIn(<<match[m].p1, match[m].p2>>, match[m].bet)[u] = PutIn(match[m], u)
  BY DEF Contract!PaidIn, PutIn
<1>5. [u \in Accounts |-> Net(m, u)'] = [u \in Accounts |->
        Contract!PaidIn(<<match[m].p1, match[m].p2>>, match[m].bet)[u]
          + (IF u = winner THEN 2 * match[m].bet - rake ELSE 0)
          + (IF u = House THEN rake ELSE 0)]
  BY <1>3, <1>4, MappedNet
<1> QED BY <1>1, <1>2, <1>5 DEF Contract!PayOut

LEMMA MappedMoves ==
  ASSUME \A m \in Matches : Moves(m)
  PROVE  Contract!Next
BY MappedIdle, MappedOffer, MappedEngage, MappedTake, MappedGiveBack, MappedPayOut
   DEF Moves, Contract!Next

------------------------------------------------------------------------------
\* Every action makes each match move in one of these ways.

\* The rows of the tables.
LEMMA Rows ==
  ASSUME IInv, NEW m \in Matches
  PROVE  /\ match \in [Matches -> Row] /\ posted \in [Matches -> Books]
         /\ match[m] \in Row /\ posted[m] \in Books
         /\ match[m].bet \in Nat /\ match[m].kind \in Pockets
         /\ match[m].p1 # NoOne => match[m].p1 \in Accounts
         /\ RowOK(match[m])
BY DEF IInv, Agree, LedgerOK, Books, Row

\* A step that changes one match.
LEMMA OneMoves ==
  ASSUME IInv, NEW m \in Matches, NEW row, NEW book,
         match' = [match EXCEPT ![m] = row], posted' = [posted EXCEPT ![m] = book],
         match'[m] = row /\ posted'[m] = book => Moves(m)
  PROVE  \A k \in Matches : Moves(k)
<1>1. match'[m] = row /\ posted'[m] = book
  BY Rows
<1>2. ASSUME NEW k \in Matches \ {m} PROVE Stays(k)
  BY Rows DEF Stays, SameTerms
<1> QED BY <1>1, <1>2 DEF Moves

\* A step that changes no match.
LEMMA NoneMoves ==
  ASSUME IInv, match' = match, posted' = posted
  PROVE  \A k \in Matches : Moves(k)
BY DEF Moves, Stays, SameTerms

\* A match that is not there has moved no money.
LEMMA NothingYet ==
  ASSUME IInv, Booked, NEW m \in Matches, match[m].status = "NONE"
  PROVE  \A u \in Accounts : NetOf(posted[m], u) = 0
BY AccountsAssumption DEF Booked, PutIn

LEMMA CreateChallengeMoves ==
  ASSUME IInv, Booked, NEW m \in Matches, NEW c \in Players, NEW f \in Formats,
         NEW kind \in Pockets, NEW b \in Nat,
         NEW pair \in {"AUTO", "INVITE_CODE"}, NEW code \in Codes \cup {NoCode},
         CreateChallenge(m, c, f, kind, b, pair, code)
  PROVE  \A k \in Matches : Moves(k)
<1> DEFINE row  == NewRow(c, "HUMAN", pair, f, kind, b, code)
           book == Post(posted[m], "BET_LOCK", c, -b)
<1>1. /\ match[m].status = "NONE" /\ c \in Accounts
      /\ match' = [match EXCEPT ![m] = row] /\ posted' = [posted EXCEPT ![m] = book]
  BY DEF CreateChallenge, NextId, Accounts
<1>2. /\ row.status = "PENDING" /\ ~row.training /\ row.p1 = c /\ row.p2 = NoOne
      /\ row.bet = b
  BY NewRowEffect
<1>3. \A u \in Accounts : NetOf(book, u) = NetOf(posted[m], u) + IF u = c THEN -b ELSE 0
  BY <1>1, Rows, LockNet
<1>4. \A u \in Accounts : NetOf(book, u) = PutIn(row, u)
  BY <1>1, <1>2, <1>3, NothingYet, AccountsAssumption DEF PutIn
<1> HIDE DEF row, book
<1>5. match'[m] = row /\ posted'[m] = book => Offers(m)
  BY <1>1, <1>2, <1>4 DEF Offers, Paid
<1> QED BY <1>1, <1>5, OneMoves DEF Moves

LEMMA CreateVsHouseMoves ==
  ASSUME IInv, Booked, NEW m \in Matches, NEW c \in Players, NEW f \in Formats,
         NEW kind \in Pockets, NEW b \in Nat, CreateVsHouse(m, c, f, kind, b)
  PROVE  \A k \in Matches : Moves(k)
<1> DEFINE new  == NewRow(c, "AI", "AUTO", f, kind, b, NoCode)
           row  == Started(new, House)
           once == Post(posted[m], "BET_LOCK", c, -b)
           book == Post(once, "BET_LOCK", House, -b)
<1>1. /\ match[m].status = "NONE" /\ c \in Accounts /\ House \in Accounts /\ c # House
      /\ match' = [match EXCEPT ![m] = row] /\ posted' = [posted EXCEPT ![m] = book]
  BY AccountsAssumption DEF CreateVsHouse, NextId, Accounts
<1>2. /\ new \in Row /\ ~new.training /\ new.p1 = c /\ new.bet = b
  BY NewRowEffect
<1> HIDE DEF new
<1>3. /\ row.status = "ACTIVE" /\ ~row.training /\ row.p1 = c /\ row.p2 = House
      /\ row.bet = b
  BY <1>1, <1>2, StartedEffect
<1>4. once \in Books
      /\ \A u \in Accounts : NetOf(once, u) = NetOf(posted[m], u) + IF u = c THEN -b ELSE 0
  BY <1>1, Rows, LockNet
<1> HIDE DEF once
<1>5. \A u \in Accounts : NetOf(book, u) = NetOf(once, u) + IF u = House THEN -b ELSE 0
  BY <1>1, <1>4, LockNet
<1>6. \A u \in Accounts : NetOf(book, u) = PutIn(row, u)
  BY <1>1, <1>3, <1>4, <1>5, NothingYet DEF PutIn
<1> HIDE DEF row, book
<1>7. match'[m] = row /\ posted'[m] = book => Engages(m)
  BY <1>1, <1>3, <1>6 DEF Engages, Paid
<1> QED BY <1>1, <1>7, OneMoves DEF Moves

LEMMA CreateTrainingMoves ==
  ASSUME IInv, Booked, NEW m \in Matches, NEW c \in Players, NEW f \in Formats,
         CreateTraining(m, c, f)
  PROVE  \A k \in Matches : Moves(k)
<1> DEFINE new == NewRow(c, "AI", "AUTO", f, "REAL", 0, NoCode)
           row == [Started(new, House) EXCEPT !.training = TRUE]
<1>1. /\ match[m].status = "NONE" /\ c \in Accounts /\ House \in Accounts
      /\ match' = [match EXCEPT ![m] = row] /\ posted' = posted
  BY DEF CreateTraining, NextId, Accounts
<1>2. /\ new \in Row /\ new.p1 = c /\ new.bet = 0
  BY NewRowEffect DEF Pockets
<1> HIDE DEF new
<1>3. /\ row.status = "ACTIVE" /\ row.p1 = c /\ row.p2 = House /\ row.bet = 0
  <2> DEFINE started == Started(new, House)
  <2>1. /\ started \in Row /\ started.status = "ACTIVE"
        /\ started.p1 = c /\ started.p2 = House /\ started.bet = 0
    BY <1>1, <1>2, StartedEffect
  <2> HIDE DEF started
  <2>2. LET r == [started EXCEPT !.training = TRUE] IN
        /\ r.status = "ACTIVE" /\ r.p1 = c /\ r.p2 = House /\ r.bet = 0
    BY <2>1 DEF Row
  <2> QED BY <2>2 DEF started
<1>4. \A u \in Accounts : NetOf(posted[m], u) = PutIn(row, u)
  BY <1>3, <1>1, NothingYet DEF PutIn
<1> HIDE DEF row
<1>5. posted' = [posted EXCEPT ![m] = posted[m]]
  BY <1>1, Rows
<1>6. match'[m] = row /\ posted'[m] = posted[m] => Engages(m)
  BY <1>1, <1>3, <1>4 DEF Engages, Paid
<1> QED BY <1>1, <1>5, <1>6, OneMoves DEF Moves

\* Both ways of joining; the row may have lost its code.
LEMMA JoinMoves ==
  ASSUME IInv, Booked, NEW m \in Matches, NEW j \in Players, NEW before \in Row,
         match[m].status = "PENDING", j # match[m].p1,
         before.bet = match[m].bet, before.training = match[m].training,
         before.p1 = match[m].p1, Join(m, j, before)
  PROVE  \A k \in Matches : Moves(k)
<1> DEFINE row  == Started(before, j)
           bet  == match[m].bet
           book == Post(posted[m], "BET_LOCK", j, -bet)
<1>1. /\ j \in Accounts /\ j # NoOne
      /\ match' = [match EXCEPT ![m] = row] /\ posted' = [posted EXCEPT ![m] = book]
  BY AccountsAssumption DEF Join, Accounts
<1>2. /\ row.status = "ACTIVE" /\ row.training = match[m].training
      /\ row.p1 = match[m].p1 /\ row.p2 = j /\ row.bet = bet
  BY <1>1, StartedEffect
<1>3. bet \in Nat /\ match[m].p2 = NoOne
  BY Rows DEF RowOK
<1>4. \A u \in Accounts : NetOf(book, u) = NetOf(posted[m], u) + IF u = j THEN -bet ELSE 0
  BY <1>1, <1>3, Rows, LockNet
<1>5. \A u \in Accounts : NetOf(posted[m], u) = IF u = match[m].p1 THEN -bet ELSE 0
  BY <1>3, AccountsAssumption DEF Booked, PutIn
<1> HIDE DEF row, book, bet
<1>6. \A u \in Accounts : NetOf(book, u) = PutIn(row, u)
  BY <1>2, <1>3, <1>4, <1>5 DEF PutIn
<1>7. match'[m] = row /\ posted'[m] = book => Takes(m)
  BY <1>1, <1>2, <1>6 DEF Takes, Paid, bet
<1> QED BY <1>1, <1>7, OneMoves DEF Moves

LEMMA JoinFromLobbyMoves ==
  ASSUME IInv, Booked, NEW m \in Matches, NEW j \in Players, JoinFromLobby(m, j)
  PROVE  \A k \in Matches : Moves(k)
BY Rows, JoinMoves DEF JoinFromLobby, Joinable

LEMMA JoinByCodeMoves ==
  ASSUME IInv, Booked, NEW m \in Matches, NEW j \in Players, NEW c \in Codes,
         JoinByCode(m, j, c)
  PROVE  \A k \in Matches : Moves(k)
<1> DEFINE before == [match[m] EXCEPT !.code = NoCode]
<1>1. match[m].status = "PENDING" /\ j # match[m].p1 /\ Join(m, j, before)
  BY DEF JoinByCode, Joinable
<1>2. /\ before \in Row /\ before.training = match[m].training
      /\ before.bet = match[m].bet /\ before.p1 = match[m].p1
  <2>1. match[m] \in Row
    BY Rows
  <2>2. before \in Row
    BY <2>1, RecodedRow
  <2> QED BY <2>1, <2>2, Zenon DEF Row
<1> HIDE DEF before
<1> QED BY <1>1, <1>2, JoinMoves

\* A new code, or an old one: nobody and no money moves.
LEMMA CodeMoves ==
  ASSUME IInv, NEW m \in Matches, NEW row,
         match' = [match EXCEPT ![m] = row], posted' = posted,
         row.status = match[m].status, row.training = match[m].training,
         row.bet = match[m].bet, row.p1 = match[m].p1, row.p2 = match[m].p2
  PROVE  \A k \in Matches : Moves(k)
<1>1. posted' = [posted EXCEPT ![m] = posted[m]]
  BY Rows
<1>2. match'[m] = row /\ posted'[m] = posted[m] => Stays(m)
  BY DEF Stays, SameTerms
<1> QED BY <1>1, <1>2, OneMoves DEF Moves

LEMMA RegenerateCodeMoves ==
  ASSUME IInv, NEW m \in Matches, NEW c \in Codes, RegenerateCode(m, c)
  PROVE  \A k \in Matches : Moves(k)
<1> DEFINE row == [match[m] EXCEPT !.code = c, !.expired = FALSE]
<1>1. /\ row.status = match[m].status /\ row.training = match[m].training
      /\ row.bet = match[m].bet /\ row.p1 = match[m].p1 /\ row.p2 = match[m].p2
  BY Rows DEF Row
<1>2. match' = [match EXCEPT ![m] = row] /\ posted' = posted
  BY Rows DEF RegenerateCode, Row
<1> HIDE DEF row
<1> QED BY <1>1, <1>2, CodeMoves

LEMMA ExpireCodeMoves ==
  ASSUME IInv, NEW m \in Matches, ExpireCode(m)
  PROVE  \A k \in Matches : Moves(k)
<1> DEFINE row == [match[m] EXCEPT !.expired = TRUE]
<1>1. /\ row.status = match[m].status /\ row.training = match[m].training
      /\ row.bet = match[m].bet /\ row.p1 = match[m].p1 /\ row.p2 = match[m].p2
  BY Rows DEF Row
<1>2. match' = [match EXCEPT ![m] = row] /\ posted' = posted
  BY Rows DEF ExpireCode, Row
<1> HIDE DEF row
<1> QED BY <1>1, <1>2, CodeMoves

\* The creator of a waiting challenge gets his stake back, and nobody else has any in it.
LEMMA CreatorNet ==
  ASSUME IInv, Booked, NEW m \in Matches, match[m].status = "PENDING"
  PROVE  LET book == Post(posted[m], "REFUND", match[m].p1, match[m].bet)
         IN  book \in Books /\ \A u \in Accounts : NetOf(book, u) = 0
<1>1. /\ match[m].p1 \in Accounts /\ match[m].p2 = NoOne /\ match[m].bet \in Nat
      /\ posted[m] \in Books
  BY Rows DEF RowOK
<1>2. \A u \in Accounts :
        NetOf(posted[m], u) = IF u = match[m].p1 THEN -match[m].bet ELSE 0
  BY <1>1, AccountsAssumption DEF Booked, PutIn
<1> QED BY <1>1, <1>2, RefundNet

LEMMA CancelMoves ==
  ASSUME IInv, Booked, NEW m \in Matches, Cancel(m)
  PROVE  \A k \in Matches : Moves(k)
<1> DEFINE row  == [match[m] EXCEPT !.status = "CANCELLED"]
           book == Post(posted[m], "REFUND", match[m].p1, match[m].bet)
<1>1. /\ match[m].status = "PENDING"
      /\ match' = [match EXCEPT ![m] = row] /\ posted' = [posted EXCEPT ![m] = book]
  BY Rows DEF Cancel, Row
<1>2. /\ row.status = "CANCELLED" /\ row.training = match[m].training
      /\ row.bet = match[m].bet /\ row.p1 = match[m].p1 /\ row.p2 = match[m].p2
  BY Rows DEF Row
<1>3. \A u \in Accounts : NetOf(book, u) = 0
  BY <1>1, CreatorNet
<1> HIDE DEF row, book
<1>4. match'[m] = row /\ posted'[m] = book => GivesBack(m)
  BY <1>1, <1>2, <1>3 DEF GivesBack, Ends, SameTerms
<1> QED BY <1>1, <1>4, OneMoves DEF Moves

\* The younger challenge gives its stake back while the older one takes it.
LEMMA MergeMoves ==
  ASSUME IInv, Booked, NEW w \in Workers, NEW a \in Matches, NEW b \in Matches,
         Merge(w, a, b)
  PROVE  \A k \in Matches : Moves(k)
<1> DEFINE second == match[b].p1
           bet    == match[a].bet
           row    == Started(match[a], second)
           closed == [match[b] EXCEPT !.status = "CANCELLED"]
           taken  == Post(posted[a], "BET_LOCK", second, -bet)
           freed  == Post(posted[b], "REFUND", second, bet)
<1>1. a # b
  <2>1. a \in Nat /\ b \in Nat /\ a < b
    BY AmountsAssumption DEF Matches, Merge
  <2> QED BY <2>1
<1>2. /\ match[a].status = "PENDING" /\ match[b].status = "PENDING"
      /\ match[b].bet = bet /\ match[a].p1 # second
  BY DEF Merge, Mergeable, Compatible
<1>3. /\ match' = [match EXCEPT ![a] = row, ![b] = closed]
      /\ posted' = [posted EXCEPT ![a] = taken, ![b] = freed]
  BY <1>1, Rows DEF Merge, Row
<1>4. second \in Accounts /\ bet \in Nat /\ match[a].p2 = NoOne
  BY <1>2, Rows DEF RowOK
<1>5. /\ row.status = "ACTIVE" /\ row.training = match[a].training
      /\ row.p1 = match[a].p1 /\ row.p2 = second /\ row.bet = bet
  BY <1>4, Rows, StartedEffect
<1>6. /\ closed.status = "CANCELLED" /\ closed.training = match[b].training
      /\ closed.bet = match[b].bet /\ closed.p1 = match[b].p1 /\ closed.p2 = match[b].p2
  BY Rows DEF Row
<1>7. \A u \in Accounts : NetOf(freed, u) = 0
  BY <1>2, CreatorNet
<1>8. \A u \in Accounts :
        NetOf(taken, u) = NetOf(posted[a], u) + IF u = second THEN -bet ELSE 0
  BY <1>4, Rows, LockNet
<1>9. \A u \in Accounts : NetOf(posted[a], u) = IF u = match[a].p1 THEN -bet ELSE 0
  BY <1>2, <1>4, AccountsAssumption DEF Booked, PutIn
<1> HIDE DEF row, closed, taken, freed
<1>10. \A u \in Accounts : NetOf(taken, u) = PutIn(row, u)
  BY <1>2, <1>4, <1>5, <1>8, <1>9 DEF PutIn
<1>11. /\ match'[a] = row /\ match'[b] = closed /\ posted'[a] = taken /\ posted'[b] = freed
       /\ \A k \in Matches \ {a, b} : match'[k] = match[k] /\ posted'[k] = posted[k]
  BY <1>1, <1>3, Rows
<1>12. Takes(a)
  BY <1>2, <1>4, <1>5, <1>10, <1>11 DEF Takes, Paid
<1>13. GivesBack(b)
  BY <1>2, <1>6, <1>7, <1>11 DEF GivesBack, Ends, SameTerms
<1>14. \A k \in Matches \ {a, b} : Stays(k)
  BY <1>11 DEF Stays, SameTerms
<1> QED BY <1>12, <1>13, <1>14 DEF Moves

------------------------------------------------------------------------------
\* The ends of a match.

\* What a row keeps when its match ends.
LEMMA ClosedKeeps ==
  ASSUME NEW row \in Row, NEW status \in {"COMPLETED", "CANCELLED"}, NEW reason, NEW winner
  PROVE  LET end == Closed(row, status, reason, winner)
         IN  /\ end.status = status /\ end.training = row.training /\ end.bet = row.bet
             /\ end.p1 = row.p1 /\ end.p2 = row.p2
BY DEF Closed, Row

\* A step that ends match m, whatever it does to the ledger rows of m.
LEMMA EndStep ==
  ASSUME IInv, NEW m \in Matches, NEW end, NEW book,
         match[m].status = "PENDING" \/ match[m].status = "ACTIVE",
         end.status = "COMPLETED" \/ end.status = "CANCELLED", end.training = match[m].training,
         end.bet = match[m].bet, end.p1 = match[m].p1, end.p2 = match[m].p2,
         match' = [match EXCEPT ![m] = end], posted' = [posted EXCEPT ![m] = book]
  PROVE  Ends(m) /\ posted'[m] = book /\ \A k \in Matches \ {m} : Stays(k)
<1>1. match'[m] = end /\ posted'[m] = book
  BY Rows
<1>2. Ends(m)
  BY <1>1 DEF Ends, SameTerms
<1>3. \A k \in Matches \ {m} : Stays(k)
  BY Rows DEF Stays, SameTerms
<1> QED BY <1>1, <1>2, <1>3

\* A training match has moved no money.
LEMMA TrainingNet ==
  ASSUME IInv, Booked, NEW m \in Matches, match[m].training,
         match[m].status \in {"PENDING", "ACTIVE"}
  PROVE  \A u \in Accounts : NetOf(posted[m], u) = 0
BY DEF Booked, PutIn

\* The ledger rows of a running match are one stake of each player.
LEMMA RunningNet ==
  ASSUME IInv, Booked, NEW m \in Matches, match[m].status = "ACTIVE"
  PROVE  /\ match[m].p1 \in Accounts /\ match[m].p2 \in Accounts
         /\ match[m].p1 # match[m].p2
         /\ match[m].bet \in Nat /\ posted[m] \in Books
         /\ \A u \in Accounts : NetOf(posted[m], u)
              = (IF u = match[m].p1 THEN -match[m].bet ELSE 0)
                + (IF u = match[m].p2 THEN -match[m].bet ELSE 0)
<1>1. /\ match[m].p1 \in Accounts /\ match[m].p2 \in Accounts
      /\ match[m].p1 # match[m].p2
      /\ match[m].bet \in Nat /\ posted[m] \in Books
  BY Rows DEF RowOK
<1>2. \A u \in Accounts : NetOf(posted[m], u) = PutIn(match[m], u)
  BY DEF Booked
<1> QED BY <1>1, <1>2 DEF PutIn

\* refund_escrow for both players.
LEMMA RefundBothNet ==
  ASSUME IInv, Booked, NEW m \in Matches, match[m].status = "ACTIVE", RefundBoth(m)
  PROVE  \E book : /\ posted' = [posted EXCEPT ![m] = book]
                   /\ \A u \in Accounts : NetOf(book, u) = 0
<1> DEFINE once == Post(posted[m], "REFUND", match[m].p1, match[m].bet)
           book == Post(once, "REFUND", match[m].p2, match[m].bet)
<1>1. posted' = [posted EXCEPT ![m] = book]
  BY DEF RefundBoth
<1>2. once \in Books
      /\ \A u \in Accounts : NetOf(once, u)
           = NetOf(posted[m], u) + IF u = match[m].p1 THEN match[m].bet ELSE 0
  BY RunningNet, RefundNet
<1> HIDE DEF once
<1>3. \A u \in Accounts : NetOf(book, u)
        = NetOf(once, u) + IF u = match[m].p2 THEN match[m].bet ELSE 0
  BY <1>2, RunningNet, RefundNet
<1> HIDE DEF book
<1>4. \A u \in Accounts : NetOf(book, u) = 0
  BY <1>2, <1>3, RunningNet
<1> QED BY <1>1, <1>4

\* settle_escrow: the winner has the pot net of the rake, the house the rake.
LEMMA PayWinnerBook ==
  ASSUME IInv, Booked, NEW m \in Matches, match[m].status = "ACTIVE",
         NEW winner \in {match[m].p1, match[m].p2}, NEW percent \in RakePercents,
         PayWinner(m, winner, Opponent(m, winner), percent),
         NEW rake, rake = Rake(2 * match[m].bet, match[m].kind, percent)
  PROVE  /\ rake \in 0..(2 * match[m].bet)
         /\ \E book \in Books :
              /\ posted' = [posted EXCEPT ![m] = book]
              /\ \A u \in Accounts : NetOf(book, u) =
                   NetOf(posted[m], u) + (IF u = winner THEN 2 * match[m].bet - rake ELSE 0)
                                       + (IF u = House THEN rake ELSE 0)
<1> DEFINE bet  == match[m].bet
           gain == 2 * bet - rake
           won  == Post(posted[m], "BET_WIN", winner, gain)
           both == Post(won, "COMMISSION", House, rake)
           book == IF rake > 0 THEN both ELSE won
<1>1. /\ bet \in Nat /\ winner \in Accounts /\ House \in Accounts /\ posted[m] \in Books
      /\ "BET_WIN" \in MatchTx /\ "COMMISSION" \in MatchTx
  BY RunningNet DEF Accounts, MatchTx
<1>2. rake \in 0..(2 * bet)
  <2>1. percent \in 0..100 /\ 2 * bet \in Nat
    BY <1>1, AmountsAssumption
  <2> QED BY <2>1, RakeBounds
<1>3. posted' = [posted EXCEPT ![m] = book]
  BY DEF PayWinner
<1>4. rake \in Int /\ gain \in Int
  BY <1>1, <1>2
<1> HIDE DEF gain
<1>5. won \in Books
      /\ \A u \in Accounts :
           /\ NetOf(posted[m], u) \in Int
           /\ NetOf(won, u) = NetOf(posted[m], u) + IF u = winner THEN gain ELSE 0
  <2>1. \A t \in MatchTx, c \in Accounts, x \in Int : Post(posted[m], t, c, x) \in Books
    BY <1>1, PostNet
  <2>2. won \in Books
    BY <1>1, <1>4, <2>1
  <2>3. \A u \in Accounts :
          NetOf(won, u) = NetOf(posted[m], u) + IF u = winner THEN gain ELSE 0
    <3>1. posted[m] \in Books /\ winner \in Accounts /\ gain \in Int /\ "BET_WIN" \in MatchTx
      BY <1>1, <1>4
    <3>2. \A u \in Accounts :
            /\ NetOf(posted[m], u) \in Int
            /\ NetOf(Post(posted[m], "BET_WIN", winner, gain), u)
                 = NetOf(posted[m], u) + IF u = winner THEN gain ELSE 0
      BY <3>1, PostNet
    <3> QED BY <3>2
  <2> HIDE DEF won
  <2> QED BY <1>1, <2>2, <2>3, NetType
<1> HIDE DEF won
<1>6. both \in Books
      /\ \A u \in Accounts : NetOf(both, u) = NetOf(won, u) + IF u = House THEN rake ELSE 0
  <2>1. both \in Books
    BY <1>1, <1>4, <1>5, PostNet
  <2>2. won \in Books /\ House \in Accounts /\ rake \in Int /\ "COMMISSION" \in MatchTx
    BY <1>1, <1>4, <1>5
  <2>3. \A u \in Accounts :
          /\ NetOf(won, u) \in Int
          /\ NetOf(Post(won, "COMMISSION", House, rake), u)
               = NetOf(won, u) + IF u = House THEN rake ELSE 0
    BY <2>2, PostNet
  <2> QED BY <2>1, <2>3
<1> HIDE DEF both
<1>7. book \in Books
      /\ \A u \in Accounts : NetOf(book, u) = NetOf(won, u) + IF u = House THEN rake ELSE 0
  <2>1. CASE rake > 0
    BY <1>6, <2>1
  <2>2. CASE rake = 0
    <3>1. book = won
      BY <2>2
    <3>2. \A u \in Accounts : NetOf(won, u) \in Int
      BY <1>5, NetType
    <3> QED BY <1>5, <2>2, <3>1, <3>2
  <2> QED BY <1>2, <1>1, <2>1, <2>2
<1>8. \A u \in Accounts : NetOf(book, u) =
        NetOf(posted[m], u) + (IF u = winner THEN gain ELSE 0)
                            + (IF u = House THEN rake ELSE 0)
  BY <1>5, <1>7
<1> HIDE DEF book
<1> QED BY <1>2, <1>3, <1>7, <1>8 DEF gain

LEMMA PayWinnerNet ==
  ASSUME IInv, Booked, NEW m \in Matches, match[m].status = "ACTIVE",
         NEW winner \in {match[m].p1, match[m].p2}, NEW percent \in RakePercents,
         PayWinner(m, winner, Opponent(m, winner), percent)
  PROVE  \E rake \in 0..(2 * match[m].bet) : \E book :
           /\ posted' = [posted EXCEPT ![m] = book]
           /\ \A u \in Accounts : NetOf(book, u) =
                PutIn(match[m], u) + (IF u = winner THEN 2 * match[m].bet - rake ELSE 0)
                                   + (IF u = House THEN rake ELSE 0)
<1> DEFINE rake == Rake(2 * match[m].bet, match[m].kind, percent)
<1>1. /\ rake \in 0..(2 * match[m].bet)
      /\ \E book \in Books :
           /\ posted' = [posted EXCEPT ![m] = book]
           /\ \A u \in Accounts : NetOf(book, u) =
                NetOf(posted[m], u) + (IF u = winner THEN 2 * match[m].bet - rake ELSE 0)
                                    + (IF u = House THEN rake ELSE 0)
  BY PayWinnerBook
<1> HIDE DEF rake
<1>2. PICK book \in Books :
        /\ posted' = [posted EXCEPT ![m] = book]
        /\ \A u \in Accounts : NetOf(book, u) =
             NetOf(posted[m], u) + (IF u = winner THEN 2 * match[m].bet - rake ELSE 0)
                                 + (IF u = House THEN rake ELSE 0)
  BY <1>1
<1>3. \A u \in Accounts : NetOf(posted[m], u) = PutIn(match[m], u)
  BY DEF Booked
<1>4. \A u \in Accounts : NetOf(book, u) =
        PutIn(match[m], u) + (IF u = winner THEN 2 * match[m].bet - rake ELSE 0)
                           + (IF u = House THEN rake ELSE 0)
  BY <1>2, <1>3
<1>5. \E b : /\ posted' = [posted EXCEPT ![m] = b]
              /\ \A u \in Accounts : NetOf(b, u) =
                   PutIn(match[m], u) + (IF u = winner THEN 2 * match[m].bet - rake ELSE 0)
                                      + (IF u = House THEN rake ELSE 0)
  BY <1>2, <1>4
<1>6. rake \in 0..(2 * match[m].bet)
  BY <1>1
<1> QED BY <1>5, <1>6

LEMMA WinMoves ==
  ASSUME IInv, Booked, NEW m \in Matches, NEW winner,
         NEW reason \in {"WIN", "FORFEIT"}, NEW percent \in RakePercents,
         Win(m, winner, reason, percent)
  PROVE  \A k \in Matches : Moves(k)
<1> DEFINE end == Closed(match[m], "COMPLETED", reason, winner)
<1>1. /\ match[m].status = "ACTIVE"
      /\ winner \in {match[m].p1, match[m].p2}
      /\ match' = [match EXCEPT ![m] = end]
  BY DEF Win, Running
<1>0. /\ end.status = "COMPLETED" /\ end.training = match[m].training
      /\ end.bet = match[m].bet /\ end.p1 = match[m].p1 /\ end.p2 = match[m].p2
  BY Rows, ClosedKeeps
<1> HIDE DEF end
<1>2. CASE match[m].training
  <2>1. posted' = [posted EXCEPT ![m] = posted[m]]
    BY <1>2, Rows DEF Win
  <2>2. Ends(m) /\ posted'[m] = posted[m] /\ \A k \in Matches \ {m} : Stays(k)
    BY <1>0, <1>1, <2>1, EndStep
  <2>3. GivesBack(m)
    BY <1>1, <1>2, <2>2, TrainingNet DEF GivesBack
  <2> QED BY <2>2, <2>3 DEF Moves
<1>3. CASE ~match[m].training
  <2>1. PayWinner(m, winner, Opponent(m, winner), percent)
    BY <1>3 DEF Win
  <2>2. PICK rake \in 0..(2 * match[m].bet) : \E book :
          /\ posted' = [posted EXCEPT ![m] = book]
          /\ \A u \in Accounts : NetOf(book, u) =
               PutIn(match[m], u) + (IF u = winner THEN 2 * match[m].bet - rake ELSE 0)
                                  + (IF u = House THEN rake ELSE 0)
    BY <1>1, <2>1, PayWinnerNet
  <2>3. PICK book :
          /\ posted' = [posted EXCEPT ![m] = book]
          /\ \A u \in Accounts : NetOf(book, u) =
               PutIn(match[m], u) + (IF u = winner THEN 2 * match[m].bet - rake ELSE 0)
                                  + (IF u = House THEN rake ELSE 0)
    BY <2>2
  <2>4. Ends(m) /\ posted'[m] = book /\ \A k \in Matches \ {m} : Stays(k)
    BY <1>0, <1>1, <2>3, EndStep
  <2>5. PaysOut(m)
    BY <1>1, <2>3, <2>4 DEF PaysOut
  <2> QED BY <2>4, <2>5 DEF Moves
<1> QED BY <1>2, <1>3

LEMMA DrawMoves ==
  ASSUME IInv, Booked, NEW m \in Matches, Draw(m)
  PROVE  \A k \in Matches : Moves(k)
<1> DEFINE end == Closed(match[m], "COMPLETED", "DRAW", NoOne)
<1>1. /\ match[m].status = "ACTIVE"
      /\ match' = [match EXCEPT ![m] = end]
  BY DEF Draw, Running
<1>0. /\ end.status = "COMPLETED" /\ end.training = match[m].training
      /\ end.bet = match[m].bet /\ end.p1 = match[m].p1 /\ end.p2 = match[m].p2
  BY Rows, ClosedKeeps
<1> HIDE DEF end
<1>2. PICK book : /\ posted' = [posted EXCEPT ![m] = book]
                  /\ \A u \in Accounts : NetOf(book, u) = 0
  <2>1. CASE match[m].training
    <3>1. posted' = [posted EXCEPT ![m] = posted[m]]
      BY <2>1, Rows DEF Draw
    <3> QED BY <1>1, <2>1, <3>1, TrainingNet
  <2>2. CASE ~match[m].training
    BY <1>1, <2>2, RefundBothNet DEF Draw
  <2> QED BY <2>1, <2>2
<1>3. Ends(m) /\ posted'[m] = book /\ \A k \in Matches \ {m} : Stays(k)
  BY <1>0, <1>1, <1>2, EndStep
<1>4. GivesBack(m)
  BY <1>2, <1>3 DEF GivesBack
<1> QED BY <1>3, <1>4 DEF Moves

LEMMA VoidMoves ==
  ASSUME IInv, Booked, NEW m \in Matches, Void(m)
  PROVE  \A k \in Matches : Moves(k)
<1> DEFINE end == Closed(match[m], "CANCELLED", "VOID", match[m].winner)
<1>1. /\ match[m].status \in {"PENDING", "ACTIVE"}
      /\ match' = [match EXCEPT ![m] = end]
  BY DEF Void, Voidable
<1>0. /\ end.status = "CANCELLED" /\ end.training = match[m].training
      /\ end.bet = match[m].bet /\ end.p1 = match[m].p1 /\ end.p2 = match[m].p2
  BY Rows, ClosedKeeps
<1> HIDE DEF end
<1>2. PICK book : /\ posted' = [posted EXCEPT ![m] = book]
                  /\ \A u \in Accounts : NetOf(book, u) = 0
  <2>1. CASE match[m].training
    <3>1. posted' = [posted EXCEPT ![m] = posted[m]]
      BY <2>1, Rows DEF Void
    <3> QED BY <1>1, <2>1, <3>1, TrainingNet
  <2>2. CASE ~match[m].training /\ match[m].p2 # NoOne
    <3>1. RefundBoth(m)
      BY <2>2 DEF Void
    <3>2. match[m].status = "ACTIVE"
      BY <1>1, <2>2, Rows DEF RowOK
    <3> QED BY <3>1, <3>2, RefundBothNet
  <2>3. CASE ~match[m].training /\ match[m].p2 = NoOne
    <3>1. posted' = [posted EXCEPT
            ![m] = Post(posted[m], "REFUND", match[m].p1, match[m].bet)]
      BY <2>3 DEF Void
    <3>2. match[m].status = "PENDING"
      BY <1>1, <2>3, Rows, AccountsAssumption DEF RowOK
    <3> QED BY <3>1, <3>2, CreatorNet
  <2> QED BY <2>1, <2>2, <2>3
<1>3. Ends(m) /\ posted'[m] = book /\ \A k \in Matches \ {m} : Stays(k)
  BY <1>0, <1>1, <1>2, EndStep
<1>4. GivesBack(m)
  BY <1>2, <1>3 DEF GivesBack
<1> QED BY <1>3, <1>4 DEF Moves

------------------------------------------------------------------------------
\* The refinement.

LEMMA AbsentRow ==
  /\ Absent.status = "NONE" /\ Absent.pairing = "AUTO" /\ Absent.bet = 0
  /\ Absent.p1 = NoOne /\ Absent.p2 = NoOne
BY DEF Absent

LEMMA InitNet ==
  ASSUME Init, NEW m \in Matches
  PROVE  match[m] = Absent /\ \A u \in Accounts : NetOf(posted[m], u) = 0
<1>1. match[m] = Absent
  BY DEF Init
<1>2. \A t \in MatchTx, u \in Accounts : posted[m][t][u] = 0
  BY DEF Init
<1> QED BY <1>1, <1>2 DEF NetOf, MatchTx

LEMMA InitBooked == Init => Booked
<1> SUFFICES ASSUME Init, NEW m \in Matches
    PROVE  /\ match[m].p1 = NoOne /\ match[m].p2 = NoOne /\ match[m].bet = 0
           /\ \A u \in Accounts : NetOf(posted[m], u) = 0
  BY DEF Booked, PutIn
<1> QED BY InitNet, AbsentRow

LEMMA InitMapped == Init => Contract!Init
<1> SUFFICES ASSUME Init PROVE Contract!Init
  OBVIOUS
<1>1. ASSUME NEW m \in Matches
      PROVE  /\ Phase(match[m]) = "none" /\ match[m].bet = 0
             /\ <<match[m].p1, match[m].p2>> = <<NoOne, NoOne>>
             /\ [u \in Accounts |-> Net(m, u)] = Contract!Nothing
  <2>1. match[m] = Absent /\ \A u \in Accounts : Net(m, u) = 0
    BY InitNet, MappedNet
  <2>2. Phase(Absent) = "none"
    BY AbsentRow DEF Phase
  <2> QED BY <2>1, <2>2, AbsentRow DEF Contract!Nothing
<1> QED BY <1>1 DEF Contract!Init

LEMMA LobbyMoves ==
  ASSUME IInv, Booked, Lobby
  PROVE  \A k \in Matches : Moves(k)
<1>1. /\ Bets \subseteq Nat /\ Kinds \subseteq Pockets
      /\ Modes \cap {"AUTO", "INVITE_CODE"} \subseteq {"AUTO", "INVITE_CODE"}
  BY AmountsAssumption DEF Pockets
<1>2. CASE \E m \in Matches, c \in Players, f \in Formats, k \in Kinds, b \in Bets,
              p \in Modes \cap {"AUTO", "INVITE_CODE"},
              code \in Codes \cup {NoCode} :
             CreateChallenge(m, c, f, k, b, p, code)
  BY <1>1, <1>2, CreateChallengeMoves
<1>3. CASE \E m \in Matches, c \in Players, f \in Formats, k \in Kinds, b \in Bets :
             "AI" \in Modes /\ CreateVsHouse(m, c, f, k, b)
  BY <1>1, <1>3, CreateVsHouseMoves
<1>4. CASE \E m \in Matches, c \in Players, f \in Formats :
             "TRAINING" \in Modes /\ CreateTraining(m, c, f)
  BY <1>4, CreateTrainingMoves
<1>5. CASE \E m \in Matches, j \in Players : JoinFromLobby(m, j)
  BY <1>5, JoinFromLobbyMoves
<1>6. CASE \E m \in Matches, j \in Players, c \in Codes : JoinByCode(m, j, c)
  BY <1>6, JoinByCodeMoves
<1>7. CASE \E m \in Matches, c \in Codes : RegenerateCode(m, c)
  BY <1>7, RegenerateCodeMoves
<1>8. CASE \E m \in Matches : ExpireCode(m)
  BY <1>8, ExpireCodeMoves
<1>9. CASE \E m \in Matches : Cancel(m)
  BY <1>9, CancelMoves
<1> QED BY <1>2, <1>3, <1>4, <1>5, <1>6, <1>7, <1>8, <1>9 DEF Lobby

\* Every step of Escrow is a move of every match.
LEMMA NextMoves ==
  ASSUME IInv, Booked, [Next]_vars
  PROVE  \A k \in Matches : Moves(k)
<1>1. CASE Lobby
  BY <1>1, LobbyMoves
<1>2. CASE Pairing
  <2>1. CASE \E w \in Workers : AutoPairScan(w)
    BY <2>1, NoneMoves DEF AutoPairScan
  <2>2. CASE \E w \in Workers, a, b \in Matches : Merge(w, a, b)
    BY <2>2, MergeMoves
  <2> QED BY <1>2, <2>1, <2>2 DEF Pairing
<1>3. CASE Resolution
  <2>1. CASE \E m \in Matches, u \in Accounts, r \in RakePercents : Win(m, u, "WIN", r)
    BY <2>1, WinMoves
  <2>2. CASE \E m \in Matches, u \in Players, r \in RakePercents : Forfeit(m, u, r)
    BY <2>2, WinMoves DEF Forfeit
  <2>3. CASE \E m \in Matches : Draw(m)
    BY <2>3, DrawMoves
  <2>4. CASE \E m \in Matches : Void(m)
    BY <2>4, VoidMoves
  <2> QED BY <1>3, <2>1, <2>2, <2>3, <2>4 DEF Resolution
<1>4. CASE Cashier
  BY <1>4, NoneMoves DEF Cashier, Fund, Withdraw
<1>5. CASE UNCHANGED vars
  BY <1>5, NoneMoves DEF vars
<1> QED BY <1>1, <1>2, <1>3, <1>4, <1>5 DEF Next

\* The books of every match that has not ended are in order in every reachable state.
THEOREM BooksInOrder == Spec => []Booked
<1>1. Init => Booked
  BY InitBooked
<1>2. IInv /\ Booked /\ [Next]_vars => Booked'
  BY NextMoves, MovesBooked
<1> QED BY <1>1, <1>2, InductiveInvariant, PTL DEF Spec

\* Escrow implements Wager: whatever joins, merges, cancellations, resolutions and
\* voids do in whatever order, each stake goes in once, and is given back or paid
\* out once (the row locks and status checks of matchmaking and resolution).
THEOREM ImplementsWager == Spec => KeepsTheWager
<1>1. Init => Contract!Init
  BY InitMapped
<1>2. IInv /\ Booked /\ [Next]_vars => [Contract!Next]_Contract!wagers
  <2> SUFFICES ASSUME IInv, Booked, [Next]_vars
      PROVE  Contract!Next
    OBVIOUS
  <2> QED BY NextMoves, MappedMoves
<1> QED BY <1>1, <1>2, InductiveInvariant, BooksInOrder, PTL
        DEF Spec, KeepsTheWager, Contract!Spec

------------------------------------------------------------------------------
\* Private challenges.

\* What auto_pair has listed is a challenge of the lobby, and stays one: the pairing
\* of a row never changes.
Listed ==
  /\ \A m \in Matches : match[m].status = "NONE" => match[m].pairing = "AUTO"
  /\ \A w \in Workers : \A m \in scan[w] : match[m].pairing = "AUTO" /\ match[m].status # "NONE"

\* InvitedOnly, of one match.
Invited(m) ==
  /\ match[m].pairing = "INVITE_CODE"
  /\ match[m].status # "ACTIVE"
  /\ match'[m].status = "ACTIVE"
  => /\ match[m].code # NoCode /\ ~match[m].expired
     /\ match'[m].code = NoCode

\* A row after a step, for which nothing is listed that was not.
Follows(m) ==
  /\ match[m].status = "NONE" \/ match'[m].pairing = match[m].pairing
  /\ match'[m].status = "NONE" => match[m].status = "NONE" /\ match'[m].pairing = "AUTO"
  /\ Invited(m)

LEMMA FollowsListed ==
  ASSUME IInv, Listed, \A m \in Matches : Follows(m),
         \A w \in Workers : scan'[w] \subseteq scan[w]
  PROVE  Listed'
BY DEF Listed, Follows, IInv, LedgerOK

\* A step that changes no row.
LEMMA NoneFollow ==
  ASSUME Listed, NEW m \in Matches, match'[m] = match[m]
  PROVE  Follows(m)
BY DEF Listed, Follows, Invited

LEMMA OneFollows ==
  ASSUME IInv, Listed, NEW m \in Matches, NEW row,
         match' = [match EXCEPT ![m] = row],
         match'[m] = row => Follows(m)
  PROVE  \A k \in Matches : Follows(k)
<1>1. match'[m] = row
  BY Rows
<1>2. \A k \in Matches \ {m} : match'[k] = match[k]
  BY Rows
<1> QED BY <1>1, <1>2, NoneFollow

\* A step that starts no match.
LEMMA QuietFollows ==
  ASSUME IInv, Listed, NEW m \in Matches, NEW row,
         match' = [match EXCEPT ![m] = row], row.pairing = match[m].pairing,
         row.status = match[m].status \/ row.status \notin {"NONE", "ACTIVE"}
  PROVE  \A k \in Matches : Follows(k)
<1>1. match'[m] = row => Follows(m)
  BY DEF Listed, Follows, Invited
<1> QED BY <1>1, OneFollows

\* A step that creates a match.
LEMMA CreationFollows ==
  ASSUME IInv, Listed, NEW m \in Matches, NEW row,
         match' = [match EXCEPT ![m] = row], match[m].status = "NONE", row.status # "NONE"
  PROVE  \A k \in Matches : Follows(k)
<1>1. match'[m] = row => Follows(m)
  BY DEF Listed, Follows, Invited
<1> QED BY <1>1, OneFollows

LEMMA CreatedStatus ==
  ASSUME NEW c, NEW opp, NEW pair, NEW f, NEW kind, NEW b, NEW code
  PROVE  LET new == NewRow(c, opp, pair, f, kind, b, code) IN
         /\ new.status = "PENDING"
         /\ Started(new, House).status = "ACTIVE"
         /\ [Started(new, House) EXCEPT !.training = TRUE].status = "ACTIVE"
BY DEF NewRow, Started, Absent

LEMMA LobbyFollows ==
  ASSUME IInv, Listed, Lobby
  PROVE  (\A k \in Matches : Follows(k)) /\ scan' = scan
<1>1. ASSUME NEW m \in Matches, NEW c, NEW f, NEW kind, NEW b, NEW pair, NEW code,
             CreateChallenge(m, c, f, kind, b, pair, code)
      PROVE  (\A k \in Matches : Follows(k)) /\ scan' = scan
  BY <1>1, CreatedStatus, CreationFollows DEF CreateChallenge, NextId
<1>2. ASSUME NEW m \in Matches, NEW c, NEW f, NEW kind, NEW b,
             CreateVsHouse(m, c, f, kind, b)
      PROVE  (\A k \in Matches : Follows(k)) /\ scan' = scan
  BY <1>2, CreatedStatus, CreationFollows DEF CreateVsHouse, NextId
<1>3. ASSUME NEW m \in Matches, NEW c, NEW f, CreateTraining(m, c, f)
      PROVE  (\A k \in Matches : Follows(k)) /\ scan' = scan
  BY <1>3, CreatedStatus, CreationFollows DEF CreateTraining, NextId
<1>4. ASSUME NEW m \in Matches, NEW j \in Players, JoinFromLobby(m, j)
      PROVE  (\A k \in Matches : Follows(k)) /\ scan' = scan
  <2> DEFINE row == Started(match[m], j)
  <2>1. /\ match' = [match EXCEPT ![m] = row] /\ scan' = scan
        /\ match[m].status = "PENDING" /\ match[m].pairing = "AUTO"
    BY <1>4 DEF JoinFromLobby, Joinable, Join
  <2>2. row.status = "ACTIVE" /\ row.pairing = match[m].pairing
    BY Rows DEF Started, Row
  <2> HIDE DEF row
  <2>3. match'[m] = row => Follows(m)
    BY <2>1, <2>2 DEF Follows, Invited
  <2> QED BY <2>1, <2>3, OneFollows
<1>5. ASSUME NEW m \in Matches, NEW j \in Players, NEW c \in Codes, JoinByCode(m, j, c)
      PROVE  (\A k \in Matches : Follows(k)) /\ scan' = scan
  <2> DEFINE row == Started([match[m] EXCEPT !.code = NoCode], j)
  <2>1. /\ match' = [match EXCEPT ![m] = row] /\ scan' = scan
        /\ match[m].status = "PENDING" /\ match[m].code # NoCode /\ ~match[m].expired
    BY <1>5 DEF JoinByCode, Joinable, Join
  <2>2. row.status = "ACTIVE" /\ row.pairing = match[m].pairing /\ row.code = NoCode
    BY Rows DEF Started, Row
  <2> HIDE DEF row
  <2>3. match'[m] = row => Follows(m)
    BY <2>1, <2>2 DEF Follows, Invited
  <2> QED BY <2>1, <2>3, OneFollows
<1>6. ASSUME NEW m \in Matches, NEW c \in Codes, RegenerateCode(m, c)
      PROVE  (\A k \in Matches : Follows(k)) /\ scan' = scan
  <2> DEFINE row == [match[m] EXCEPT !.code = c, !.expired = FALSE]
  <2>1. match' = [match EXCEPT ![m] = row] /\ scan' = scan
    BY <1>6, Rows DEF RegenerateCode, Row
  <2>2. row.status = match[m].status /\ row.pairing = match[m].pairing
    BY Rows DEF Row
  <2> HIDE DEF row
  <2> QED BY <2>1, <2>2, QuietFollows
<1>7. ASSUME NEW m \in Matches, ExpireCode(m)
      PROVE  (\A k \in Matches : Follows(k)) /\ scan' = scan
  <2> DEFINE row == [match[m] EXCEPT !.expired = TRUE]
  <2>1. match' = [match EXCEPT ![m] = row] /\ scan' = scan
    BY <1>7, Rows DEF ExpireCode, Row
  <2>2. row.status = match[m].status /\ row.pairing = match[m].pairing
    BY Rows DEF Row
  <2> HIDE DEF row
  <2> QED BY <2>1, <2>2, QuietFollows
<1>8. ASSUME NEW m \in Matches, Cancel(m)
      PROVE  (\A k \in Matches : Follows(k)) /\ scan' = scan
  <2> DEFINE row == [match[m] EXCEPT !.status = "CANCELLED"]
  <2>1. match' = [match EXCEPT ![m] = row] /\ scan' = scan
    BY <1>8, Rows DEF Cancel, Row
  <2>2. row.status \notin {"NONE", "ACTIVE"} /\ row.pairing = match[m].pairing
    BY Rows DEF Row
  <2> HIDE DEF row
  <2> QED BY <2>1, <2>2, QuietFollows
<1> QED BY <1>1, <1>2, <1>3, <1>4, <1>5, <1>6, <1>7, <1>8 DEF Lobby

\* A merge takes both challenges from the list of auto_pair: neither is private.
LEMMA MergeFollows ==
  ASSUME IInv, Listed, NEW w \in Workers, NEW a \in Matches, NEW b \in Matches,
         Merge(w, a, b)
  PROVE  /\ \A k \in Matches : Follows(k)
         /\ \A v \in Workers : scan'[v] \subseteq scan[v]
<1> DEFINE row    == Started(match[a], match[b].p1)
           closed == [match[b] EXCEPT !.status = "CANCELLED"]
<1>1. a # b
  <2>1. a \in Nat /\ b \in Nat /\ a < b
    BY AmountsAssumption DEF Matches, Merge
  <2> QED BY <2>1
<1>2. /\ match' = [match EXCEPT ![a] = row, ![b] = closed]
      /\ scan' = [scan EXCEPT ![w] = scan[w] \ {a, b}]
  BY <1>1, Rows DEF Merge, Row
<1>3. /\ a \in scan[w] /\ match[a].status = "PENDING" /\ match[b].status = "PENDING"
      /\ match[a].pairing = "AUTO"
  BY DEF Merge, Mergeable, Listed
<1>4. row.status = "ACTIVE" /\ row.pairing = match[a].pairing
  BY Rows DEF Started, Row
<1>5. closed.status = "CANCELLED" /\ closed.pairing = match[b].pairing
  BY Rows DEF Row
<1> HIDE DEF row, closed
<1>6. /\ match'[a] = row /\ match'[b] = closed
      /\ \A k \in Matches \ {a, b} : match'[k] = match[k]
  BY <1>1, <1>2, Rows
<1>7. Follows(a)
  BY <1>3, <1>4, <1>6 DEF Follows, Invited
<1>8. Follows(b)
  BY <1>5, <1>6 DEF Follows, Invited
<1>9. \A v \in Workers : scan'[v] \subseteq scan[v]
  BY <1>2 DEF IInv, LedgerOK
<1> QED BY <1>6, <1>7, <1>8, <1>9, NoneFollow

\* No end of a match starts one.
LEMMA EndFollows ==
  ASSUME IInv, Listed, NEW m \in Matches, NEW status \in {"COMPLETED", "CANCELLED"},
         NEW reason, NEW winner,
         match' = [match EXCEPT ![m] = Closed(match[m], status, reason, winner)]
  PROVE  \A k \in Matches : Follows(k)
<1> DEFINE row == Closed(match[m], status, reason, winner)
<1>1. row.status = status /\ row.pairing = match[m].pairing
  BY Rows DEF Closed, Row
<1>2. match' = [match EXCEPT ![m] = row]
  OBVIOUS
<1> HIDE DEF row
<1>3. row.status \notin {"NONE", "ACTIVE"}
  BY <1>1
<1> QED BY <1>1, <1>2, <1>3, QuietFollows

LEMMA NextFollows ==
  ASSUME IInv, Listed, [Next]_vars
  PROVE  (\A k \in Matches : Follows(k)) /\ Listed'
<1>1. CASE Lobby
  BY <1>1, LobbyFollows, FollowsListed
<1>2. CASE Pairing
  <2>1. ASSUME NEW w \in Workers, AutoPairScan(w)
        PROVE  (\A k \in Matches : Follows(k)) /\ Listed'
    <3>1. match' = match
      BY <2>1 DEF AutoPairScan
    <3>2. \A v \in Workers : \A m \in scan'[v] :
            m \in scan[v] \/ (match[m].pairing = "AUTO" /\ match[m].status # "NONE")
      BY <2>1 DEF AutoPairScan, IInv, LedgerOK
    <3>3. Listed'
      BY <3>1, <3>2 DEF Listed
    <3> QED BY <3>1, <3>3, NoneFollow
  <2>2. ASSUME NEW w \in Workers, NEW a \in Matches, NEW b \in Matches, Merge(w, a, b)
        PROVE  (\A k \in Matches : Follows(k)) /\ Listed'
    BY <2>2, MergeFollows, FollowsListed
  <2> QED BY <1>2, <2>1, <2>2 DEF Pairing
<1>3. CASE Resolution
  <2>1. scan' = scan
    BY <1>3 DEF Resolution, Win, Forfeit, Draw, Void
  <2>2. \E m \in Matches, status \in {"COMPLETED", "CANCELLED"} : \E reason, winner :
          match' = [match EXCEPT ![m] = Closed(match[m], status, reason, winner)]
    <3>1. ASSUME NEW m \in Matches, NEW u, NEW reason, NEW r, Win(m, u, reason, r)
          PROVE  match' = [match EXCEPT ![m] = Closed(match[m], "COMPLETED", reason, u)]
      BY <3>1 DEF Win
    <3>2. ASSUME NEW m \in Matches, Draw(m)
          PROVE  match' = [match EXCEPT ![m] = Closed(match[m], "COMPLETED", "DRAW", NoOne)]
      BY <3>2 DEF Draw
    <3>3. ASSUME NEW m \in Matches, Void(m)
          PROVE  match' = [match EXCEPT
                   ![m] = Closed(match[m], "CANCELLED", "VOID", match[m].winner)]
      BY <3>3 DEF Void
    <3> QED BY <1>3, <3>1, <3>2, <3>3 DEF Resolution, Forfeit
  <2> QED BY <2>1, <2>2, EndFollows, FollowsListed
<1>4. CASE Cashier \/ UNCHANGED vars
  <2>1. match' = match /\ scan' = scan
    BY <1>4 DEF Cashier, Fund, Withdraw, vars
  <2> QED BY <2>1, NoneFollow, FollowsListed
<1> QED BY <1>1, <1>2, <1>3, <1>4 DEF Next

\* A private challenge starts only for someone who presents its current, unexpired
\* code, which is spent by it; a stale list of auto_pair never opens it, as a row
\* never changes its pairing (join_by_code, join_from_lobby, _merge).
THEOREM OnlyTheInvitedPlay == Spec => InvitedOnly
<1>1. Init => Listed
  BY InitNet, AbsentRow DEF Listed, Init
<1>2. IInv /\ Listed /\ [Next]_vars => Listed'
  BY NextFollows
<1>3. Spec => []Listed
  BY <1>1, <1>2, InductiveInvariant, PTL DEF Spec
<1>4. IInv /\ Listed /\ [Next]_vars =>
        \A m \in Matches :
          /\ match[m].pairing = "INVITE_CODE"
          /\ match[m].status # "ACTIVE"
          /\ match'[m].status = "ACTIVE"
          => /\ match[m].code # NoCode /\ ~match[m].expired
             /\ match'[m].code = NoCode
  BY NextFollows DEF Follows, Invited
<1> QED BY <1>3, <1>4, InductiveInvariant, PTL DEF Spec, InvitedOnly

------------------------------------------------------------------------------
\* Reconciliation: what the wallet operations do to the available balances.

LEMMA LockAvail ==
  ASSUME NEW w \in Wallets, NEW u \in Accounts, NEW q \in Pockets, NEW b \in Nat
  PROVE  \A v \in Accounts, p \in Pockets :
           Lock(w, u, q, b)[v][p].avail = w[v][p].avail - (IF v = u /\ p = q THEN b ELSE 0)
BY DEF Lock, Wallets, Balance

LEMMA CreditAvail ==
  ASSUME NEW w \in Wallets, NEW u \in Accounts, NEW q \in Pockets, NEW x \in Nat
  PROVE  \A v \in Accounts, p \in Pockets :
           Credit(w, u, q, x)[v][p].avail = w[v][p].avail + (IF v = u /\ p = q THEN x ELSE 0)
BY DEF Credit, Wallets, Balance

LEMMA UnlockAvail ==
  ASSUME NEW w \in Wallets, NEW u \in Accounts, NEW q \in Pockets, NEW b \in Nat
  PROVE  \A v \in Accounts, p \in Pockets : Unlock(w, u, q, b)[v][p].avail = w[v][p].avail
BY DEF Unlock, Wallets, Balance

LEMMA RefundAvail ==
  ASSUME NEW w \in Wallets, NEW u \in Accounts, NEW q \in Pockets, NEW b \in Nat,
         CanRefund(w, u, q, b)
  PROVE  \A v \in Accounts, p \in Pockets :
           Refund(w, u, q, b)[v][p].avail = w[v][p].avail + (IF v = u /\ p = q THEN b ELSE 0)
<1>1. Unlock(w, u, q, b) \in Wallets
  BY UnlockEffect DEF CanRefund
<1> QED BY <1>1, UnlockAvail, CreditAvail DEF Refund

LEMMA ReserveAvail ==
  ASSUME NEW w \in Wallets, NEW u \in Accounts, NEW x \in Nat
  PROVE  \A v \in Accounts, p \in Pockets :
           Reserve(w, u, x)[v][p].avail = w[v][p].avail - (IF v = u /\ p = "REAL" THEN x ELSE 0)
BY DEF Reserve, Wallets, Balance, Pockets

LEMMA SettleAvail ==
  ASSUME NEW w \in Wallets, NEW win \in Accounts, NEW lose \in Accounts,
         win # lose, NEW q \in Pockets, NEW b \in Nat, NEW rake \in 0..(2 * b),
         CanSettle(w, win, lose, q, b)
  PROVE  \A v \in Accounts, p \in Pockets :
           Settle(w, win, lose, House, q, b, rake)[v][p].avail
             = w[v][p].avail + (IF v = win /\ p = q THEN 2 * b - rake ELSE 0)
                             + (IF v = House /\ p = "REAL" THEN rake ELSE 0)
<1> DEFINE one  == Unlock(w, win, q, b)
           both == Unlock(one, lose, q, b)
           gain == 2 * b - rake
           paid == Credit(both, win, q, gain)
           end  == Credit(paid, House, "REAL", rake)
<1>1. w[win][q].locked >= b /\ w[lose][q].locked >= b
  BY DEF CanSettle
<1>2. /\ one \in Wallets /\ one[lose][q].locked >= b
      /\ \A v \in Accounts, p \in Pockets : one[v][p].avail = w[v][p].avail
  <2>1. /\ one \in Wallets
        /\ one[lose][q].locked = w[lose][q].locked - (IF lose = win /\ q = q THEN b ELSE 0)
    BY <1>1, UnlockEffect
  <2>2. w[lose][q].locked \in Nat
    BY DEF Wallets, Balance
  <2>3. \A v \in Accounts, p \in Pockets : one[v][p].avail = w[v][p].avail
    BY UnlockAvail
  <2> HIDE DEF one
  <2> QED BY <1>1, <2>1, <2>2, <2>3
<1> HIDE DEF one
<1>3. /\ both \in Wallets
      /\ \A v \in Accounts, p \in Pockets : both[v][p].avail = one[v][p].avail
  BY <1>2, UnlockEffect, UnlockAvail
<1> HIDE DEF both
<1>4. gain \in Nat /\ rake \in Nat /\ House \in Accounts /\ "REAL" \in Pockets
  BY DEF Accounts, Pockets
<1> HIDE DEF gain
<1>5. /\ paid \in Wallets
      /\ \A v \in Accounts, p \in Pockets :
           paid[v][p].avail = both[v][p].avail + (IF v = win /\ p = q THEN gain ELSE 0)
  <2>1. paid \in Wallets
    BY <1>3, <1>4, CreditEffect
  <2>2. \A v \in Accounts, p \in Pockets :
          paid[v][p].avail = both[v][p].avail + (IF v = win /\ p = q THEN gain ELSE 0)
    BY <1>3, <1>4, CreditAvail
  <2> QED BY <2>1, <2>2
<1> HIDE DEF paid
<1>6. \A v \in Accounts, p \in Pockets :
        end[v][p].avail = paid[v][p].avail + (IF v = House /\ p = "REAL" THEN rake ELSE 0)
  BY <1>4, <1>5, CreditAvail
<1>7. Settle(w, win, lose, House, q, b, rake) = end
  BY DEF Settle, paid, gain, both, one
<1> HIDE DEF end
<1>8. \A v \in Accounts, p \in Pockets :
        end[v][p].avail = w[v][p].avail + (IF v = win /\ p = q THEN gain ELSE 0)
                                        + (IF v = House /\ p = "REAL" THEN rake ELSE 0)
  BY <1>2, <1>3, <1>5, <1>6
<1> QED BY <1>7, <1>8 DEF gain

------------------------------------------------------------------------------
\* Reconciliation: a row of the match table with its ledger rows as one term of a sum.

TermOf(row, book, u, q) == IF row.kind = q THEN NetOf(book, u) ELSE 0

TermsOf(table, books, u, q) == [m \in Matches |-> TermOf(table[m], books[m], u, q)]

\* Reconciled, with a term for every match.
Balanced(table, books, w, ext) ==
  \A u \in Accounts, q \in Pockets :
    w[u][q].avail = ext[u][q] + SumOf(TermsOf(table, books, u, q), Matches)

LEMMA TermType ==
  ASSUME NEW row, NEW book \in Books, NEW u \in Accounts, NEW q
  PROVE  TermOf(row, book, u, q) \in Int
BY NetType DEF TermOf

LEMMA MatchesFinite == IsFiniteSet(Matches)
BY FS_Interval, AmountsAssumption DEF Matches

LEMMA TermsType ==
  ASSUME NEW table, NEW books \in [Matches -> Books], NEW u \in Accounts, NEW q
  PROVE  /\ \A m \in Matches : TermsOf(table, books, u, q)[m] \in Int
         /\ SumOf(TermsOf(table, books, u, q), Matches) \in Int
<1>1. \A m \in Matches : TermsOf(table, books, u, q)[m] \in Int
  BY TermType DEF TermsOf
<1> QED BY <1>1, MatchesFinite, SumType

LEMMA ReconciledIsBalanced ==
  ASSUME IInv
  PROVE  Reconciled <=> Balanced(match, posted, wallet, external)
<1>1. ASSUME NEW u \in Accounts, NEW q \in Pockets
      PROVE  SumOf([m \in Matches |-> Net(m, u)], {m \in Matches : match[m].kind = q})
               = SumOf(TermsOf(match, posted, u, q), Matches)
  <2> DEFINE f == [m \in Matches |-> Net(m, u)]
             D == {m \in Matches : match[m].kind = q}
             h == [m \in Matches |-> IF m \in D THEN f[m] ELSE 0]
  <2>1. \A m \in Matches : f[m] = NetOf(posted[m], u) /\ f[m] \in Int
    BY Rows, NetType, MappedNet
  <2>2. \A m \in Matches : h[m] = TermOf(match[m], posted[m], u, q)
    BY <2>1 DEF TermOf
  <2>3. h = TermsOf(match, posted, u, q)
    <3> HIDE DEF f, D
    <3> QED BY <2>2 DEF TermsOf
  <2> HIDE DEF f
  <2>4. SumOf(f, Matches \cap D) = SumOf(h, Matches)
    <3> HIDE DEF D
    <3> QED BY <2>1, MatchesFinite, SumWhere
  <2>5. Matches \cap D = D
    OBVIOUS
  <2> QED BY <2>3, <2>4, <2>5 DEF f
<1> QED BY <1>1 DEF Reconciled, Balanced

\* A table that differs from another in one row.
Apart(table, table2, m, row) ==
  table2[m] = row /\ \A k \in Matches \ {m} : table2[k] = table[k]

\* The wallets move by the difference of the terms of a match.
Shifts(old, before, row, book, w, w2) ==
  \A u \in Accounts, q \in Pockets :
    w2[u][q].avail + TermOf(old, before, u, q) = w[u][q].avail + TermOf(row, book, u, q)

LEMMA BalancedStep ==
  ASSUME NEW table, NEW books \in [Matches -> Books], NEW w \in Wallets, NEW ext,
         Balanced(table, books, w, ext), ext \in [Accounts -> [Pockets -> Int]],
         NEW m \in Matches, NEW row, NEW book \in Books, NEW w2 \in Wallets,
         Shifts(table[m], books[m], row, book, w, w2),
         NEW table2, Apart(table, table2, m, row),
         NEW books2 \in [Matches -> Books], Apart(books, books2, m, book)
  PROVE  Balanced(table2, books2, w2, ext)
<1> SUFFICES ASSUME NEW u \in Accounts, NEW q \in Pockets
    PROVE  w2[u][q].avail = ext[u][q] + SumOf(TermsOf(table2, books2, u, q), Matches)
  BY DEF Balanced
<1> DEFINE f == TermsOf(table, books, u, q)
           h == TermsOf(table2, books2, u, q)
<1>1. /\ \A k \in Matches : f[k] \in Int
      /\ \A k \in Matches : h[k] \in Int
      /\ SumOf(f, Matches) \in Int
  BY TermsType
<1>2. /\ f[m] = TermOf(table[m], books[m], u, q)
      /\ h[m] = TermOf(row, book, u, q)
      /\ \A k \in Matches \ {m} : h[k] = f[k]
  BY DEF TermsOf, Apart
<1>3. w[u][q].avail = ext[u][q] + SumOf(f, Matches)
  BY DEF Balanced
<1> HIDE DEF f, h
<1>4. SumOf(h, Matches) = SumOf(f, Matches) - f[m] + h[m]
  <2>1. \A k \in Matches : f[k] \in Int
    BY <1>1
  <2>2. \A k \in Matches : h[k] \in Int
    BY <1>1
  <2>3. \A k \in Matches \ {m} : h[k] = f[k]
    BY <1>2
  <2> QED BY <2>1, <2>2, <2>3, MatchesFinite, SumChanged
<1>5. w2[u][q].avail + f[m] = w[u][q].avail + h[m]
  BY <1>2 DEF Shifts
<1>6. /\ w[u][q].avail \in Int /\ w2[u][q].avail \in Int /\ ext[u][q] \in Int
      /\ f[m] \in Int /\ h[m] \in Int
  BY <1>1 DEF Wallets, Balance
<1>7. w2[u][q].avail = ext[u][q] + SumOf(h, Matches)
  <2> DEFINE s == SumOf(f, Matches)
             x == w[u][q].avail
             y == w2[u][q].avail
             e == ext[u][q]
             a == f[m]
             c == h[m]
  <2>1. /\ s \in Int /\ x \in Int /\ y \in Int /\ e \in Int /\ a \in Int /\ c \in Int
        /\ x = e + s /\ y + a = x + c /\ SumOf(h, Matches) = s - a + c
    BY <1>1, <1>3, <1>4, <1>5, <1>6
  <2> HIDE DEF s, x, y, e, a, c
  <2>2. y = e + (s - a + c)
    BY <2>1
  <2> QED BY <2>1, <2>2 DEF y, e
<1> QED BY <1>7 DEF h

\* The wallets move by what the ledger rows of one match say, in its pocket.
Explains(kind, before, book, w, w2) ==
  \A u \in Accounts, q \in Pockets :
    w2[u][q].avail =
      w[u][q].avail + (IF q = kind THEN NetOf(book, u) - NetOf(before, u) ELSE 0)

\* The row keeps its kind, or had no ledger rows yet.
Fits(old, before, row) ==
  row.kind = old.kind \/ \A u \in Accounts : NetOf(before, u) = 0

LEMMA ExplainedShifts ==
  ASSUME NEW old, NEW row, NEW before \in Books, NEW book \in Books,
         NEW w \in Wallets, NEW w2 \in Wallets,
         Explains(row.kind, before, book, w, w2), Fits(old, before, row)
  PROVE  Shifts(old, before, row, book, w, w2)
<1> SUFFICES ASSUME NEW u \in Accounts, NEW q \in Pockets
    PROVE  w2[u][q].avail + TermOf(old, before, u, q) = w[u][q].avail + TermOf(row, book, u, q)
  BY DEF Shifts
<1> DEFINE x == w[u][q].avail
           y == w2[u][q].avail
           n == NetOf(before, u)
           c == NetOf(book, u)
<1>1. x \in Int /\ y \in Int /\ n \in Int /\ c \in Int
  BY NetType DEF Wallets, Balance
<1>2. y = x + (IF q = row.kind THEN c - n ELSE 0)
  BY DEF Explains
<1>3. TermOf(old, before, u, q) = IF old.kind = q THEN n ELSE 0
  BY DEF TermOf
<1>4. TermOf(row, book, u, q) = IF row.kind = q THEN c ELSE 0
  BY DEF TermOf
<1>5. row.kind = old.kind \/ n = 0
  BY DEF Fits
<1> HIDE DEF x, y, n, c
<1>6. y + (IF old.kind = q THEN n ELSE 0) = x + (IF row.kind = q THEN c ELSE 0)
  BY <1>1, <1>2, <1>5
<1> QED BY <1>3, <1>4, <1>6 DEF x, y

\* One match changes, and the wallets as its ledger rows.
LEMMA OneBalanced ==
  ASSUME NEW table \in [Matches -> Row], NEW books \in [Matches -> Books],
         NEW w \in Wallets, NEW ext \in [Accounts -> [Pockets -> Int]],
         Balanced(table, books, w, ext),
         NEW m \in Matches, NEW row, NEW book \in Books, NEW w2 \in Wallets,
         Explains(row.kind, books[m], book, w, w2), Fits(table[m], books[m], row)
  PROVE  Balanced([table EXCEPT ![m] = row], [books EXCEPT ![m] = book], w2, ext)
<1> DEFINE table2 == [table EXCEPT ![m] = row]
           books2 == [books EXCEPT ![m] = book]
<1>1. /\ Apart(table, table2, m, row) /\ Apart(books, books2, m, book)
      /\ books2 \in [Matches -> Books]
  BY DEF Apart
<1>2. books[m] \in Books
  OBVIOUS
<1>3. Shifts(table[m], books[m], row, book, w, w2)
  BY <1>2, ExplainedShifts
<1> HIDE DEF table2, books2
<1>4. Balanced(table2, books2, w2, ext)
  BY <1>1, <1>3, BalancedStep
<1> QED BY <1>4 DEF table2, books2

------------------------------------------------------------------------------
\* Reconciliation: the movements.

\* A stake that goes in, and one that comes back.
LEMMA LockExplains ==
  ASSUME NEW before \in Books, NEW w \in Wallets, NEW u \in Accounts, NEW q \in Pockets,
         NEW b \in Nat
  PROVE  Explains(q, before, Post(before, "BET_LOCK", u, -b), w, Lock(w, u, q, b))
<1> DEFINE book == Post(before, "BET_LOCK", u, -b)
           w2   == Lock(w, u, q, b)
<1>1. \A v \in Accounts :
        NetOf(before, v) \in Int /\ NetOf(book, v) = NetOf(before, v) + IF v = u THEN -b ELSE 0
  BY LockNet, NetType
<1>2. \A v \in Accounts, p \in Pockets :
        w2[v][p].avail = w[v][p].avail - (IF v = u /\ p = q THEN b ELSE 0)
  BY LockAvail
<1>3. \A v \in Accounts, p \in Pockets : w[v][p].avail \in Int
  BY DEF Wallets, Balance
<1> HIDE DEF book, w2
<1>4. Explains(q, before, book, w, w2)
  BY <1>1, <1>2, <1>3 DEF Explains
<1> QED BY <1>4 DEF book, w2

LEMMA RefundExplains ==
  ASSUME NEW before \in Books, NEW w \in Wallets, NEW u \in Accounts, NEW q \in Pockets,
         NEW b \in Nat, CanRefund(w, u, q, b)
  PROVE  Explains(q, before, Post(before, "REFUND", u, b), w, Refund(w, u, q, b))
<1> DEFINE book == Post(before, "REFUND", u, b)
           w2   == Refund(w, u, q, b)
<1>1. \A v \in Accounts :
        NetOf(before, v) \in Int /\ NetOf(book, v) = NetOf(before, v) + IF v = u THEN b ELSE 0
  BY RefundNet, NetType
<1>2. \A v \in Accounts, p \in Pockets :
        w2[v][p].avail = w[v][p].avail + (IF v = u /\ p = q THEN b ELSE 0)
  BY RefundAvail
<1>3. \A v \in Accounts, p \in Pockets : w[v][p].avail \in Int
  BY DEF Wallets, Balance
<1> HIDE DEF book, w2
<1>4. Explains(q, before, book, w, w2)
  BY <1>1, <1>2, <1>3 DEF Explains
<1> QED BY <1>4 DEF book, w2

\* One movement after another.
LEMMA BothExplain ==
  ASSUME NEW kind, NEW b0 \in Books, NEW b1 \in Books, NEW b2 \in Books,
         NEW w0 \in Wallets, NEW w1, NEW w2,
         Explains(kind, b0, b1, w0, w1), Explains(kind, b1, b2, w1, w2)
  PROVE  Explains(kind, b0, b2, w0, w2)
<1>1. \A u \in Accounts : NetOf(b0, u) \in Int /\ NetOf(b1, u) \in Int /\ NetOf(b2, u) \in Int
  BY NetType
<1>2. \A u \in Accounts, q \in Pockets : w0[u][q].avail \in Int
  BY DEF Wallets, Balance
<1> QED BY <1>1, <1>2 DEF Explains

\* No movement.
LEMMA NoneExplains ==
  ASSUME NEW kind, NEW before \in Books, NEW w \in Wallets
  PROVE  Explains(kind, before, before, w, w)
<1>1. \A u \in Accounts : NetOf(before, u) \in Int
  BY NetType
<1>2. \A u \in Accounts, q \in Pockets : w[u][q].avail \in Int
  BY DEF Wallets, Balance
<1> QED BY <1>1, <1>2 DEF Explains

------------------------------------------------------------------------------
\* Reconciliation: the actions.

InBalance == Balanced(match, posted, wallet, external)

\* A step that changes one match.
LEMMA StepBalanced ==
  ASSUME IInv, IInv', InBalance, NEW m \in Matches, NEW row, NEW book \in Books,
         match' = [match EXCEPT ![m] = row], posted' = [posted EXCEPT ![m] = book],
         external' = external, Explains(row.kind, posted[m], book, wallet, wallet'),
         Fits(match[m], posted[m], row)
  PROVE  InBalance'
<1>1. /\ match \in [Matches -> Row] /\ posted \in [Matches -> Books]
      /\ wallet \in Wallets /\ external \in [Accounts -> [Pockets -> Int]]
      /\ Balanced(match, posted, wallet, external)
  BY DEF IInv, Agree, LedgerOK, Books, InBalance
<1>2. wallet' \in Wallets
  BY DEF IInv, Agree
<1>3. Balanced([match EXCEPT ![m] = row], [posted EXCEPT ![m] = book], wallet', external)
  BY <1>1, <1>2, OneBalanced
<1> QED BY <1>3 DEF InBalance

LEMMA CreateChallengeBalanced ==
  ASSUME IInv, IInv', Booked, InBalance, NEW m \in Matches, NEW c \in Players,
         NEW f \in Formats, NEW kind \in Pockets, NEW b \in Nat,
         NEW pair \in {"AUTO", "INVITE_CODE"}, NEW code \in Codes \cup {NoCode},
         CreateChallenge(m, c, f, kind, b, pair, code)
  PROVE  InBalance'
<1> DEFINE row  == NewRow(c, "HUMAN", pair, f, kind, b, code)
           book == Post(posted[m], "BET_LOCK", c, -b)
<1>1. /\ match[m].status = "NONE" /\ c \in Accounts /\ external' = external
      /\ match' = [match EXCEPT ![m] = row] /\ posted' = [posted EXCEPT ![m] = book]
      /\ wallet' = Lock(wallet, c, kind, b)
  BY DEF CreateChallenge, NextId, Accounts
<1>2. row.kind = kind
  BY NewRowEffect
<1>3. posted[m] \in Books /\ wallet \in Wallets
  BY Rows DEF IInv, Agree
<1>4. book \in Books
  BY <1>1, <1>3, LockNet
<1>5. Explains(kind, posted[m], book, wallet, wallet')
  BY <1>1, <1>3, LockExplains
<1>6. Fits(match[m], posted[m], row)
  BY <1>1, NothingYet DEF Fits
<1> HIDE DEF row, book
<1> QED BY <1>1, <1>2, <1>4, <1>5, <1>6, StepBalanced

LEMMA CreateVsHouseBalanced ==
  ASSUME IInv, IInv', Booked, InBalance, NEW m \in Matches, NEW c \in Players,
         NEW f \in Formats, NEW kind \in Pockets, NEW b \in Nat,
         CreateVsHouse(m, c, f, kind, b)
  PROVE  InBalance'
<1> DEFINE new  == NewRow(c, "AI", "AUTO", f, kind, b, NoCode)
           row  == Started(new, House)
           held == Lock(wallet, c, kind, b)
           once == Post(posted[m], "BET_LOCK", c, -b)
           book == Post(once, "BET_LOCK", House, -b)
<1>1. /\ match[m].status = "NONE" /\ c \in Accounts /\ House \in Accounts
      /\ match' = [match EXCEPT ![m] = row] /\ posted' = [posted EXCEPT ![m] = book]
      /\ external' = external
  BY DEF CreateVsHouse, NextId, Accounts
<1>2. new \in Row /\ new.kind = kind
  BY NewRowEffect
<1> HIDE DEF new
<1>3. row.kind = kind
  BY <1>1, <1>2, StartedEffect
<1>4. posted[m] \in Books /\ wallet \in Wallets
  BY Rows DEF IInv, Agree
<1>5. once \in Books
  BY <1>1, <1>4, LockNet
<1>6. held \in Wallets
  BY <1>1, <1>4, LockEffect DEF CreateVsHouse
<1>7. Explains(kind, posted[m], once, wallet, held)
  BY <1>1, <1>4, LockExplains
<1>8. wallet' = Lock(held, House, kind, b)
  BY DEF CreateVsHouse
<1> HIDE DEF once, held
<1>9. book \in Books
  BY <1>1, <1>5, LockNet
<1>10. Explains(kind, once, book, held, wallet')
  BY <1>1, <1>5, <1>6, <1>8, LockExplains
<1> HIDE DEF book
<1>11. Explains(kind, posted[m], book, wallet, wallet')
  BY <1>4, <1>5, <1>7, <1>9, <1>10, BothExplain
<1>12. Fits(match[m], posted[m], row)
  BY <1>1, NothingYet DEF Fits
<1> HIDE DEF row
<1> QED BY <1>1, <1>3, <1>9, <1>11, <1>12, StepBalanced

\* A step that moves no money.
LEMMA FreeBalanced ==
  ASSUME IInv, IInv', InBalance, NEW m \in Matches, NEW row,
         match' = [match EXCEPT ![m] = row], UNCHANGED <<posted, wallet, external>>,
         Fits(match[m], posted[m], row)
  PROVE  InBalance'
<1>1. posted[m] \in Books /\ wallet \in Wallets /\ posted' = [posted EXCEPT ![m] = posted[m]]
  BY Rows DEF IInv, Agree
<1>2. Explains(row.kind, posted[m], posted[m], wallet, wallet')
  BY <1>1, NoneExplains
<1> QED BY <1>1, <1>2, StepBalanced

LEMMA CreateTrainingBalanced ==
  ASSUME IInv, IInv', Booked, InBalance, NEW m \in Matches, NEW c, NEW f,
         CreateTraining(m, c, f)
  PROVE  InBalance'
<1> DEFINE row == [Started(NewRow(c, "AI", "AUTO", f, "REAL", 0, NoCode), House)
                     EXCEPT !.training = TRUE]
<1>1. /\ match[m].status = "NONE" /\ match' = [match EXCEPT ![m] = row]
      /\ UNCHANGED <<posted, wallet, external>>
  BY DEF CreateTraining, NextId
<1> HIDE DEF row
<1>2. Fits(match[m], posted[m], row)
  BY <1>1, NothingYet DEF Fits
<1> QED BY <1>1, <1>2, FreeBalanced

LEMMA CodeBalanced ==
  ASSUME IInv, IInv', InBalance, NEW m \in Matches,
         \/ \E c \in Codes : RegenerateCode(m, c)
         \/ ExpireCode(m)
  PROVE  InBalance'
<1>1. CASE \E c \in Codes : RegenerateCode(m, c)
  <2>1. PICK c \in Codes : RegenerateCode(m, c)
    BY <1>1
  <2> DEFINE row == [match[m] EXCEPT !.code = c, !.expired = FALSE]
  <2>2. match' = [match EXCEPT ![m] = row] /\ UNCHANGED <<posted, wallet, external>>
    BY <2>1, Rows DEF RegenerateCode, Row
  <2>3. row.kind = match[m].kind
    BY Rows DEF Row
  <2> HIDE DEF row
  <2>4. Fits(match[m], posted[m], row)
    BY <2>3 DEF Fits
  <2> QED BY <2>2, <2>4, FreeBalanced
<1>2. CASE ExpireCode(m)
  <2> DEFINE row == [match[m] EXCEPT !.expired = TRUE]
  <2>2. match' = [match EXCEPT ![m] = row] /\ UNCHANGED <<posted, wallet, external>>
    BY <1>2, Rows DEF ExpireCode, Row
  <2>3. row.kind = match[m].kind
    BY Rows DEF Row
  <2> HIDE DEF row
  <2>4. Fits(match[m], posted[m], row)
    BY <2>3 DEF Fits
  <2> QED BY <2>2, <2>4, FreeBalanced
<1> QED BY <1>1, <1>2

LEMMA JoinBalanced ==
  ASSUME IInv, IInv', InBalance, NEW m \in Matches, NEW j \in Players, NEW before \in Row,
         before.bet = match[m].bet, before.kind = match[m].kind, Join(m, j, before)
  PROVE  InBalance'
<1> DEFINE row  == Started(before, j)
           kind == match[m].kind
           bet  == match[m].bet
           book == Post(posted[m], "BET_LOCK", j, -bet)
<1>1. /\ j \in Accounts /\ wallet' = Lock(wallet, j, kind, bet) /\ external' = external
      /\ match' = [match EXCEPT ![m] = row] /\ posted' = [posted EXCEPT ![m] = book]
  BY DEF Join, Accounts
<1>2. row.kind = kind
  BY <1>1, StartedEffect
<1>3. posted[m] \in Books /\ wallet \in Wallets /\ kind \in Pockets /\ bet \in Nat
  BY Rows DEF IInv, Agree
<1> HIDE DEF kind, bet
<1>4. book \in Books
  BY <1>1, <1>3, LockNet
<1>5. Explains(kind, posted[m], book, wallet, wallet')
  BY <1>1, <1>3, LockExplains
<1>6. Fits(match[m], posted[m], row)
  BY <1>2 DEF Fits, kind
<1> HIDE DEF row, book
<1> QED BY <1>1, <1>2, <1>4, <1>5, <1>6, StepBalanced

LEMMA JoinsBalanced ==
  ASSUME IInv, IInv', InBalance, NEW m \in Matches, NEW j \in Players,
         JoinFromLobby(m, j) \/ \E c \in Codes : JoinByCode(m, j, c)
  PROVE  InBalance'
<1>1. CASE JoinFromLobby(m, j)
  BY <1>1, Rows, JoinBalanced DEF JoinFromLobby
<1>2. CASE \E c \in Codes : JoinByCode(m, j, c)
  <2> DEFINE before == [match[m] EXCEPT !.code = NoCode]
  <2>1. Join(m, j, before)
    BY <1>2 DEF JoinByCode
  <2>2. before \in Row /\ before.bet = match[m].bet /\ before.kind = match[m].kind
    <3>1. match[m] \in Row
      BY Rows
    <3>2. before \in Row
      BY <3>1, RecodedRow
    <3> QED BY <3>1, <3>2, Zenon DEF Row
  <2> HIDE DEF before
  <2> QED BY <2>1, <2>2, JoinBalanced
<1> QED BY <1>1, <1>2

\* The creator of a waiting challenge is refunded.
LEMMA CreatorExplains ==
  ASSUME IInv, NEW m \in Matches, match[m].status = "PENDING",
         CanRefund(wallet, match[m].p1, match[m].kind, match[m].bet)
  PROVE  LET book == Post(posted[m], "REFUND", match[m].p1, match[m].bet)
             back == Refund(wallet, match[m].p1, match[m].kind, match[m].bet)
         IN  /\ book \in Books /\ back \in Wallets
             /\ Explains(match[m].kind, posted[m], book, wallet, back)
<1>1. /\ match[m].p1 \in Accounts /\ match[m].bet \in Nat /\ match[m].kind \in Pockets
      /\ posted[m] \in Books /\ wallet \in Wallets
  BY Rows DEF RowOK, IInv, Agree
<1>2. Post(posted[m], "REFUND", match[m].p1, match[m].bet) \in Books
  BY <1>1, RefundNet
<1>3. Refund(wallet, match[m].p1, match[m].kind, match[m].bet) \in Wallets
  BY <1>1, RefundEffect
<1> QED BY <1>1, <1>2, <1>3, RefundExplains

LEMMA CancelBalanced ==
  ASSUME IInv, IInv', InBalance, NEW m \in Matches, Cancel(m)
  PROVE  InBalance'
<1> DEFINE row  == [match[m] EXCEPT !.status = "CANCELLED"]
           book == Post(posted[m], "REFUND", match[m].p1, match[m].bet)
<1>1. /\ match' = [match EXCEPT ![m] = row] /\ posted' = [posted EXCEPT ![m] = book]
      /\ external' = external
  BY Rows DEF Cancel, Row
<1>2. book \in Books /\ Explains(match[m].kind, posted[m], book, wallet, wallet')
  BY CreatorExplains DEF Cancel
<1>3. row.kind = match[m].kind
  BY Rows DEF Row
<1>4. Fits(match[m], posted[m], row)
  BY <1>3 DEF Fits
<1> HIDE DEF row, book
<1> QED BY <1>1, <1>2, <1>3, <1>4, StepBalanced

\* Two rows may be written in either order.
LEMMA TwoRows ==
  ASSUME NEW S, NEW T, NEW f \in [S -> T], NEW a \in S, NEW b \in S, a # b, NEW x, NEW y
  PROVE  [f EXCEPT ![a] = x, ![b] = y] = [[f EXCEPT ![b] = y] EXCEPT ![a] = x]
<1> DEFINE g == [f EXCEPT ![a] = x, ![b] = y]
           h == [[f EXCEPT ![b] = y] EXCEPT ![a] = x]
<1>1. g = [k \in S |-> IF k = b THEN y ELSE IF k = a THEN x ELSE f[k]]
  OBVIOUS
<1>2. h = [k \in S |-> IF k = a THEN x ELSE IF k = b THEN y ELSE f[k]]
  OBVIOUS
<1> QED BY <1>1, <1>2

\* A merge is a refund in one match and a lock in another.
LEMMA MergeBalanced ==
  ASSUME IInv, IInv', InBalance, NEW w \in Workers, NEW a \in Matches, NEW b \in Matches,
         Merge(w, a, b)
  PROVE  InBalance'
<1> DEFINE second == match[b].p1
           kind   == match[a].kind
           bet    == match[a].bet
           freed  == Refund(wallet, second, kind, bet)
           row    == Started(match[a], second)
           closed == [match[b] EXCEPT !.status = "CANCELLED"]
           taken  == Post(posted[a], "BET_LOCK", second, -bet)
           back   == Post(posted[b], "REFUND", second, bet)
           table  == [match EXCEPT ![b] = closed]
           books  == [posted EXCEPT ![b] = back]
<1>1. a # b
  <2>1. a \in Nat /\ b \in Nat /\ a < b
    BY AmountsAssumption DEF Matches, Merge
  <2> QED BY <2>1
<1>2. /\ match[b].status = "PENDING" /\ match[b].bet = bet /\ match[b].kind = kind
      /\ CanRefund(wallet, second, kind, bet) /\ CanLock(freed, second, kind, bet)
      /\ wallet' = Lock(freed, second, kind, bet) /\ external' = external
  BY DEF Merge, Mergeable, Compatible
<1>3. /\ match' = [table EXCEPT ![a] = row]
      /\ posted' = [books EXCEPT ![a] = taken]
  <2>1. /\ match' = [match EXCEPT ![a] = row, ![b] = closed]
        /\ posted' = [posted EXCEPT ![a] = taken, ![b] = back]
    BY <1>1, Rows DEF Merge, Row
  <2>2. match \in [Matches -> Row] /\ posted \in [Matches -> Books]
    BY Rows
  <2> HIDE DEF row, closed, taken, back
  <2>3. [match EXCEPT ![a] = row, ![b] = closed] = [table EXCEPT ![a] = row]
    BY <1>1, <2>2, TwoRows
  <2>4. [posted EXCEPT ![a] = taken, ![b] = back] = [books EXCEPT ![a] = taken]
    BY <1>1, <2>2, TwoRows
  <2> QED BY <2>1, <2>3, <2>4
<1>4. second \in Accounts /\ bet \in Nat /\ kind \in Pockets
  BY <1>2, Rows DEF RowOK
<1>5. /\ back \in Books /\ freed \in Wallets
      /\ Explains(kind, posted[b], back, wallet, freed)
  BY <1>2, CreatorExplains
<1>6. row \in Row /\ row.kind = kind
  BY <1>4, Rows, StartedEffect
<1>7. closed \in Row /\ closed.kind = match[b].kind
  <2>1. match[b] \in Row /\ "CANCELLED" \in Status
    BY Rows DEF Status
  <2>2. closed \in Row
    BY <2>1 DEF Row
  <2>3. closed.kind = match[b].kind
    BY <2>1 DEF Row
  <2> QED BY <2>2, <2>3
<1>8. /\ match \in [Matches -> Row] /\ posted \in [Matches -> Books] /\ posted[a] \in Books
      /\ wallet \in Wallets /\ external \in [Accounts -> [Pockets -> Int]]
      /\ Balanced(match, posted, wallet, external) /\ wallet' \in Wallets
  BY Rows DEF IInv, Agree, LedgerOK, Books, InBalance
<1>9. taken \in Books
  BY <1>4, <1>8, LockNet
<1>10. Explains(kind, posted[a], taken, freed, wallet')
  BY <1>2, <1>4, <1>5, <1>8, LockExplains
<1>11. /\ table \in [Matches -> Row] /\ books \in [Matches -> Books]
       /\ table[a] = match[a] /\ books[a] = posted[a]
  BY <1>1, <1>5, <1>7, <1>8
<1>12. Fits(match[b], posted[b], closed) /\ Fits(table[a], books[a], row)
  BY <1>6, <1>7, <1>11 DEF Fits
<1> HIDE DEF freed, row, closed, taken, back
<1>13. Balanced(table, books, freed, external)
  BY <1>2, <1>5, <1>7, <1>8, <1>12, OneBalanced
<1>14. Explains(row.kind, books[a], taken, freed, wallet')
  BY <1>6, <1>10, <1>11
<1> HIDE DEF table, books
<1>15. Balanced([table EXCEPT ![a] = row], [books EXCEPT ![a] = taken], wallet', external)
  BY <1>5, <1>8, <1>9, <1>11, <1>12, <1>13, <1>14, OneBalanced
<1> QED BY <1>2, <1>3, <1>15 DEF InBalance

\* refund_escrow for both players.
LEMMA RefundBothExplains ==
  ASSUME IInv, NEW m \in Matches, match[m].status = "ACTIVE", RefundBoth(m)
  PROVE  \E book \in Books :
           /\ posted' = [posted EXCEPT ![m] = book]
           /\ Explains(match[m].kind, posted[m], book, wallet, wallet')
<1> DEFINE p1   == match[m].p1
           p2   == match[m].p2
           kind == match[m].kind
           bet  == match[m].bet
           back == Refund(wallet, p1, kind, bet)
           once == Post(posted[m], "REFUND", p1, bet)
           book == Post(once, "REFUND", p2, bet)
<1>1. /\ CanRefund(wallet, p1, kind, bet) /\ CanRefund(back, p2, kind, bet)
      /\ wallet' = Refund(back, p2, kind, bet) /\ posted' = [posted EXCEPT ![m] = book]
  BY DEF RefundBoth
<1>2. /\ p1 \in Accounts /\ p2 \in Accounts /\ bet \in Nat /\ kind \in Pockets
      /\ posted[m] \in Books /\ wallet \in Wallets
  BY Rows DEF RowOK, IInv, Agree
<1> HIDE DEF p1, p2, kind, bet
<1>3. once \in Books
  BY <1>2, RefundNet
<1>4. back \in Wallets
  BY <1>1, <1>2, RefundEffect
<1>5. Explains(kind, posted[m], once, wallet, back)
  BY <1>1, <1>2, RefundExplains
<1> HIDE DEF back, once
<1>6. book \in Books
  BY <1>2, <1>3, RefundNet
<1>7. Explains(kind, once, book, back, wallet')
  BY <1>1, <1>2, <1>3, <1>4, RefundExplains
<1> HIDE DEF book
<1>8. Explains(kind, posted[m], book, wallet, wallet')
  BY <1>2, <1>3, <1>5, <1>6, <1>7, BothExplain
<1> QED BY <1>1, <1>6, <1>8 DEF kind

\* settle_escrow: a rake is only taken of a REAL stake.
LEMMA PayWinnerExplains ==
  ASSUME IInv, Booked, NEW m \in Matches, match[m].status = "ACTIVE",
         NEW winner \in {match[m].p1, match[m].p2}, NEW percent \in RakePercents,
         PayWinner(m, winner, Opponent(m, winner), percent)
  PROVE  \E book \in Books :
           /\ posted' = [posted EXCEPT ![m] = book]
           /\ Explains(match[m].kind, posted[m], book, wallet, wallet')
<1> DEFINE kind  == match[m].kind
           bet   == match[m].bet
           rake  == Rake(2 * bet, kind, percent)
           gain  == 2 * bet - rake
           loser == Opponent(m, winner)
<1>1. /\ rake \in 0..(2 * bet)
      /\ \E book \in Books :
           /\ posted' = [posted EXCEPT ![m] = book]
           /\ \A u \in Accounts : NetOf(book, u) =
                NetOf(posted[m], u) + (IF u = winner THEN gain ELSE 0)
                                    + (IF u = House THEN rake ELSE 0)
  BY PayWinnerBook
<1>2. PICK book \in Books :
           /\ posted' = [posted EXCEPT ![m] = book]
           /\ \A u \in Accounts : NetOf(book, u) =
                NetOf(posted[m], u) + (IF u = winner THEN gain ELSE 0)
                                    + (IF u = House THEN rake ELSE 0)
  BY <1>1
<1>3. /\ match[m].p1 \in Accounts /\ match[m].p2 \in Accounts /\ match[m].p1 # match[m].p2
      /\ bet \in Nat /\ kind \in Pockets /\ posted[m] \in Books /\ wallet \in Wallets
  BY Rows DEF RowOK, IInv, Agree
<1>4. winner \in Accounts /\ loser \in Accounts /\ winner # loser
  BY <1>3 DEF Opponent
<1>5. CanSettle(wallet, winner, loser, kind, bet)
      /\ wallet' = Settle(wallet, winner, loser, House, kind, bet, rake)
  BY DEF PayWinner
<1>6. kind # "REAL" => rake = 0
  BY DEF Rake
<1> HIDE DEF rake, loser, kind, bet
<1>7. \A u \in Accounts, q \in Pockets :
        wallet'[u][q].avail = wallet[u][q].avail + (IF u = winner /\ q = kind THEN gain ELSE 0)
                                                 + (IF u = House /\ q = "REAL" THEN rake ELSE 0)
  BY <1>1, <1>3, <1>4, <1>5, SettleAvail
<1>8. \A u \in Accounts : NetOf(posted[m], u) \in Int /\ NetOf(book, u) \in Int
  BY <1>2, <1>3, NetType
<1>9. \A u \in Accounts, q \in Pockets : wallet[u][q].avail \in Int
  BY <1>3 DEF Wallets, Balance
<1>10. gain \in Int /\ rake \in Int
  BY <1>1, <1>3
<1> HIDE DEF gain
<1>11. ASSUME NEW u \in Accounts, NEW q \in Pockets
       PROVE  wallet'[u][q].avail = wallet[u][q].avail
                + (IF q = kind THEN NetOf(book, u) - NetOf(posted[m], u) ELSE 0)
  <2> DEFINE x == wallet[u][q].avail
             y == wallet'[u][q].avail
             n == NetOf(posted[m], u)
             c == NetOf(book, u)
             g == IF u = winner THEN gain ELSE 0
             r == IF u = House THEN rake ELSE 0
  <2>1. /\ x \in Int /\ n \in Int /\ c \in Int /\ g \in Int /\ r \in Int
        /\ c = n + g + r
    BY <1>2, <1>8, <1>9, <1>10
  <2>2. y = x + (IF q = kind THEN g ELSE 0) + (IF q = "REAL" THEN r ELSE 0)
    BY <1>7
  <2>3. kind # "REAL" => r = 0
    BY <1>6
  <2> HIDE DEF x, y, n, c, g, r
  <2>4. y = x + (IF q = kind THEN c - n ELSE 0)
    BY <2>1, <2>2, <2>3
  <2> QED BY <2>4 DEF x, y, n, c
<1>12. Explains(kind, posted[m], book, wallet, wallet')
  BY <1>11 DEF Explains
<1> QED BY <1>2, <1>12 DEF kind

LEMMA ClosedKind ==
  ASSUME NEW row \in Row, NEW status, NEW reason, NEW winner
  PROVE  Closed(row, status, reason, winner).kind = row.kind
BY DEF Closed, Row

\* A step that ends match m.
LEMMA EndBalanced ==
  ASSUME IInv, IInv', InBalance, NEW m \in Matches, NEW status, NEW reason, NEW winner,
         match' = [match EXCEPT ![m] = Closed(match[m], status, reason, winner)],
         external' = external,
         \/ UNCHANGED <<wallet, posted>>
         \/ \E book \in Books : /\ posted' = [posted EXCEPT ![m] = book]
                               /\ Explains(match[m].kind, posted[m], book, wallet, wallet')
  PROVE  InBalance'
<1> DEFINE row == Closed(match[m], status, reason, winner)
<1>1. match' = [match EXCEPT ![m] = row] /\ row.kind = match[m].kind
  BY Rows, ClosedKind
<1> HIDE DEF row
<1>2. Fits(match[m], posted[m], row)
  BY <1>1 DEF Fits
<1>3. CASE UNCHANGED <<wallet, posted>>
  BY <1>1, <1>2, <1>3, FreeBalanced
<1>4. CASE \E book \in Books : /\ posted' = [posted EXCEPT ![m] = book]
                              /\ Explains(match[m].kind, posted[m], book, wallet, wallet')
  <2>1. PICK book \in Books : /\ posted' = [posted EXCEPT ![m] = book]
                             /\ Explains(match[m].kind, posted[m], book, wallet, wallet')
    BY <1>4
  <2>2. Explains(row.kind, posted[m], book, wallet, wallet')
    BY <1>1, <2>1
  <2> QED BY <1>1, <1>2, <2>1, <2>2, StepBalanced
<1> QED BY <1>3, <1>4

LEMMA WinBalanced ==
  ASSUME IInv, IInv', Booked, InBalance, NEW m \in Matches, NEW winner, NEW reason,
         NEW percent \in RakePercents, Win(m, winner, reason, percent)
  PROVE  InBalance'
<1>1. /\ match[m].status = "ACTIVE" /\ winner \in {match[m].p1, match[m].p2}
      /\ match' = [match EXCEPT ![m] = Closed(match[m], "COMPLETED", reason, winner)]
      /\ external' = external
      /\ UNCHANGED <<wallet, posted>> \/ PayWinner(m, winner, Opponent(m, winner), percent)
  BY DEF Win, Running
<1>2. \/ UNCHANGED <<wallet, posted>>
      \/ \E book \in Books : /\ posted' = [posted EXCEPT ![m] = book]
                            /\ Explains(match[m].kind, posted[m], book, wallet, wallet')
  BY <1>1, PayWinnerExplains
<1> QED BY <1>1, <1>2, EndBalanced

LEMMA DrawBalanced ==
  ASSUME IInv, IInv', InBalance, NEW m \in Matches, Draw(m)
  PROVE  InBalance'
<1>1. /\ match[m].status = "ACTIVE"
      /\ match' = [match EXCEPT ![m] = Closed(match[m], "COMPLETED", "DRAW", NoOne)]
      /\ external' = external
      /\ UNCHANGED <<wallet, posted>> \/ RefundBoth(m)
  BY DEF Draw, Running
<1>2. \/ UNCHANGED <<wallet, posted>>
      \/ \E book \in Books : /\ posted' = [posted EXCEPT ![m] = book]
                            /\ Explains(match[m].kind, posted[m], book, wallet, wallet')
  BY <1>1, RefundBothExplains
<1> QED BY <1>1, <1>2, EndBalanced

LEMMA VoidBalanced ==
  ASSUME IInv, IInv', InBalance, NEW m \in Matches, Void(m)
  PROVE  InBalance'
<1>1. /\ match' = [match EXCEPT ![m] = Closed(match[m], "CANCELLED", "VOID", match[m].winner)]
      /\ match[m].status \in {"PENDING", "ACTIVE"} /\ external' = external
  BY DEF Void, Voidable
<1>2. \/ UNCHANGED <<wallet, posted>>
      \/ \E book \in Books : /\ posted' = [posted EXCEPT ![m] = book]
                            /\ Explains(match[m].kind, posted[m], book, wallet, wallet')
  <2>1. CASE match[m].training
    BY <2>1 DEF Void
  <2>2. CASE ~match[m].training /\ match[m].p2 # NoOne
    <3>1. match[m].status = "ACTIVE" /\ RefundBoth(m)
      BY <1>1, <2>2, Rows DEF RowOK, Void
    <3> QED BY <3>1, RefundBothExplains
  <2>3. CASE ~match[m].training /\ match[m].p2 = NoOne
    <3> DEFINE book == Post(posted[m], "REFUND", match[m].p1, match[m].bet)
    <3>1. match[m].status = "PENDING"
      BY <1>1, <2>3, Rows, AccountsAssumption DEF RowOK
    <3>2. /\ CanRefund(wallet, match[m].p1, match[m].kind, match[m].bet)
          /\ wallet' = Refund(wallet, match[m].p1, match[m].kind, match[m].bet)
          /\ posted' = [posted EXCEPT ![m] = book]
      BY <2>3 DEF Void
    <3>3. book \in Books /\ Explains(match[m].kind, posted[m], book, wallet, wallet')
      BY <3>1, <3>2, CreatorExplains
    <3> HIDE DEF book
    <3> QED BY <3>2, <3>3
  <2> QED BY <2>1, <2>2, <2>3
<1> QED BY <1>1, <1>2, EndBalanced

\* Money that enters or leaves outside any match has a ledger row of its own.
MovesOutside(u, q, x) ==
  /\ \A v \in Accounts, p \in Pockets :
       wallet'[v][p].avail = wallet[v][p].avail + (IF v = u /\ p = q THEN x ELSE 0)
  /\ \A v \in Accounts, p \in Pockets :
       external'[v][p] = external[v][p] + (IF v = u /\ p = q THEN x ELSE 0)
  /\ match' = match /\ posted' = posted

LEMMA CashierBalanced ==
  ASSUME IInv, IInv', InBalance, Cashier
  PROVE  InBalance'
<1>1. PICK u \in Accounts, q \in Pockets, x \in Int : MovesOutside(u, q, x)
  <2>1. wallet \in Wallets /\ external \in [Accounts -> [Pockets -> Int]]
    BY DEF IInv, Agree, LedgerOK
  <2>2. ASSUME NEW u \in Players, NEW q \in Pockets, NEW x \in Nat, Fund(u, q, x)
        PROVE  MovesOutside(u, q, x)
    <3>1. u \in Accounts /\ wallet' = Credit(wallet, u, q, x)
      BY <2>2 DEF Fund, Accounts
    <3>2. \A v \in Accounts, p \in Pockets :
            wallet'[v][p].avail = wallet[v][p].avail + (IF v = u /\ p = q THEN x ELSE 0)
      BY <2>1, <3>1, CreditAvail
    <3>3. \A v \in Accounts, p \in Pockets :
            external'[v][p] = external[v][p] + (IF v = u /\ p = q THEN x ELSE 0)
      BY <2>1, <2>2, <3>1 DEF Fund
    <3> QED BY <2>2, <3>2, <3>3 DEF Fund, MovesOutside
  <2>3. ASSUME NEW u \in Players, NEW x \in Nat, Withdraw(u, x)
        PROVE  MovesOutside(u, "REAL", -x)
    <3>1. u \in Accounts /\ wallet' = Reserve(wallet, u, x) /\ "REAL" \in Pockets
      BY <2>3 DEF Withdraw, Accounts, Pockets
    <3>2. \A v \in Accounts, p \in Pockets :
            wallet'[v][p].avail = wallet[v][p].avail - (IF v = u /\ p = "REAL" THEN x ELSE 0)
      BY <2>1, <3>1, ReserveAvail
    <3>3. \A v \in Accounts, p \in Pockets : wallet[v][p].avail \in Int
      BY <2>1 DEF Wallets, Balance
    <3>4. \A v \in Accounts, p \in Pockets :
            external'[v][p] = external[v][p] + (IF v = u /\ p = "REAL" THEN -x ELSE 0)
      BY <2>1, <2>3, <3>1 DEF Withdraw
    <3>5. \A v \in Accounts, p \in Pockets :
            wallet'[v][p].avail
              = wallet[v][p].avail + (IF v = u /\ p = "REAL" THEN -x ELSE 0)
      BY <3>2, <3>3
    <3> QED BY <2>3, <3>4, <3>5 DEF Withdraw, MovesOutside
  <2>4. Kinds \subseteq Pockets /\ Transfers \subseteq Nat /\ Players \subseteq Accounts
    BY AmountsAssumption DEF Pockets, Accounts
  <2>5. CASE \E u \in Players, q \in Kinds, x \in Transfers : Fund(u, q, x)
    <3>1. PICK u \in Players, q \in Kinds, x \in Transfers : Fund(u, q, x)
      BY <2>5
    <3>2. u \in Accounts /\ q \in Pockets /\ x \in Nat /\ x \in Int
      BY <2>4
    <3> QED BY <2>2, <3>1, <3>2
  <2>6. CASE \E u \in Players, x \in Transfers : Withdraw(u, x)
    <3>1. PICK u \in Players, x \in Transfers : Withdraw(u, x)
      BY <2>6
    <3>2. u \in Accounts /\ -x \in Int /\ x \in Nat /\ "REAL" \in Pockets
      BY <2>4 DEF Pockets
    <3> QED BY <2>3, <3>1, <3>2
  <2> QED BY <2>5, <2>6 DEF Cashier
<1> SUFFICES ASSUME NEW v \in Accounts, NEW p \in Pockets
    PROVE  wallet'[v][p].avail
             = external'[v][p] + SumOf(TermsOf(match, posted, v, p), Matches)
  BY <1>1 DEF InBalance, Balanced, MovesOutside
<1> DEFINE s == SumOf(TermsOf(match, posted, v, p), Matches)
           e == external[v][p]
           d == IF v = u /\ p = q THEN x ELSE 0
<1>2. wallet[v][p].avail = e + s
  BY DEF InBalance, Balanced
<1>3. s \in Int
  <2>1. posted \in [Matches -> Books]
    BY DEF IInv, LedgerOK, Books
  <2> QED BY <2>1, TermsType
<1>4. e \in Int /\ d \in Int
  BY DEF IInv, LedgerOK
<1>5. wallet'[v][p].avail = wallet[v][p].avail + d /\ external'[v][p] = e + d
  BY <1>1 DEF MovesOutside
<1> HIDE DEF s, e, d
<1>6. wallet'[v][p].avail = (e + d) + s
  BY <1>2, <1>3, <1>4, <1>5
<1> QED BY <1>5, <1>6 DEF s

------------------------------------------------------------------------------
\* Reconciliation: the theorem.

LEMMA InitBalanced == Init => InBalance
<1> SUFFICES ASSUME Init, NEW u \in Accounts, NEW q \in Pockets
    PROVE  wallet[u][q].avail = external[u][q] + SumOf(TermsOf(match, posted, u, q), Matches)
  BY DEF InBalance, Balanced
<1>1. wallet[u][q].avail = StartBalance[u][q] /\ external[u][q] = StartBalance[u][q]
  BY DEF Init
<1>2. StartBalance[u][q] \in Nat
  BY AmountsAssumption DEF Pockets
<1>3. \A m \in Matches : TermsOf(match, posted, u, q)[m] = 0
  BY InitNet DEF TermsOf, TermOf
<1>4. SumOf(TermsOf(match, posted, u, q), Matches) = 0
  BY <1>3, MatchesFinite, SumZeros
<1> QED BY <1>1, <1>2, <1>4

LEMMA LobbyBalanced ==
  ASSUME IInv, IInv', Booked, InBalance, Lobby
  PROVE  InBalance'
<1>1. /\ Bets \subseteq Nat /\ Kinds \subseteq Pockets
      /\ Modes \cap {"AUTO", "INVITE_CODE"} \subseteq {"AUTO", "INVITE_CODE"}
  BY AmountsAssumption DEF Pockets
<1>2. CASE \E m \in Matches, c \in Players, f \in Formats, k \in Kinds, b \in Bets,
              p \in Modes \cap {"AUTO", "INVITE_CODE"},
              code \in Codes \cup {NoCode} :
             CreateChallenge(m, c, f, k, b, p, code)
  BY <1>1, <1>2, CreateChallengeBalanced
<1>3. CASE \E m \in Matches, c \in Players, f \in Formats, k \in Kinds, b \in Bets :
             "AI" \in Modes /\ CreateVsHouse(m, c, f, k, b)
  BY <1>1, <1>3, CreateVsHouseBalanced
<1>4. CASE \E m \in Matches, c \in Players, f \in Formats :
             "TRAINING" \in Modes /\ CreateTraining(m, c, f)
  BY <1>4, CreateTrainingBalanced
<1>5. CASE \E m \in Matches, j \in Players : JoinFromLobby(m, j)
  BY <1>5, JoinsBalanced
<1>6. CASE \E m \in Matches, j \in Players, c \in Codes : JoinByCode(m, j, c)
  BY <1>6, JoinsBalanced
<1>7. CASE \E m \in Matches, c \in Codes : RegenerateCode(m, c)
  BY <1>7, CodeBalanced
<1>8. CASE \E m \in Matches : ExpireCode(m)
  BY <1>8, CodeBalanced
<1>9. CASE \E m \in Matches : Cancel(m)
  BY <1>9, CancelBalanced
<1> QED BY <1>2, <1>3, <1>4, <1>5, <1>6, <1>7, <1>8, <1>9 DEF Lobby

\* A step that touches none of the four tables.
LEMMA NoneBalanced ==
  ASSUME InBalance, UNCHANGED <<match, posted, wallet, external>>
  PROVE  InBalance'
BY DEF InBalance

LEMMA NextBalanced ==
  ASSUME IInv, IInv', Booked, InBalance, [Next]_vars
  PROVE  InBalance'
<1>1. CASE Lobby
  BY <1>1, LobbyBalanced
<1>2. CASE Pairing
  <2>1. CASE \E w \in Workers : AutoPairScan(w)
    BY <2>1, NoneBalanced DEF AutoPairScan
  <2>2. CASE \E w \in Workers, a, b \in Matches : Merge(w, a, b)
    BY <2>2, MergeBalanced
  <2> QED BY <1>2, <2>1, <2>2 DEF Pairing
<1>3. CASE Resolution
  <2>1. CASE \E m \in Matches, u \in Accounts, r \in RakePercents : Win(m, u, "WIN", r)
    BY <2>1, WinBalanced
  <2>2. CASE \E m \in Matches, u \in Players, r \in RakePercents : Forfeit(m, u, r)
    BY <2>2, WinBalanced DEF Forfeit
  <2>3. CASE \E m \in Matches : Draw(m)
    BY <2>3, DrawBalanced
  <2>4. CASE \E m \in Matches : Void(m)
    BY <2>4, VoidBalanced
  <2> QED BY <1>3, <2>1, <2>2, <2>3, <2>4 DEF Resolution
<1>4. CASE Cashier
  BY <1>4, CashierBalanced
<1>5. CASE UNCHANGED vars
  BY <1>5, NoneBalanced DEF vars
<1> QED BY <1>1, <1>2, <1>3, <1>4, <1>5 DEF Next

\* In every reachable state each available balance, of either pocket, is the sum of its
\* ledger rows, so that reconcile_user_real finds no difference: no join, merge,
\* cancellation, resolution or void moves money without the row that explains it.
THEOREM BalancesAreExplained == Spec => []Reconciled
<1>1. Init => InBalance
  BY InitBalanced
<1>2. IInv /\ IInv' /\ Booked /\ InBalance /\ [Next]_vars => InBalance'
  BY NextBalanced
<1>3. IInv /\ InBalance => Reconciled
  BY ReconciledIsBalanced DEF InBalance
<1> QED BY <1>1, <1>2, <1>3, InductiveInvariant, BooksInOrder, PTL DEF Spec
==============================================================================
