---------------------------- MODULE PaymentsProofs ----------------------------
(***************************************************************************)
(* Proofs about Payments: for any number of intents, requests, verifiers   *)
(* and deaths, one intent per idempotency key and balances that count each *)
(* intent once; and as long as no process has died, payouts that are       *)
(* backed and ends the provider has decided.                               *)
(***************************************************************************)
EXTENDS Payments, TotalsProofs, TLAPS

\* What a deposit request knows.
Row == [pc : {"idle", "looked", "created", "sent"}, user : Users, amount : Nat,
        key : Keys \cup {NoKey}, id : Intents \cup {0}]

TypeOK ==
  /\ intent \in [Intents -> Intent]
  /\ tx \in [Intents -> {"NONE", "PENDING", "SETTLED", "FAILED"}]
  /\ wallet \in Wallets
  /\ granted \subseteq Users
  /\ request \in [Requests -> Row]
  /\ picked \in [Verifiers -> Intents \cup {0}]
  /\ verdict \in [Intents -> {"unknown", "open", "paid", "refused"}]
  /\ inbox \subseteq Intents
  /\ crashes \in Nat
  /\ provider \in Providers

\* A reservation goes with its withdrawal; only a withdrawal is reviewed; nothing is
\* known of an intent that is not there.
Reserved ==
  \A i \in Intents :
    /\ intent[i].dir = "OUT" => intent[i].state # "NONE" /\ tx[i] = intent[i].state
    /\ intent[i].review => intent[i].dir = "OUT"
    /\ intent[i].state = "NONE" => ~intent[i].ref

\* A deposit request at the provider's door has an intent of its own, which nobody
\* else can settle: no reference is saved.
Asking(r) == request[r].pc \in {"created", "sent"}

AskedOnce ==
  \A r \in Requests : Asking(r) =>
    /\ request[r].id \in Intents
    /\ intent[request[r].id].dir = "IN" /\ intent[request[r].id].state = "PENDING"
    /\ ~intent[request[r].id].ref
    /\ request[r].pc = "created" => verdict[request[r].id] = "unknown"
    /\ \A s \in Requests \ {r} : Asking(s) => request[s].id # request[r].id

\* What a verifier has picked is a deposit the provider was paid for.
PickedPaid ==
  \A v \in Verifiers : picked[v] # 0 =>
    /\ intent[picked[v]].dir = "IN" /\ intent[picked[v]].ref
    /\ provider # "sandbox" => verdict[picked[v]] = "paid"

\* As long as no process has died, the provider knows of an order only from an
\* intent that is not in review, and its verdict agrees with how the intent ended.
Agreed(i) ==
  /\ intent[i].state = "NONE" \/ intent[i].review => verdict[i] = "unknown"
  /\ intent[i].state = "FAILED" =>
       verdict[i] = "refused" \/ (intent[i].dir = "OUT" /\ verdict[i] = "unknown")
  /\ intent[i].state = "SETTLED" /\ (provider # "sandbox" \/ intent[i].dir = "OUT") =>
       verdict[i] = "paid"

AgreedAlive == crashes = 0 => \A i \in Intents : Agreed(i)

\* The inductive invariant.
IInv == TypeOK /\ OnePerKey /\ Reserved /\ AskedOnce /\ PickedPaid /\ AgreedAlive

Table == [Intents -> Intent]

------------------------------------------------------------------------------
\* The parts of a state.

LEMMA AbsentType == Absent \in Intent /\ Idle \in Row
<1>1. (CHOOSE u \in Users : TRUE) \in Users
  BY PaymentsAssumption
<1> QED BY <1>1 DEF Absent, Idle, Intent, Row

LEMMA NewIntentType ==
  ASSUME NEW dir \in {"IN", "OUT"}, NEW u \in Users, NEW x \in Nat, NEW k \in Keys \cup {NoKey}
  PROVE  /\ NewIntent(dir, u, x, k) \in Intent
         /\ NewIntent(dir, u, x, k).state = "PENDING" /\ NewIntent(dir, u, x, k).dir = dir
         /\ NewIntent(dir, u, x, k).key = k
         /\ ~NewIntent(dir, u, x, k).ref /\ ~NewIntent(dir, u, x, k).review
<1>1. Absent.user \in Users
  BY AbsentType DEF Intent
<1> QED BY <1>1 DEF NewIntent, Absent, Intent

\* A credit keeps every balance at zero or above.
LEMMA CreditType ==
  ASSUME NEW w \in Wallets, NEW u \in Users, NEW q \in Pockets, NEW x \in Nat
  PROVE  Credit(w, u, q, x) \in Wallets
BY DEF Credit, Wallets, Balance, Accounts

LEMMA ReserveType ==
  ASSUME NEW w \in Wallets, NEW u \in Users, NEW x \in Nat, CanReserve(w, u, x)
  PROVE  Reserve(w, u, x) \in Wallets
BY DEF CanReserve, Reserve, Wallets, Balance, Accounts, Pockets

LEMMA WelcomedType ==
  ASSUME NEW w \in Wallets, NEW u \in Users, NEW x \in Nat
  PROVE  Welcomed(w, u, x) \in Wallets
<1>1. x * BonusPercent \in Nat
  BY PaymentsAssumption
<1>2. (x * BonusPercent) \div 100 \in Nat
  <2> DEFINE n == x * BonusPercent
  <2>1. n \in Nat
    BY <1>1
  <2> HIDE DEF n
  <2>2. n \div 100 \in Nat
    BY <2>1
  <2> QED BY <2>2 DEF n
<1> QED BY <1>2, CreditType DEF Welcomed, Pockets

\* A table in which the row of one intent has changed.
LEMMA OneRow ==
  ASSUME NEW i \in Intents, intent \in Table, NEW row \in Intent,
         intent' = [intent EXCEPT ![i] = row]
  PROVE  /\ intent' \in Table
         /\ intent'[i] = row
         /\ \A j \in Intents \ {i} : intent'[j] = intent[j]
BY DEF Table

LEMMA InitIInv == Init => IInv
<1> SUFFICES ASSUME Init PROVE IInv
  OBVIOUS
<1>1. \A i \in Intents : intent[i] = Absent
  BY DEF Init
<1>2. TypeOK
  <2>1. wallet \in Wallets
    BY DEF Init, Wallets, Balance, Accounts
  <2> QED BY <2>1, AbsentType DEF Init, TypeOK
<1>3. OnePerKey
  <2>1. Absent.key = NoKey
    BY DEF Absent
  <2>2. \A i \in Intents : intent[i].key = NoKey
    BY <1>1, <2>1
  <2> QED BY <2>2 DEF OnePerKey
<1>4. Reserved /\ AgreedAlive
  BY <1>1 DEF Init, Reserved, AgreedAlive, Agreed, Absent
<1>5. AskedOnce /\ PickedPaid
  BY DEF Init, AskedOnce, Asking, Idle, PickedPaid
<1> QED BY <1>2, <1>3, <1>4, <1>5 DEF IInv

------------------------------------------------------------------------------
\* The end of an intent.

\* Only its state changes.
LEMMA EndedRow ==
  ASSUME NEW i \in Intents, intent \in Table, NEW st \in {"SETTLED", "FAILED"},
         intent' = [intent EXCEPT ![i].state = st]
  PROVE  /\ intent' \in Table
         /\ intent'[i].state = st
         /\ intent'[i].dir = intent[i].dir /\ intent'[i].key = intent[i].key
         /\ intent'[i].ref = intent[i].ref /\ intent'[i].review = intent[i].review
         /\ \A j \in Intents \ {i} : intent'[j] = intent[j]
<1> DEFINE row == [intent[i] EXCEPT !.state = st]
<1>1. row \in Intent /\ row.state = st /\ row.dir = intent[i].dir /\ row.key = intent[i].key
      /\ row.ref = intent[i].ref /\ row.review = intent[i].review
  <2>1. intent[i] \in Intent
    BY DEF Table
  <2>2. row \in Intent
    BY <2>1 DEF Intent
  <2>3. row.state = st
    BY <2>1 DEF Intent
  <2> QED BY <2>1, <2>2, <2>3 DEF Intent
<1>2. intent' = [intent EXCEPT ![i] = row]
  OBVIOUS
<1> HIDE DEF row
<1>3. intent' \in Table /\ intent'[i] = row /\ \A j \in Intents \ {i} : intent'[j] = intent[j]
  BY <1>1, <1>2, OneRow
<1> QED BY <1>1, <1>3

\* What an end of a pending intent must bring, to keep the invariant: the verdict
\* agrees, the reservation ends with it, and no request is still asking.
LEMMA Ended ==
  ASSUME IInv, NEW i \in Intents, NEW st \in {"SETTLED", "FAILED"},
         intent' = [intent EXCEPT ![i].state = st],
         intent[i].ref \/ intent[i].dir = "OUT",
         \A j \in Intents \ {i} : tx'[j] = tx[j],
         intent[i].dir = "OUT" => tx'[i] = st,
         UNCHANGED <<request, verdict, crashes, provider>>,
         crashes = 0 => Agreed(i)'
  PROVE  OnePerKey' /\ Reserved' /\ AskedOnce' /\ AgreedAlive'
<1>1. /\ intent' \in Table
      /\ intent'[i].state = st
      /\ intent'[i].dir = intent[i].dir /\ intent'[i].key = intent[i].key
      /\ intent'[i].ref = intent[i].ref /\ intent'[i].review = intent[i].review
      /\ \A j \in Intents \ {i} : intent'[j] = intent[j]
  BY EndedRow DEF IInv, TypeOK, Table
<1>2. OnePerKey'
  <2>1. \A j \in Intents : intent'[j].key = intent[j].key
    BY <1>1
  <2> QED BY <2>1 DEF IInv, OnePerKey
<1>3. Reserved'
  BY <1>1 DEF IInv, Reserved
<1>4. AskedOnce'
  <2>1. \A r \in Requests : Asking(r) => request[r].id # i
    BY DEF IInv, AskedOnce
  <2> QED BY <1>1, <2>1 DEF IInv, AskedOnce, Asking
<1>5. AgreedAlive'
  BY <1>1 DEF IInv, AgreedAlive, Agreed
<1> QED BY <1>2, <1>3, <1>4, <1>5

\* The references and the directions of picked intents stay.
LEMMA PickedStays ==
  ASSUME IInv, NEW i \in Intents, NEW st \in {"SETTLED", "FAILED"},
         intent' = [intent EXCEPT ![i].state = st],
         \A v \in Verifiers : picked'[v] \in {picked[v], 0},
         UNCHANGED <<verdict, provider>>
  PROVE  PickedPaid'
<1>1. \A j \in Intents : intent'[j].dir = intent[j].dir /\ intent'[j].ref = intent[j].ref
  BY EndedRow DEF IInv, TypeOK, Table
<1>2. \A v \in Verifiers : picked[v] \in Intents \cup {0}
  BY DEF IInv, TypeOK
<1> QED BY <1>1, <1>2 DEF IInv, PickedPaid

LEMMA SettleDepositType ==
  ASSUME TypeOK, NEW i \in Intents, SettleDeposit(i)
  PROVE  /\ intent' \in Table /\ wallet' \in Wallets /\ granted' \subseteq Users
         /\ tx' = tx /\ intent' = [intent EXCEPT ![i].state = "SETTLED"]
<1>1. intent[i].user \in Users /\ intent[i].amount \in Nat
  BY DEF TypeOK, Intent
<1>2. intent' \in Table
  BY EndedRow DEF TypeOK, Table, SettleDeposit
<1>3. Credit(wallet, intent[i].user, "REAL", intent[i].amount) \in Wallets
  BY <1>1, CreditType DEF TypeOK, Pockets
<1>4. Welcomed(Credit(wallet, intent[i].user, "REAL", intent[i].amount),
               intent[i].user, intent[i].amount) \in Wallets
  BY <1>1, <1>3, WelcomedType
<1> QED BY <1>1, <1>2, <1>3, <1>4 DEF SettleDeposit, TypeOK

LEMMA FailType ==
  ASSUME TypeOK, NEW i \in Intents, Fail(i)
  PROVE  /\ intent' \in Table /\ wallet' \in Wallets /\ granted' = granted
         /\ tx' \in [Intents -> {"NONE", "PENDING", "SETTLED", "FAILED"}]
         /\ \A j \in Intents \ {i} : tx'[j] = tx[j]
         /\ tx[i] = "PENDING" => tx'[i] = "FAILED"
         /\ intent' = [intent EXCEPT ![i].state = "FAILED"]
<1>1. intent[i].user \in Users /\ intent[i].amount \in Nat
  BY DEF TypeOK, Intent
<1>2. intent' \in Table
  BY EndedRow DEF TypeOK, Table, Fail
<1>3. Credit(wallet, intent[i].user, "REAL", intent[i].amount) \in Wallets
  BY <1>1, CreditType DEF TypeOK, Pockets
<1> QED BY <1>2, <1>3 DEF Fail, TypeOK

\* A deposit is settled, by a callback or by verify.
LEMMA DepositSettled ==
  ASSUME IInv, NEW i \in Intents, SettleDeposit(i),
         intent[i].state = "PENDING", intent[i].dir = "IN", intent[i].ref,
         provider # "sandbox" => verdict[i] = "paid",
         UNCHANGED <<request, verdict, crashes, provider>>
  PROVE  OnePerKey' /\ Reserved' /\ AskedOnce' /\ AgreedAlive'
<1>1. tx' = tx /\ intent' = [intent EXCEPT ![i].state = "SETTLED"]
  BY SettleDepositType DEF IInv
<1>2. intent'[i].state = "SETTLED" /\ intent'[i].dir = "IN" /\ ~intent'[i].review
  <2>1. ~intent[i].review
    BY DEF IInv, Reserved, TypeOK, Intent
  <2> QED BY <1>1, <2>1, EndedRow DEF IInv, TypeOK, Table
<1>3. Agreed(i)'
  BY <1>2 DEF Agreed
<1> QED BY <1>1, <1>3, Ended

\* An intent fails, by a callback or an operator: the provider has refused it, or
\* never heard of it.
LEMMA IntentFailed ==
  ASSUME IInv, NEW i \in Intents, Fail(i),
         intent[i].state = "PENDING",
         intent[i].ref \/ intent[i].dir = "OUT",
         \/ verdict[i] = "refused"
         \/ intent[i].review /\ (crashes = 0 => verdict[i] = "unknown"),
         UNCHANGED <<request, verdict, crashes, provider>>
  PROVE  OnePerKey' /\ Reserved' /\ AskedOnce' /\ AgreedAlive'
<1>1. /\ intent' = [intent EXCEPT ![i].state = "FAILED"]
      /\ \A j \in Intents \ {i} : tx'[j] = tx[j]
      /\ tx[i] = "PENDING" => tx'[i] = "FAILED"
  BY FailType DEF IInv
<1>2. intent[i].dir = "OUT" => tx'[i] = "FAILED"
  BY <1>1 DEF IInv, Reserved
<1>3. /\ intent'[i].state = "FAILED" /\ intent'[i].dir = intent[i].dir
      /\ intent'[i].review = intent[i].review
  BY <1>1, EndedRow DEF IInv, TypeOK, Table
<1>4. crashes = 0 => Agreed(i)'
  <2>1. intent[i].review => intent[i].dir = "OUT"
    BY DEF IInv, Reserved
  <2>2. crashes = 0 => (intent[i].review => verdict[i] = "unknown")
    BY DEF IInv, AgreedAlive, Agreed
  <2> QED BY <1>3, <2>1, <2>2 DEF Agreed
<1> QED BY <1>1, <1>2, <1>4, Ended

------------------------------------------------------------------------------
\* The steps of a deposit request.

LEMMA DepositLookupStep ==
  ASSUME IInv, NEW r \in Requests, NEW u \in Users, NEW x \in Amounts,
         NEW k \in Keys \cup {NoKey}, DepositLookup(r, u, x, k)
  PROVE  IInv'
<1> DEFINE q == [pc |-> "looked", user |-> u, amount |-> x, key |-> k, id |-> 0]
<1>1. q \in Row
  BY PaymentsAssumption DEF Row
<1>2. /\ request' = [request EXCEPT ![r] = q]
      /\ UNCHANGED <<intent, tx, wallet, granted, picked, verdict, inbox, crashes, provider>>
  BY DEF DepositLookup
<1>3. TypeOK'
  BY <1>1, <1>2 DEF IInv, TypeOK
<1>4. ~Asking(r)' /\ \A s \in Requests \ {r} : request'[s] = request[s]
  BY <1>2 DEF IInv, TypeOK, Asking
<1>5. AskedOnce'
  BY <1>2, <1>4 DEF IInv, AskedOnce, Asking
<1>6. OnePerKey' /\ Reserved' /\ PickedPaid' /\ AgreedAlive'
  BY <1>2 DEF IInv, OnePerKey, Reserved, PickedPaid, AgreedAlive, Agreed
<1> QED BY <1>3, <1>5, <1>6 DEF IInv

LEMMA DepositCreateStep ==
  ASSUME IInv, NEW r \in Requests, DepositCreate(r)
  PROVE  IInv'
<1> DEFINE q == request[r]
<1>1. /\ q.pc = "looked" /\ q.user \in Users /\ q.amount \in Nat /\ q.key \in Keys \cup {NoKey}
      /\ UNCHANGED <<tx, wallet, granted, picked, verdict, inbox, crashes, provider>>
  BY DEF DepositCreate, IInv, TypeOK, Row
<1>2. CASE intent' = intent /\ request' = [request EXCEPT ![r] = Idle]
  <2>1. TypeOK'
    BY <1>1, <1>2, AbsentType DEF IInv, TypeOK
  <2>2. ~Asking(r)' /\ \A s \in Requests \ {r} : request'[s] = request[s]
    BY <1>2 DEF IInv, TypeOK, Asking, Idle
  <2>3. AskedOnce'
    BY <1>1, <1>2, <2>2 DEF IInv, AskedOnce, Asking
  <2>4. OnePerKey' /\ Reserved' /\ PickedPaid' /\ AgreedAlive'
    BY <1>1, <1>2 DEF IInv, OnePerKey, Reserved, PickedPaid, AgreedAlive, Agreed
  <2> QED BY <2>1, <2>3, <2>4 DEF IInv
<1>3. ASSUME NEW i \in Intents, NextId(i), Insertable(r),
             intent' = [intent EXCEPT ![i] = NewIntent("IN", q.user, q.amount, q.key)],
             request' = [request EXCEPT ![r].pc = "created", ![r].id = i]
      PROVE  IInv'
  <2> DEFINE new == NewIntent("IN", q.user, q.amount, q.key)
  <2>1. /\ new \in Intent /\ new.state = "PENDING" /\ new.dir = "IN" /\ new.key = q.key
        /\ ~new.ref /\ ~new.review
    BY <1>1, NewIntentType
  <2>2. intent' = [intent EXCEPT ![i] = new]
    BY <1>3
  <2>3. intent[i].state = "NONE" /\ verdict[i] = "unknown"
    BY <1>3 DEF NextId, Unused
  <2> HIDE DEF new
  <2>4. /\ intent' \in Table /\ intent'[i] = new
        /\ \A j \in Intents \ {i} : intent'[j] = intent[j]
    BY <2>1, <2>2, OneRow DEF IInv, TypeOK, Table
  <2>5. /\ request' \in [Requests -> Row]
        /\ request'[r].pc = "created" /\ request'[r].id = i
        /\ \A s \in Requests \ {r} : request'[s] = request[s]
    <3>1. PICK p \in Row : p = request[r]
      BY DEF IInv, TypeOK
    <3>2. request' = [request EXCEPT ![r] = [p EXCEPT !.pc = "created", !.id = i]]
      BY <1>3, <3>1
    <3>3. /\ [p EXCEPT !.pc = "created", !.id = i] \in Row
          /\ [p EXCEPT !.pc = "created", !.id = i].pc = "created"
          /\ [p EXCEPT !.pc = "created", !.id = i].id = i
      BY DEF Row
    <3> QED BY <3>2, <3>3 DEF IInv, TypeOK
  <2>6. TypeOK'
    BY <1>1, <2>4, <2>5 DEF IInv, TypeOK, Table
  <2>7. OnePerKey'
    <3>1. \A j \in Intents : intent[j].key = q.key => q.key = NoKey
      BY <1>3 DEF Insertable, KeyTaken
    <3> QED BY <2>1, <2>4, <3>1 DEF IInv, OnePerKey
  <2>8. Reserved'
    BY <1>1, <2>1, <2>4 DEF IInv, Reserved
  <2>9. AskedOnce'
    <3>1. \A s \in Requests \ {r} : Asking(s) => request[s].id # i
      BY <2>3 DEF IInv, AskedOnce
    <3>2. ASSUME NEW s \in Requests \ {r}, Asking(s)'
          PROVE  /\ request'[s].id \in Intents \ {i}
                 /\ intent'[request'[s].id].dir = "IN"
                 /\ intent'[request'[s].id].state = "PENDING"
                 /\ ~intent'[request'[s].id].ref
                 /\ request'[s].pc = "created" => verdict'[request'[s].id] = "unknown"
                 /\ \A t \in Requests \ {s} : Asking(t)' => request'[t].id # request'[s].id
      <4>1. Asking(s) /\ request'[s] = request[s] /\ request[s].id \in Intents \ {i}
        BY <2>5, <3>1, <3>2 DEF IInv, AskedOnce, Asking
      <4>2. intent'[request[s].id] = intent[request[s].id]
        BY <2>4, <4>1
      <4>3. \A t \in Requests \ {s} : Asking(t)' => request'[t].id # request'[s].id
        BY <2>5, <4>1 DEF IInv, AskedOnce, Asking
      <4> QED BY <1>1, <4>1, <4>2, <4>3 DEF IInv, AskedOnce
    <3> QED BY <1>1, <2>1, <2>3, <2>4, <2>5, <3>2 DEF AskedOnce
  <2>10. PickedPaid'
    <3>1. \A v \in Verifiers : picked[v] # 0 => picked[v] \in Intents \ {i}
      <4>1. ~intent[i].ref
        BY <2>3 DEF IInv, Reserved
      <4> QED BY <4>1 DEF IInv, TypeOK, PickedPaid
    <3> QED BY <1>1, <2>4, <3>1 DEF IInv, PickedPaid
  <2>11. AgreedAlive'
    BY <1>1, <2>1, <2>4 DEF IInv, AgreedAlive, Agreed
  <2> QED BY <2>6, <2>7, <2>8, <2>9, <2>10, <2>11 DEF IInv
<1> QED BY <1>2, <1>3 DEF DepositCreate

LEMMA DepositInitiateStep ==
  ASSUME IInv, NEW r \in Requests, DepositInitiate(r)
  PROVE  IInv'
<1> DEFINE i == request[r].id
<1>1. /\ Asking(r) /\ i \in Intents /\ intent[i].dir = "IN" /\ intent[i].state = "PENDING"
      /\ ~intent[i].ref /\ verdict[i] = "unknown"
  BY DEF IInv, AskedOnce, Asking, DepositInitiate
<1>2. /\ verdict' = [verdict EXCEPT ![i] = "open"]
      /\ request' = [request EXCEPT ![r].pc = "sent"]
      /\ UNCHANGED <<intent, tx, wallet, granted, picked, inbox, crashes, provider>>
  BY DEF DepositInitiate
<1>3. /\ request' \in [Requests -> Row]
      /\ request'[r].pc = "sent" /\ request'[r].id = i
      /\ \A s \in Requests \ {r} : request'[s] = request[s]
  BY <1>2 DEF IInv, TypeOK, Row
<1>4. \A s \in Requests : Asking(s)' => Asking(s) /\ request'[s].id = request[s].id
  BY <1>1, <1>3 DEF Asking
<1> HIDE DEF i
<1>5. /\ verdict' \in [Intents -> {"unknown", "open", "paid", "refused"}]
      /\ \A j \in Intents \ {i} : verdict'[j] = verdict[j]
  BY <1>1, <1>2 DEF IInv, TypeOK
<1>6. TypeOK'
  BY <1>2, <1>3, <1>5 DEF IInv, TypeOK
<1>7. OnePerKey' /\ Reserved'
  BY <1>2 DEF IInv, OnePerKey, Reserved
<1>8. \A s \in Requests \ {r} : Asking(s) => request[s].id # i
  BY <1>1 DEF IInv, AskedOnce, i
<1>9. AskedOnce'
  BY <1>2, <1>3, <1>4, <1>5, <1>8 DEF IInv, AskedOnce
<1>10. PickedPaid'
  <2>1. \A v \in Verifiers : picked[v] # 0 => picked[v] \in Intents \ {i}
    BY <1>1 DEF IInv, TypeOK, PickedPaid
  <2> QED BY <1>2, <1>5, <2>1 DEF IInv, PickedPaid
<1>11. AgreedAlive'
  <2>1. ~intent[i].review
    BY <1>1 DEF IInv, TypeOK, Intent, Reserved
  <2> QED BY <1>1, <1>2, <1>5, <2>1 DEF IInv, AgreedAlive, Agreed
<1> QED BY <1>6, <1>7, <1>9, <1>10, <1>11 DEF IInv

LEMMA DepositSaveRefStep ==
  ASSUME IInv, NEW r \in Requests, DepositSaveRef(r)
  PROVE  IInv'
<1> DEFINE i == request[r].id
           row == [intent[i] EXCEPT !.ref = TRUE]
<1>1. Asking(r) /\ i \in Intents /\ intent[i].dir = "IN" /\ intent[i].state = "PENDING"
  BY DEF IInv, AskedOnce, Asking, DepositSaveRef
<1>2. /\ intent' = [intent EXCEPT ![i] = row]
      /\ request' = [request EXCEPT ![r] = Idle]
      /\ UNCHANGED <<tx, wallet, granted, picked, verdict, inbox, crashes, provider>>
  BY DEF DepositSaveRef
<1>3. /\ row \in Intent /\ row.state = intent[i].state /\ row.dir = intent[i].dir
      /\ row.key = intent[i].key /\ row.review = intent[i].review /\ row.ref
  BY <1>1 DEF IInv, TypeOK, Intent
<1>4. \A s \in Requests \ {r} : Asking(s) => request[s].id # i
  BY <1>1 DEF IInv, AskedOnce
<1> HIDE DEF i, row
<1>5. /\ intent' \in Table /\ intent'[i] = row
      /\ \A j \in Intents \ {i} : intent'[j] = intent[j]
  BY <1>1, <1>2, <1>3, OneRow DEF IInv, TypeOK, Table
<1>6. ~Asking(r)' /\ \A s \in Requests \ {r} : request'[s] = request[s]
  BY <1>2 DEF IInv, TypeOK, Asking, Idle
<1>7. TypeOK'
  BY <1>2, <1>5, AbsentType DEF IInv, TypeOK, Table
<1>8. OnePerKey'
  <2>1. \A j \in Intents : intent'[j].key = intent[j].key
    BY <1>3, <1>5
  <2> QED BY <2>1 DEF IInv, OnePerKey
<1>9. Reserved'
  BY <1>1, <1>2, <1>3, <1>5 DEF IInv, Reserved
<1>10. AskedOnce'
  BY <1>2, <1>4, <1>5, <1>6 DEF IInv, AskedOnce, Asking
<1>11. PickedPaid'
  <2>1. \A j \in Intents : intent'[j].dir = intent[j].dir /\ (intent[j].ref => intent'[j].ref)
    BY <1>3, <1>5
  <2> QED BY <1>2, <2>1 DEF IInv, TypeOK, PickedPaid
<1>12. AgreedAlive'
  BY <1>2, <1>3, <1>5 DEF IInv, AgreedAlive, Agreed
<1> QED BY <1>7, <1>8, <1>9, <1>10, <1>11, <1>12 DEF IInv

\* The process that serves a request dies; a death ends what is claimed of the
\* living (AgreedAlive).
LEMMA DepositCrashStep ==
  ASSUME IInv, NEW r \in Requests, DepositCrash(r)
  PROVE  IInv'
<1>1. /\ request' = [request EXCEPT ![r] = Idle] /\ crashes' = crashes + 1
      /\ UNCHANGED <<intent, tx, wallet, granted, picked, verdict, inbox, provider>>
  BY DEF DepositCrash
<1>2. TypeOK' /\ crashes' # 0
  BY <1>1, AbsentType DEF IInv, TypeOK
<1>3. ~Asking(r)' /\ \A s \in Requests \ {r} : request'[s] = request[s]
  BY <1>1 DEF IInv, TypeOK, Asking, Idle
<1>4. AskedOnce'
  BY <1>1, <1>3 DEF IInv, AskedOnce, Asking
<1>5. OnePerKey' /\ Reserved' /\ PickedPaid' /\ AgreedAlive'
  BY <1>1, <1>2 DEF IInv, OnePerKey, Reserved, PickedPaid, AgreedAlive
<1> QED BY <1>2, <1>4, <1>5 DEF IInv

------------------------------------------------------------------------------
\* The steps of withdrawals and of operators.

LEMMA WithdrawStep ==
  ASSUME IInv, NEW i \in Intents, NEW u \in Users, NEW x \in Amounts, Withdraw(i, u, x)
  PROVE  IInv'
<1> DEFINE review == NeedsReview(x)
           new == NewIntent("OUT", u, x, NoKey)
           row == [new EXCEPT !.ref = ~review, !.review = review]
<1>1. /\ intent[i].state = "NONE" /\ verdict[i] = "unknown" /\ CanReserve(wallet, u, x)
      /\ wallet' = Reserve(wallet, u, x)
      /\ tx' = [tx EXCEPT ![i] = "PENDING"]
      /\ intent' = [intent EXCEPT ![i] = row]
      /\ verdict' = IF review THEN verdict ELSE [verdict EXCEPT ![i] = "open"]
      /\ UNCHANGED <<granted, request, picked, inbox, crashes, provider>>
  BY DEF Withdraw, NextId, Unused
<1>2. x \in Nat /\ review \in BOOLEAN
  BY PaymentsAssumption DEF NeedsReview
<1> HIDE DEF review
<1>3. /\ new \in Intent /\ new.state = "PENDING" /\ new.dir = "OUT" /\ new.key = NoKey
  BY <1>2, NewIntentType
<1> HIDE DEF new
<1>4. /\ row \in Intent /\ row.state = "PENDING" /\ row.dir = "OUT" /\ row.key = NoKey
      /\ row.review = review
  BY <1>2, <1>3 DEF Intent
<1> HIDE DEF row
<1>5. /\ intent' \in Table /\ intent'[i] = row
      /\ \A j \in Intents \ {i} : intent'[j] = intent[j]
  BY <1>1, <1>4, OneRow DEF IInv, TypeOK, Table
<1>6. /\ verdict' \in [Intents -> {"unknown", "open", "paid", "refused"}]
      /\ \A j \in Intents \ {i} : verdict'[j] = verdict[j]
      /\ review => verdict'[i] = "unknown"
  BY <1>1 DEF IInv, TypeOK
<1>7. /\ tx' \in [Intents -> {"NONE", "PENDING", "SETTLED", "FAILED"}]
      /\ tx'[i] = "PENDING" /\ \A j \in Intents \ {i} : tx'[j] = tx[j]
  BY <1>1 DEF IInv, TypeOK
<1>8. TypeOK'
  <2>1. wallet' \in Wallets
    BY <1>1, <1>2, ReserveType DEF IInv, TypeOK
  <2> QED BY <1>1, <1>5, <1>6, <1>7, <2>1 DEF IInv, TypeOK, Table
<1>9. OnePerKey'
  BY <1>4, <1>5 DEF IInv, OnePerKey
<1>10. Reserved'
  BY <1>4, <1>5, <1>7 DEF IInv, Reserved
<1>11. AskedOnce'
  <2>1. \A r \in Requests : Asking(r) => request[r].id \in Intents \ {i}
    BY <1>1 DEF IInv, AskedOnce
  <2> QED BY <1>1, <1>5, <1>6, <2>1 DEF IInv, AskedOnce, Asking
<1>12. PickedPaid'
  <2>1. \A v \in Verifiers : picked[v] # 0 => picked[v] \in Intents \ {i}
    BY <1>1 DEF IInv, TypeOK, PickedPaid, Reserved
  <2> QED BY <1>1, <1>5, <1>6, <2>1 DEF IInv, PickedPaid
<1>13. AgreedAlive'
  BY <1>1, <1>4, <1>5, <1>6 DEF IInv, AgreedAlive, Agreed
<1> QED BY <1>8, <1>9, <1>10, <1>11, <1>12, <1>13 DEF IInv

LEMMA ApproveStep ==
  ASSUME IInv, NEW i \in Intents, Approve(i)
  PROVE  IInv'
<1> DEFINE row == [intent[i] EXCEPT !.ref = TRUE, !.review = FALSE]
<1>1. /\ intent[i].review /\ intent[i].state = "PENDING"
      /\ verdict' = [verdict EXCEPT ![i] = IF @ = "unknown" THEN "open" ELSE @]
      /\ intent' = [intent EXCEPT ![i] = row]
      /\ UNCHANGED <<tx, wallet, granted, request, picked, inbox, crashes, provider>>
  BY DEF Approve, InReview
<1>2. intent[i].dir = "OUT"
  BY <1>1 DEF IInv, Reserved
<1>3. /\ row \in Intent /\ row.state = "PENDING" /\ row.dir = "OUT" /\ row.key = intent[i].key
      /\ ~row.review
  <2>1. intent[i] \in Intent
    BY DEF IInv, TypeOK, Table
  <2>2. row \in Intent
    BY <2>1 DEF Intent
  <2>3. row.state = intent[i].state /\ row.dir = intent[i].dir /\ row.key = intent[i].key
    BY <2>1 DEF Intent
  <2>4. ~row.review
    BY <2>1 DEF Intent
  <2> QED BY <1>1, <1>2, <2>2, <2>3, <2>4
<1> HIDE DEF row
<1>4. /\ intent' \in Table /\ intent'[i] = row
      /\ \A j \in Intents \ {i} : intent'[j] = intent[j]
  BY <1>1, <1>3, OneRow DEF IInv, TypeOK, Table
<1>5. /\ verdict' \in [Intents -> {"unknown", "open", "paid", "refused"}]
      /\ \A j \in Intents \ {i} : verdict'[j] = verdict[j]
  BY <1>1 DEF IInv, TypeOK
<1>6. TypeOK'
  BY <1>1, <1>4, <1>5 DEF IInv, TypeOK, Table
<1>7. OnePerKey'
  <2>1. \A j \in Intents : intent'[j].key = intent[j].key
    BY <1>3, <1>4
  <2> QED BY <2>1 DEF IInv, OnePerKey
<1>8. Reserved'
  BY <1>1, <1>2, <1>3, <1>4 DEF IInv, Reserved
<1>9. AskedOnce'
  <2>1. \A r \in Requests : Asking(r) => request[r].id \in Intents \ {i}
    BY <1>2 DEF IInv, AskedOnce
  <2> QED BY <1>1, <1>4, <1>5, <2>1 DEF IInv, AskedOnce, Asking
<1>10. PickedPaid'
  <2>1. \A v \in Verifiers : picked[v] # 0 => picked[v] \in Intents \ {i}
    BY <1>2 DEF IInv, TypeOK, PickedPaid
  <2> QED BY <1>1, <1>4, <1>5, <2>1 DEF IInv, PickedPaid
<1>11. AgreedAlive'
  BY <1>1, <1>3, <1>4, <1>5 DEF IInv, AgreedAlive, Agreed
<1> QED BY <1>6, <1>7, <1>8, <1>9, <1>10, <1>11 DEF IInv

LEMMA RejectStep ==
  ASSUME IInv, NEW i \in Intents, Reject(i)
  PROVE  IInv'
<1>1. /\ intent[i].review /\ intent[i].state = "PENDING" /\ Fail(i)
      /\ UNCHANGED <<request, picked, verdict, inbox, crashes, provider>>
  BY DEF Reject, InReview
<1>2. intent[i].dir = "OUT" /\ (crashes = 0 => verdict[i] = "unknown")
  BY <1>1 DEF IInv, Reserved, AgreedAlive, Agreed
<1>3. OnePerKey' /\ Reserved' /\ AskedOnce' /\ AgreedAlive'
  BY <1>1, <1>2, IntentFailed
<1>4. TypeOK'
  BY <1>1, FailType DEF IInv, TypeOK, Table
<1>5. PickedPaid'
  BY <1>1, FailType, PickedStays DEF IInv
<1> QED BY <1>3, <1>4, <1>5 DEF IInv

\* The provider gets an order of an intent that is not there, or is still in review:
\* the process died before its commit.
LEMMA OrderCrashStep ==
  ASSUME IInv, NEW i \in Intents, verdict[i] = "unknown",
         ~(intent[i].dir = "IN" /\ intent[i].state = "PENDING"),
         verdict' = [verdict EXCEPT ![i] = "open"],
         crashes' = crashes + 1,
         UNCHANGED <<intent, tx, wallet, granted, request, picked, inbox, provider>>
  PROVE  IInv'
<1>1. /\ verdict' \in [Intents -> {"unknown", "open", "paid", "refused"}]
      /\ \A j \in Intents \ {i} : verdict'[j] = verdict[j]
  BY DEF IInv, TypeOK
<1>2. TypeOK' /\ crashes' # 0
  BY <1>1 DEF IInv, TypeOK
<1>3. OnePerKey' /\ Reserved' /\ AgreedAlive'
  BY <1>2 DEF IInv, OnePerKey, Reserved, AgreedAlive
<1>4. AskedOnce'
  <2>1. \A r \in Requests : Asking(r) => request[r].id # i
    BY DEF IInv, AskedOnce
  <2> QED BY <1>1, <2>1 DEF IInv, AskedOnce, Asking
<1>5. PickedPaid'
  BY <1>1 DEF IInv, TypeOK, PickedPaid
<1> QED BY <1>2, <1>3, <1>4, <1>5 DEF IInv

LEMMA CrashStep ==
  ASSUME IInv, Crash
  PROVE  IInv'
<1>1. CASE \E r \in Requests : DepositCrash(r)
  BY <1>1, DepositCrashStep
<1>2. ASSUME NEW i \in Intents, NEW u \in Users, NEW x \in Amounts, WithdrawCrash(i, u, x)
      PROVE  IInv'
  <2>1. intent[i].state = "NONE" /\ verdict[i] = "unknown"
    BY <1>2 DEF WithdrawCrash, NextId, Unused
  <2> QED BY <1>2, <2>1, OrderCrashStep DEF WithdrawCrash
<1>3. ASSUME NEW i \in Intents, ApproveCrash(i)
      PROVE  IInv'
  <2>1. intent[i].dir = "OUT"
    BY <1>3 DEF ApproveCrash, InReview, IInv, Reserved
  <2> QED BY <1>3, <2>1, OrderCrashStep DEF ApproveCrash
<1> QED BY <1>1, <1>2, <1>3 DEF Crash

------------------------------------------------------------------------------
\* The steps of callbacks, of verify and of the provider.

LEMMA HandleCallbackStep ==
  ASSUME IInv, NEW i \in Intents, HandleCallback(i)
  PROVE  IInv'
<1>1. inbox' \subseteq Intents /\ UNCHANGED <<request, picked, verdict, crashes, provider>>
  BY DEF HandleCallback, IInv, TypeOK
<1>2. CASE /\ Recognised(i) /\ Settleable(i) /\ verdict[i] = "paid"
           /\ intent[i].dir = "IN" /\ SettleDeposit(i)
  <2>1. OnePerKey' /\ Reserved' /\ AskedOnce' /\ AgreedAlive'
    BY <1>1, <1>2, DepositSettled DEF Recognised
  <2>2. TypeOK'
    BY <1>1, <1>2, SettleDepositType DEF IInv, TypeOK, Table
  <2>3. PickedPaid'
    BY <1>1, <1>2, SettleDepositType, PickedStays DEF IInv
  <2> QED BY <2>1, <2>2, <2>3 DEF IInv
<1>3. CASE /\ Recognised(i) /\ Settleable(i) /\ verdict[i] = "paid"
           /\ intent[i].dir = "OUT" /\ SettleWithdrawal(i)
  <2>1. /\ intent' = [intent EXCEPT ![i].state = "SETTLED"]
        /\ tx' = [tx EXCEPT ![i] = "SETTLED"] /\ UNCHANGED <<wallet, granted>>
    BY <1>3 DEF SettleWithdrawal
  <2>2. /\ intent' \in Table /\ intent'[i].state = "SETTLED" /\ intent'[i].dir = "OUT"
        /\ ~intent'[i].review
    BY <1>3, <2>1, EndedRow DEF Settleable, IInv, TypeOK, Table
  <2>3. Agreed(i)'
    BY <1>1, <1>3, <2>2 DEF Agreed
  <2>4. /\ tx' \in [Intents -> {"NONE", "PENDING", "SETTLED", "FAILED"}]
        /\ tx'[i] = "SETTLED" /\ \A j \in Intents \ {i} : tx'[j] = tx[j]
    BY <2>1 DEF IInv, TypeOK
  <2>5. OnePerKey' /\ Reserved' /\ AskedOnce' /\ AgreedAlive'
    BY <1>1, <1>3, <2>1, <2>3, <2>4, Ended
  <2>6. TypeOK'
    BY <1>1, <2>1, <2>2, <2>4 DEF IInv, TypeOK, Table
  <2>7. PickedPaid'
    BY <1>1, <2>1, PickedStays
  <2> QED BY <2>5, <2>6, <2>7 DEF IInv
<1>4. CASE Recognised(i) /\ verdict[i] = "refused" /\ Fail(i)
  <2>1. OnePerKey' /\ Reserved' /\ AskedOnce' /\ AgreedAlive'
    BY <1>1, <1>4, IntentFailed DEF Recognised
  <2>2. TypeOK'
    BY <1>1, <1>4, FailType DEF IInv, TypeOK, Table
  <2>3. PickedPaid'
    BY <1>1, <1>4, FailType, PickedStays DEF IInv
  <2> QED BY <2>1, <2>2, <2>3 DEF IInv
<1>5. CASE UNCHANGED <<intent, tx, wallet, granted>>
  <2>1. TypeOK'
    BY <1>1, <1>5 DEF IInv, TypeOK
  <2> QED BY <1>1, <1>5, <2>1
          DEF IInv, OnePerKey, Reserved, AskedOnce, Asking, PickedPaid, AgreedAlive, Agreed
<1>6. intent[i].dir \in {"IN", "OUT"}
  BY DEF IInv, TypeOK, Intent
<1> QED BY <1>2, <1>3, <1>4, <1>5, <1>6 DEF HandleCallback

LEMMA VerifyPickStep ==
  ASSUME IInv, NEW v \in Verifiers, NEW i \in Intents, VerifyPick(v, i)
  PROVE  IInv'
<1>1. /\ intent[i].dir = "IN" /\ intent[i].ref
      /\ provider # "sandbox" => verdict[i] = "paid"
      /\ picked' = [picked EXCEPT ![v] = i]
      /\ UNCHANGED <<intent, tx, wallet, granted, request, verdict, inbox, crashes, provider>>
  BY DEF VerifyPick, ProviderVerifies
<1>2. TypeOK'
  BY <1>1 DEF IInv, TypeOK
<1>3. PickedPaid'
  <2>1. \A w \in Verifiers : picked'[w] = IF w = v THEN i ELSE picked[w]
    BY <1>1 DEF IInv, TypeOK
  <2> QED BY <1>1, <2>1 DEF IInv, PickedPaid
<1>4. OnePerKey' /\ Reserved' /\ AskedOnce' /\ AgreedAlive'
  BY <1>1 DEF IInv, OnePerKey, Reserved, AskedOnce, Asking, AgreedAlive, Agreed
<1> QED BY <1>2, <1>3, <1>4 DEF IInv

LEMMA VerifySettleStep ==
  ASSUME IInv, NEW v \in Verifiers, VerifySettle(v)
  PROVE  IInv'
<1> DEFINE i == picked[v]
<1>1. /\ picked[v] # 0 /\ picked' = [picked EXCEPT ![v] = 0]
      /\ UNCHANGED <<request, verdict, inbox, crashes, provider>>
  BY DEF VerifySettle
<1>2. /\ i \in Intents /\ intent[i].dir = "IN" /\ intent[i].ref
      /\ provider # "sandbox" => verdict[i] = "paid"
  BY <1>1 DEF IInv, TypeOK, PickedPaid
<1>3. /\ picked' \in [Verifiers -> Intents \cup {0}]
      /\ \A w \in Verifiers : picked'[w] \in {picked[w], 0}
  BY <1>1 DEF IInv, TypeOK
<1>4. CASE intent[i].state = "PENDING" /\ SettleDeposit(i)
  <2>1. OnePerKey' /\ Reserved' /\ AskedOnce' /\ AgreedAlive'
    BY <1>1, <1>2, <1>4, DepositSettled
  <2>2. TypeOK'
    BY <1>1, <1>2, <1>3, <1>4, SettleDepositType DEF IInv, TypeOK, Table
  <2>3. PickedPaid'
    BY <1>1, <1>2, <1>3, <1>4, SettleDepositType, PickedStays DEF IInv
  <2> QED BY <2>1, <2>2, <2>3 DEF IInv
<1>5. CASE UNCHANGED <<intent, tx, wallet, granted>>
  <2>1. TypeOK'
    BY <1>1, <1>3, <1>5 DEF IInv, TypeOK
  <2>2. PickedPaid'
    BY <1>1, <1>3, <1>5 DEF IInv, PickedPaid
  <2> QED BY <1>1, <1>5, <2>1, <2>2
          DEF IInv, OnePerKey, Reserved, AskedOnce, Asking, AgreedAlive, Agreed
<1> QED BY <1>4, <1>5 DEF VerifySettle, StillPending

LEMMA ProviderStep ==
  ASSUME IInv, Provider
  PROVE  IInv'
<1>1. ASSUME NEW i \in Intents, NEW outcome \in {"paid", "refused"}, Decide(i, outcome)
      PROVE  IInv'
  <2>1. /\ verdict[i] = "open" /\ verdict' = [verdict EXCEPT ![i] = outcome]
        /\ inbox' = inbox \cup {i}
        /\ UNCHANGED <<intent, tx, wallet, granted, request, picked, crashes, provider>>
    BY <1>1 DEF Decide
  <2>2. /\ verdict' \in [Intents -> {"unknown", "open", "paid", "refused"}]
        /\ \A j \in Intents \ {i} : verdict'[j] = verdict[j]
    BY <2>1 DEF IInv, TypeOK
  <2>3. TypeOK'
    BY <2>1, <2>2 DEF IInv, TypeOK
  <2>4. AskedOnce'
    <3>1. \A r \in Requests : Asking(r) /\ request[r].pc = "created" => request[r].id # i
      BY <2>1 DEF IInv, AskedOnce
    <3> QED BY <2>1, <2>2, <3>1 DEF IInv, AskedOnce, Asking
  <2>5. PickedPaid'
    BY <2>1, <2>2 DEF IInv, TypeOK, PickedPaid
  <2>6. AgreedAlive'
    BY <2>1, <2>2 DEF IInv, AgreedAlive, Agreed
  <2>7. OnePerKey' /\ Reserved'
    BY <2>1 DEF IInv, OnePerKey, Reserved
  <2> QED BY <2>3, <2>4, <2>5, <2>6, <2>7 DEF IInv
<1>2. ASSUME NEW i \in Intents, LoseCallback(i)
      PROVE  IInv'
  <2>1. /\ inbox' \subseteq inbox
        /\ UNCHANGED <<intent, tx, wallet, granted, request, picked, verdict, crashes, provider>>
    BY <1>2 DEF LoseCallback
  <2>2. TypeOK'
    BY <2>1 DEF IInv, TypeOK
  <2> QED BY <2>1, <2>2
          DEF IInv, OnePerKey, Reserved, AskedOnce, Asking, PickedPaid, AgreedAlive, Agreed
<1> QED BY <1>1, <1>2 DEF Provider

------------------------------------------------------------------------------
\* The theorems.

\* Every step of a request, of an operator, of a callback, of verify, of the provider
\* and every death keeps the invariant.
THEOREM InductiveInvariant == Spec => []IInv
<1>1. IInv /\ [Next]_vars => IInv'
  <2> SUFFICES ASSUME IInv, [Next]_vars PROVE IInv'
    OBVIOUS
  <2>1. CASE UNCHANGED vars
    <3>1. TypeOK'
      BY <2>1 DEF vars, IInv, TypeOK
    <3> QED BY <2>1, <3>1 DEF vars, IInv, OnePerKey, Reserved, AskedOnce, Asking, PickedPaid,
                              AgreedAlive, Agreed
  <2>2. CASE Deposit
    BY <2>2, DepositLookupStep, DepositCreateStep, DepositInitiateStep, DepositSaveRefStep
       DEF Deposit
  <2>3. CASE Withdrawal
    BY <2>3, WithdrawStep, ApproveStep, RejectStep DEF Withdrawal
  <2>4. CASE Confirmation
    BY <2>4, HandleCallbackStep, VerifyPickStep, VerifySettleStep DEF Confirmation
  <2>5. CASE Provider
    BY <2>5, ProviderStep
  <2>6. CASE Crash
    BY <2>6, CrashStep
  <2> QED BY <2>1, <2>2, <2>3, <2>4, <2>5, <2>6 DEF Next
<1> QED BY <1>1, InitIInv, PTL DEF Spec

\* No withdrawal overdraws a wallet, and every field keeps its type.
THEOREM TypeCorrect == Spec => []TypeOK
<1>1. IInv => TypeOK
  BY DEF IInv
<1> QED BY <1>1, InductiveInvariant, PTL

\* The insertion looks the idempotency key up again: requests that passed the first
\* look-up together make one intent.
THEOREM KeysAreUnique == Spec => []OnePerKey
<1>1. IInv => OnePerKey
  BY DEF IInv
<1> QED BY <1>1, InductiveInvariant, PTL

\* Without deaths the provider pays out only what was debited and approved.
THEOREM PayoutsAreBacked == Spec => []PayoutsBackedAlive
<1>1. IInv => PayoutsBackedAlive
  <2> SUFFICES ASSUME IInv, crashes = 0, NEW i \in PayoutsUnderWay PROVE PayoutBacked(i)
    BY DEF PayoutsBackedAlive, PayoutsBacked
  <2>1. /\ i \in Intents /\ verdict[i] \in {"open", "paid"}
        /\ intent[i].dir = "OUT" \/ intent[i].state = "NONE"
    BY DEF PayoutsUnderWay
  <2>2. intent[i].state \in {"PENDING", "SETTLED"} /\ ~intent[i].review
    BY <2>1 DEF IInv, TypeOK, Intent, AgreedAlive, Agreed
  <2>3. tx[i] = intent[i].state
    BY <2>1, <2>2 DEF IInv, Reserved
  <2> QED BY <2>2, <2>3 DEF PayoutBacked
<1> QED BY <1>1, InductiveInvariant, PTL

\* Without deaths an intent ends as a provider that knows its orders has decided.
THEOREM EndsAreDecided == Spec => []EndsAsDecided
<1>1. IInv => EndsAsDecided
  BY DEF IInv, AgreedAlive, Agreed, EndsAsDecided
<1> QED BY <1>1, InductiveInvariant, PTL

------------------------------------------------------------------------------
\* What the intents say of the balances.

\* What one intent brings to the balance of u, and what it takes.
Brings(row, u) ==
  IF row.user = u /\ row.dir = "IN" /\ row.state = "SETTLED" THEN row.amount ELSE 0

Takes(row, u) ==
  IF row.user = u /\ row.dir = "OUT" /\ row.state \in {"PENDING", "SETTLED"}
    THEN row.amount ELSE 0

AllIn(table, u)  == [i \in Intents |-> Brings(table[i], u)]
AllOut(table, u) == [i \in Intents |-> Takes(table[i], u)]

Explained ==
  \A u \in Users :
    wallet[u]["REAL"].avail = SumOf(AllIn(intent, u), Intents) - SumOf(AllOut(intent, u), Intents)

\* The welcome bonus is that of one settled deposit.
BonusExplained ==
  \A u \in Users :
    /\ u \notin granted => wallet[u]["BONUS"].avail = 0
    /\ u \in granted =>
         \E i \in Counted(u, "IN", {"SETTLED"}) :
           wallet[u]["BONUS"].avail = (intent[i].amount * BonusPercent) \div 100

\* No deposit has a reservation.
Unreserved == \A i \in Intents : intent[i].dir = "IN" => tx[i] = "NONE"

Booked == Explained /\ BonusExplained /\ Unreserved

LEMMA IntentsFinite == IsFiniteSet(Intents)
BY FS_Interval, PaymentsAssumption DEF Intents

LEMMA TermTypes ==
  ASSUME NEW row \in Intent, NEW u
  PROVE  Brings(row, u) \in Int /\ Takes(row, u) \in Int
BY DEF Brings, Takes, Intent

LEMMA SumsType ==
  ASSUME NEW table \in Table, NEW u
  PROVE  /\ \A i \in Intents : AllIn(table, u)[i] \in Int
         /\ \A i \in Intents : AllOut(table, u)[i] \in Int
         /\ SumOf(AllIn(table, u), Intents) \in Int
         /\ SumOf(AllOut(table, u), Intents) \in Int
<1>1. /\ \A i \in Intents : AllIn(table, u)[i] \in Int
      /\ \A i \in Intents : AllOut(table, u)[i] \in Int
  BY TermTypes DEF Table, AllIn, AllOut
<1>2. SumOf(AllIn(table, u), Intents) \in Int
  BY <1>1, IntentsFinite, SumType
<1>3. SumOf(AllOut(table, u), Intents) \in Int
  BY <1>1, IntentsFinite, SumType
<1> QED BY <1>1, <1>2, <1>3

\* Total, with a term for every intent.
LEMMA TotalTerms ==
  ASSUME TypeOK, NEW u
  PROVE  /\ Total(Counted(u, "IN", {"SETTLED"})) = SumOf(AllIn(intent, u), Intents)
         /\ Total(Counted(u, "OUT", {"PENDING", "SETTLED"})) = SumOf(AllOut(intent, u), Intents)
<1> DEFINE f == [i \in Intents |-> intent[i].amount]
<1>1. \A i \in Intents : f[i] = intent[i].amount /\ f[i] \in Int
  BY DEF TypeOK, Intent
<1>2. Total(Counted(u, "IN", {"SETTLED"})) = SumOf(AllIn(intent, u), Intents)
  <2> DEFINE D == Counted(u, "IN", {"SETTLED"})
             h == [i \in Intents |-> IF i \in D THEN f[i] ELSE 0]
  <2>1. h = AllIn(intent, u)
    <3>1. \A i \in Intents : h[i] = Brings(intent[i], u)
      BY <1>1 DEF Brings, Counted
    <3> HIDE DEF f, D
    <3> QED BY <3>1 DEF AllIn
  <2>2. Intents \cap D = D
    BY DEF Counted
  <2> HIDE DEF f, D
  <2>3. SumOf(f, Intents \cap D) = SumOf(h, Intents)
    <3>1. \A i \in Intents : f[i] \in Int
      BY <1>1
    <3> QED BY <3>1, IntentsFinite, SumWhere
  <2> QED BY <2>1, <2>2, <2>3 DEF Total, f, D
<1>3. Total(Counted(u, "OUT", {"PENDING", "SETTLED"})) = SumOf(AllOut(intent, u), Intents)
  <2> DEFINE D == Counted(u, "OUT", {"PENDING", "SETTLED"})
             h == [i \in Intents |-> IF i \in D THEN f[i] ELSE 0]
  <2>1. h = AllOut(intent, u)
    <3>1. \A i \in Intents : h[i] = Takes(intent[i], u)
      BY <1>1 DEF Takes, Counted
    <3> HIDE DEF f, D
    <3> QED BY <3>1 DEF AllOut
  <2>2. Intents \cap D = D
    BY DEF Counted
  <2> HIDE DEF f, D
  <2>3. SumOf(f, Intents \cap D) = SumOf(h, Intents)
    <3>1. \A i \in Intents : f[i] \in Int
      BY <1>1
    <3> QED BY <3>1, IntentsFinite, SumWhere
  <2> QED BY <2>1, <2>2, <2>3 DEF Total, f, D
<1> QED BY <1>2, <1>3

LEMMA BookedCounts ==
  ASSUME TypeOK, Booked
  PROVE  CountedOnce
<1>1. \A u \in Users : WelcomedOnce(u)
  BY DEF Booked, BonusExplained, WelcomedOnce
<1> QED BY <1>1, TotalTerms DEF Booked, Explained, CountedOnce

LEMMA InitBooked == Init => Booked
<1> SUFFICES ASSUME Init PROVE Booked
  OBVIOUS
<1>1. \A i \in Intents : intent[i].state = "NONE"
  BY DEF Init, Absent
<1>2. ASSUME NEW u \in Users
      PROVE  SumOf(AllIn(intent, u), Intents) = 0 /\ SumOf(AllOut(intent, u), Intents) = 0
  <2>1. \A i \in Intents : AllIn(intent, u)[i] = 0 /\ AllOut(intent, u)[i] = 0
    BY <1>1 DEF AllIn, AllOut, Brings, Takes
  <2> QED BY <2>1, IntentsFinite, SumZeros
<1>3. \A u \in Users : wallet[u]["REAL"].avail = 0 /\ wallet[u]["BONUS"].avail = 0
  BY DEF Init, Pockets
<1>4. Explained
  BY <1>2, <1>3 DEF Explained
<1>5. BonusExplained /\ Unreserved
  BY <1>3 DEF Init, BonusExplained, Unreserved
<1> QED BY <1>4, <1>5 DEF Booked

\* One intent changes, and the balances by what it brings and takes.
LEMMA OneExplained ==
  ASSUME TypeOK, TypeOK', Explained, NEW i \in Intents,
         \A j \in Intents \ {i} : intent'[j] = intent[j],
         \A u \in Users :
           wallet'[u]["REAL"].avail = wallet[u]["REAL"].avail
             + (Brings(intent'[i], u) - Brings(intent[i], u))
             - (Takes(intent'[i], u) - Takes(intent[i], u))
  PROVE  Explained'
<1> SUFFICES ASSUME NEW u \in Users
    PROVE  wallet'[u]["REAL"].avail
             = SumOf(AllIn(intent', u), Intents) - SumOf(AllOut(intent', u), Intents)
  BY DEF Explained
<1>1. intent \in Table /\ intent' \in Table
  BY DEF TypeOK, Table
<1> DEFINE f  == AllIn(intent, u)
           f2 == AllIn(intent', u)
           h  == AllOut(intent, u)
           h2 == AllOut(intent', u)
<1>2. /\ f[i] = Brings(intent[i], u) /\ f2[i] = Brings(intent'[i], u)
      /\ h[i] = Takes(intent[i], u) /\ h2[i] = Takes(intent'[i], u)
      /\ \A j \in Intents \ {i} : f2[j] = f[j] /\ h2[j] = h[j]
  BY DEF AllIn, AllOut
<1>3. /\ \A j \in Intents : f[j] \in Int /\ f2[j] \in Int /\ h[j] \in Int /\ h2[j] \in Int
      /\ SumOf(f, Intents) \in Int /\ SumOf(h, Intents) \in Int
  BY <1>1, SumsType
<1>4. wallet[u]["REAL"].avail = SumOf(f, Intents) - SumOf(h, Intents)
  BY DEF Explained
<1> HIDE DEF f, f2, h, h2
<1>5. SumOf(f2, Intents) = SumOf(f, Intents) - f[i] + f2[i]
  BY <1>2, <1>3, IntentsFinite, SumChanged
<1>6. SumOf(h2, Intents) = SumOf(h, Intents) - h[i] + h2[i]
  BY <1>2, <1>3, IntentsFinite, SumChanged
<1>7. wallet'[u]["REAL"].avail = SumOf(f2, Intents) - SumOf(h2, Intents)
  <2> DEFINE x == SumOf(f, Intents)
             y == SumOf(h, Intents)
             a == f[i]
             b == f2[i]
             c == h[i]
             d == h2[i]
  <2>1. /\ x \in Int /\ y \in Int /\ a \in Int /\ b \in Int /\ c \in Int /\ d \in Int
        /\ wallet'[u]["REAL"].avail = (x - y) + (b - a) - (d - c)
        /\ SumOf(f2, Intents) = x - a + b /\ SumOf(h2, Intents) = y - c + d
    BY <1>2, <1>3, <1>4, <1>5, <1>6
  <2> HIDE DEF x, y, a, b, c, d
  <2> QED BY <2>1
<1> QED BY <1>7 DEF f2, h2

\* A settled deposit stays one.
LEMMA BonusStays ==
  ASSUME BonusExplained, wallet' = wallet \/ \A u \in Users : wallet'[u]["BONUS"] = wallet[u]["BONUS"],
         granted' = granted,
         \A i \in Intents : intent[i].dir = "IN" /\ intent[i].state = "SETTLED" =>
           /\ intent'[i].dir = "IN" /\ intent'[i].state = "SETTLED"
           /\ intent'[i].user = intent[i].user /\ intent'[i].amount = intent[i].amount
  PROVE  BonusExplained'
<1> SUFFICES ASSUME NEW u \in Users
    PROVE  /\ u \notin granted' => wallet'[u]["BONUS"].avail = 0
           /\ u \in granted' =>
                \E i \in Counted(u, "IN", {"SETTLED"})' :
                  wallet'[u]["BONUS"].avail = (intent'[i].amount * BonusPercent) \div 100
  BY DEF BonusExplained
<1>1. wallet'[u]["BONUS"].avail = wallet[u]["BONUS"].avail
  OBVIOUS
<1>2. u \notin granted => wallet[u]["BONUS"].avail = 0
  BY DEF BonusExplained
<1>3. ASSUME u \in granted
      PROVE  \E i \in Counted(u, "IN", {"SETTLED"})' :
               wallet'[u]["BONUS"].avail = (intent'[i].amount * BonusPercent) \div 100
  <2>1. PICK i \in Counted(u, "IN", {"SETTLED"}) :
          wallet[u]["BONUS"].avail = (intent[i].amount * BonusPercent) \div 100
    BY <1>3 DEF BonusExplained
  <2>2. i \in Counted(u, "IN", {"SETTLED"})' /\ intent'[i].amount = intent[i].amount
    BY <2>1 DEF Counted
  <2> QED BY <1>1, <2>1, <2>2
<1> QED BY <1>1, <1>2, <1>3

\* What does not count in a balance: the intent is created as a deposit, a withdrawal
\* becomes final, a deposit fails, or a row says the same of the money as before.
Keeps(i) ==
  \/ intent[i].state = "NONE" /\ intent'[i].state = "PENDING" /\ intent'[i].dir = "IN"
  \/ /\ intent'[i].user = intent[i].user /\ intent'[i].dir = intent[i].dir
     /\ intent'[i].amount = intent[i].amount
     /\ \/ intent'[i].state = intent[i].state
        \/ intent[i].dir = "OUT" /\ intent[i].state = "PENDING" /\ intent'[i].state = "SETTLED"
        \/ intent[i].dir = "IN" /\ intent[i].state = "PENDING" /\ intent'[i].state = "FAILED"

LEMMA QuietBooked ==
  ASSUME TypeOK, TypeOK', Booked, NEW i \in Intents,
         wallet' = wallet, granted' = granted,
         \A j \in Intents \ {i} : intent'[j] = intent[j], Keeps(i), Unreserved'
  PROVE  Booked'
<1>1. \A u \in Users : /\ Brings(intent'[i], u) = Brings(intent[i], u)
                       /\ Takes(intent'[i], u) = Takes(intent[i], u)
  BY DEF Keeps, Brings, Takes
<1>2. intent[i] \in Intent /\ \A u \in Users : wallet[u]["REAL"].avail \in Int
  BY DEF TypeOK, Wallets, Balance, Accounts, Pockets
<1>3. \A u \in Users : Brings(intent[i], u) \in Int /\ Takes(intent[i], u) \in Int
  BY <1>2, TermTypes
<1>4. \A u \in Users :
        wallet'[u]["REAL"].avail = wallet[u]["REAL"].avail
          + (Brings(intent'[i], u) - Brings(intent[i], u))
          - (Takes(intent'[i], u) - Takes(intent[i], u))
  BY <1>1, <1>2, <1>3
<1>5. Explained'
  BY <1>4, OneExplained DEF Booked
<1>6. BonusExplained'
  <2>1. \A j \in Intents : intent[j].dir = "IN" /\ intent[j].state = "SETTLED" =>
          /\ intent'[j].dir = "IN" /\ intent'[j].state = "SETTLED"
          /\ intent'[j].user = intent[j].user /\ intent'[j].amount = intent[j].amount
    BY DEF Keeps
  <2> QED BY <2>1, BonusStays DEF Booked
<1> QED BY <1>5, <1>6 DEF Booked

\* The tables of the money are as they were.
LEMMA NoneBooked ==
  ASSUME Booked, UNCHANGED <<intent, tx, wallet, granted>>
  PROVE  Booked'
BY DEF Booked, Explained, AllIn, AllOut, BonusExplained, Counted, Unreserved

\* A deposit is settled, with or without the welcome bonus.
LEMMA SettledBooked ==
  ASSUME IInv, IInv', Booked, NEW i \in Intents, SettleDeposit(i),
         intent[i].state = "PENDING", intent[i].dir = "IN"
  PROVE  Booked'
<1> DEFINE v    == intent[i].user
           x    == intent[i].amount
           paid == Credit(wallet, v, "REAL", x)
           gift == (x * BonusPercent) \div 100
<1>1. v \in Users /\ x \in Nat /\ wallet \in Wallets /\ TypeOK /\ TypeOK'
  BY DEF IInv, TypeOK, Intent
<1>2. /\ intent'[i].user = v /\ intent'[i].dir = "IN" /\ intent'[i].amount = x
      /\ intent'[i].state = "SETTLED" /\ \A j \in Intents \ {i} : intent'[j] = intent[j]
  BY <1>1 DEF SettleDeposit, TypeOK, Intent
<1>3. /\ paid \in Wallets
      /\ \A u \in Users :
           /\ paid[u]["REAL"].avail = wallet[u]["REAL"].avail + (IF u = v THEN x ELSE 0)
           /\ paid[u]["BONUS"] = wallet[u]["BONUS"]
  <2>1. v \in Accounts /\ "REAL" \in Pockets /\ "BONUS" \in Pockets
    BY <1>1 DEF Accounts, Pockets
  <2>2. paid \in Wallets
    BY <1>1, <2>1, CreditType
  <2>3. ASSUME NEW u \in Users
        PROVE  /\ paid[u]["REAL"].avail = wallet[u]["REAL"].avail + (IF u = v THEN x ELSE 0)
               /\ paid[u]["BONUS"] = wallet[u]["BONUS"]
    <3>1. u \in Accounts
      BY DEF Accounts
    <3>2. wallet \in [Accounts -> [Pockets -> Balance]] /\ wallet[u]["REAL"].avail \in Int
      BY <1>1, <2>1, <3>1 DEF Wallets, Balance
    <3>3. CASE u = v
      <4>1. paid[u] = [wallet[u] EXCEPT !["REAL"].avail = @ + x]
        BY <3>1, <3>2, <3>3 DEF Credit
      <4>2. wallet[u] \in [Pockets -> Balance]
        BY <3>1, <3>2
      <4> QED BY <2>1, <3>3, <4>1, <4>2 DEF Balance
    <3>4. CASE u # v
      <4>1. paid[u] = wallet[u]
        BY <3>1, <3>2, <3>4 DEF Credit
      <4> QED BY <3>2, <3>4, <4>1
    <3> QED BY <3>3, <3>4
  <2> QED BY <2>2, <2>3
<1>4. gift \in Int
  <2> DEFINE n == x * BonusPercent
  <2>1. n \in Nat
    BY <1>1, PaymentsAssumption
  <2> HIDE DEF n
  <2>2. n \div 100 \in Int
    BY <2>1
  <2> QED BY <2>2 DEF n
<1>5. \/ wallet' = paid /\ granted' = granted
      \/ /\ v \notin granted /\ granted' = granted \cup {v}
         /\ wallet' = Credit(paid, v, "BONUS", gift)
  BY DEF SettleDeposit, NewToBonus, Welcomed
<1> HIDE DEF paid, gift
<1>6. \A u \in Users :
        /\ Credit(paid, v, "BONUS", gift)[u]["REAL"] = paid[u]["REAL"]
        /\ Credit(paid, v, "BONUS", gift)[u]["BONUS"].avail
             = paid[u]["BONUS"].avail + (IF u = v THEN gift ELSE 0)
  BY <1>1, <1>3, <1>4 DEF Credit, Wallets, Balance, Accounts, Pockets
<1>7. \A u \in Users :
        wallet'[u]["REAL"].avail = wallet[u]["REAL"].avail + (IF u = v THEN x ELSE 0)
  BY <1>3, <1>5, <1>6
<1>8. \A u \in Users :
        /\ Brings(intent'[i], u) = (IF u = v THEN x ELSE 0) /\ Brings(intent[i], u) = 0
        /\ Takes(intent'[i], u) = 0 /\ Takes(intent[i], u) = 0
  BY <1>2 DEF Brings, Takes
<1>9. Explained'
  <2>1. \A u \in Users : wallet[u]["REAL"].avail \in Int
    BY <1>1 DEF Wallets, Balance, Accounts, Pockets
  <2>2. \A u \in Users :
          wallet'[u]["REAL"].avail = wallet[u]["REAL"].avail
            + (Brings(intent'[i], u) - Brings(intent[i], u))
            - (Takes(intent'[i], u) - Takes(intent[i], u))
    BY <1>1, <1>7, <1>8, <2>1
  <2> QED BY <1>1, <1>2, <2>2, OneExplained DEF Booked
<1>10. \A j \in Intents : intent[j].dir = "IN" /\ intent[j].state = "SETTLED" =>
         /\ intent'[j].dir = "IN" /\ intent'[j].state = "SETTLED"
         /\ intent'[j].user = intent[j].user /\ intent'[j].amount = intent[j].amount
  BY <1>2
<1>11. BonusExplained'
  <2>1. CASE wallet' = paid /\ granted' = granted
    <3>1. \A u \in Users : wallet'[u]["BONUS"] = wallet[u]["BONUS"]
      BY <1>3, <2>1
    <3> QED BY <1>10, <2>1, <3>1, BonusStays DEF Booked
  <2>2. CASE /\ v \notin granted /\ granted' = granted \cup {v}
             /\ wallet' = Credit(paid, v, "BONUS", gift)
    <3> SUFFICES ASSUME NEW u \in Users
        PROVE  /\ u \notin granted' => wallet'[u]["BONUS"].avail = 0
               /\ u \in granted' =>
                    \E j \in Counted(u, "IN", {"SETTLED"})' :
                      wallet'[u]["BONUS"].avail = (intent'[j].amount * BonusPercent) \div 100
      BY DEF BonusExplained
    <3>1. wallet'[u]["BONUS"].avail = wallet[u]["BONUS"].avail + (IF u = v THEN gift ELSE 0)
      BY <1>3, <1>6, <2>2
    <3>2. CASE u = v
      <4>1. wallet[u]["BONUS"].avail = 0
        BY <2>2, <3>2 DEF Booked, BonusExplained
      <4>2. wallet'[u]["BONUS"].avail = (intent'[i].amount * BonusPercent) \div 100
        BY <1>2, <1>4, <3>1, <3>2, <4>1 DEF gift
      <4>3. i \in Counted(u, "IN", {"SETTLED"})'
        BY <1>2, <3>2 DEF Counted
      <4> QED BY <2>2, <3>2, <4>2, <4>3
    <3>3. CASE u # v
      <4>1. wallet[u]["BONUS"].avail \in Int
        BY <1>1 DEF Wallets, Balance, Accounts, Pockets
      <4>2. wallet'[u]["BONUS"].avail = wallet[u]["BONUS"].avail
        BY <3>1, <3>3, <4>1
      <4>3. ASSUME u \in granted
            PROVE  \E j \in Counted(u, "IN", {"SETTLED"})' :
                     wallet'[u]["BONUS"].avail = (intent'[j].amount * BonusPercent) \div 100
        <5>1. PICK j \in Counted(u, "IN", {"SETTLED"}) :
                wallet[u]["BONUS"].avail = (intent[j].amount * BonusPercent) \div 100
          BY <4>3 DEF Booked, BonusExplained
        <5>2. j \in Counted(u, "IN", {"SETTLED"})' /\ intent'[j].amount = intent[j].amount
          BY <1>10, <5>1 DEF Counted
        <5> QED BY <4>2, <5>1, <5>2
      <4>4. u \notin granted => wallet[u]["BONUS"].avail = 0
        BY DEF Booked, BonusExplained
      <4> QED BY <2>2, <3>3, <4>2, <4>3, <4>4
    <3> QED BY <3>2, <3>3
  <2> QED BY <1>5, <2>1, <2>2
<1>12. Unreserved'
  BY <1>1, <1>2 DEF SettleDeposit, Booked, Unreserved
<1> QED BY <1>9, <1>11, <1>12 DEF Booked

\* A withdrawal is reserved.
LEMMA WithdrawBooked ==
  ASSUME IInv, IInv', Booked, NEW i \in Intents, NEW v \in Users, NEW x \in Amounts,
         Withdraw(i, v, x)
  PROVE  Booked'
<1>1. TypeOK /\ TypeOK' /\ x \in Nat /\ wallet \in Wallets
  BY PaymentsAssumption DEF IInv, TypeOK
<1>2. /\ wallet' = Reserve(wallet, v, x) /\ granted' = granted
      /\ \A j \in Intents \ {i} : intent'[j] = intent[j] /\ tx'[j] = tx[j]
      /\ intent[i].state = "NONE"
  BY <1>1 DEF Withdraw, NextId, Unused, TypeOK
<1>3. /\ intent'[i].state = "PENDING" /\ intent'[i].dir = "OUT"
      /\ intent'[i].user = v /\ intent'[i].amount = x
  <2> DEFINE new == NewIntent("OUT", v, x, NoKey)
             row == [new EXCEPT !.ref = ~NeedsReview(x), !.review = NeedsReview(x)]
  <2>1. intent' = [intent EXCEPT ![i] = row]
    BY DEF Withdraw
  <2>2. /\ row.state = "PENDING" /\ row.dir = "OUT" /\ row.user = v /\ row.amount = x
    BY DEF NewIntent, Absent
  <2> HIDE DEF row
  <2> QED BY <1>1, <2>1, <2>2 DEF TypeOK
<1>4. \A u \in Users :
        /\ wallet[u]["REAL"].avail \in Int
        /\ wallet'[u]["REAL"].avail = wallet[u]["REAL"].avail - (IF u = v THEN x ELSE 0)
        /\ wallet'[u]["BONUS"] = wallet[u]["BONUS"]
  BY <1>1, <1>2 DEF Reserve, Wallets, Balance, Accounts, Pockets
<1>5. \A u \in Users :
        /\ Brings(intent'[i], u) = 0 /\ Brings(intent[i], u) = 0
        /\ Takes(intent'[i], u) = (IF u = v THEN x ELSE 0) /\ Takes(intent[i], u) = 0
  BY <1>2, <1>3 DEF Brings, Takes
<1>6. \A u \in Users :
        wallet'[u]["REAL"].avail = wallet[u]["REAL"].avail
          + (Brings(intent'[i], u) - Brings(intent[i], u))
          - (Takes(intent'[i], u) - Takes(intent[i], u))
  BY <1>1, <1>4, <1>5
<1>7. Explained'
  BY <1>1, <1>2, <1>6, OneExplained DEF Booked
<1>8. BonusExplained'
  <2>1. \A j \in Intents : intent[j].dir = "IN" /\ intent[j].state = "SETTLED" =>
          /\ intent'[j].dir = "IN" /\ intent'[j].state = "SETTLED"
          /\ intent'[j].user = intent[j].user /\ intent'[j].amount = intent[j].amount
    BY <1>2
  <2> QED BY <1>2, <1>4, <2>1, BonusStays DEF Booked
<1>9. Unreserved'
  BY <1>2, <1>3 DEF Booked, Unreserved
<1> QED BY <1>7, <1>8, <1>9 DEF Booked

\* A pending withdrawal fails and is credited back; a deposit just fails.
LEMMA FailBooked ==
  ASSUME IInv, IInv', Booked, NEW i \in Intents, Fail(i), intent[i].state = "PENDING"
  PROVE  Booked'
<1> DEFINE v == intent[i].user
           x == intent[i].amount
<1>1. TypeOK /\ TypeOK' /\ v \in Users /\ x \in Nat /\ wallet \in Wallets
  BY DEF IInv, TypeOK, Intent
<1>2. /\ intent'[i].user = v /\ intent'[i].dir = intent[i].dir /\ intent'[i].amount = x
      /\ intent'[i].state = "FAILED" /\ \A j \in Intents \ {i} : intent'[j] = intent[j]
      /\ granted' = granted
  BY <1>1 DEF Fail, TypeOK, Intent
<1>3. CASE tx[i] = "PENDING"
  <2>1. intent[i].dir = "OUT"
    BY <1>1, <1>3 DEF Booked, Unreserved, TypeOK, Intent
  <2>2. wallet' = Credit(wallet, v, "REAL", x) /\ tx' = [tx EXCEPT ![i] = "FAILED"]
    BY <1>3 DEF Fail
  <2>3. \A u \in Users :
          /\ wallet[u]["REAL"].avail \in Int
          /\ wallet'[u]["REAL"].avail = wallet[u]["REAL"].avail + (IF u = v THEN x ELSE 0)
          /\ wallet'[u]["BONUS"] = wallet[u]["BONUS"]
    BY <1>1, <2>2 DEF Credit, Wallets, Balance, Accounts, Pockets
  <2>4. \A u \in Users :
          /\ Brings(intent'[i], u) = 0 /\ Brings(intent[i], u) = 0
          /\ Takes(intent'[i], u) = 0 /\ Takes(intent[i], u) = (IF u = v THEN x ELSE 0)
    BY <1>2, <2>1 DEF Brings, Takes
  <2>5. \A u \in Users :
          wallet'[u]["REAL"].avail = wallet[u]["REAL"].avail
            + (Brings(intent'[i], u) - Brings(intent[i], u))
            - (Takes(intent'[i], u) - Takes(intent[i], u))
    BY <1>1, <2>3, <2>4
  <2>6. Explained'
    BY <1>1, <1>2, <2>5, OneExplained DEF Booked
  <2>7. BonusExplained'
    <3>1. \A j \in Intents : intent[j].dir = "IN" /\ intent[j].state = "SETTLED" =>
            /\ intent'[j].dir = "IN" /\ intent'[j].state = "SETTLED"
            /\ intent'[j].user = intent[j].user /\ intent'[j].amount = intent[j].amount
      BY <1>2
    <3> QED BY <1>2, <2>3, <3>1, BonusStays DEF Booked
  <2>8. Unreserved'
    BY <1>1, <1>2, <2>1, <2>2 DEF Booked, Unreserved, TypeOK
  <2> QED BY <2>6, <2>7, <2>8 DEF Booked
<1>4. CASE tx[i] # "PENDING"
  <2>1. intent[i].dir = "IN"
    BY <1>1, <1>4 DEF IInv, Reserved, TypeOK, Intent
  <2>2. tx' = tx /\ wallet' = wallet
    BY <1>4 DEF Fail
  <2>3. Keeps(i)
    BY <1>2, <2>1 DEF Keeps
  <2>4. Unreserved'
    BY <1>2, <2>2 DEF Booked, Unreserved
  <2> QED BY <1>1, <1>2, <2>2, <2>3, <2>4, QuietBooked
<1> QED BY <1>3, <1>4

LEMMA WithdrawalSettledBooked ==
  ASSUME IInv, IInv', Booked, NEW i \in Intents, SettleWithdrawal(i),
         intent[i].state = "PENDING", intent[i].dir = "OUT"
  PROVE  Booked'
<1>1. TypeOK /\ TypeOK'
  BY DEF IInv
<1>2. /\ intent'[i].user = intent[i].user /\ intent'[i].dir = "OUT"
      /\ intent'[i].amount = intent[i].amount /\ intent'[i].state = "SETTLED"
      /\ \A j \in Intents \ {i} : intent'[j] = intent[j] /\ tx'[j] = tx[j]
      /\ wallet' = wallet /\ granted' = granted
  BY <1>1 DEF SettleWithdrawal, TypeOK, Intent
<1>3. Keeps(i)
  BY <1>2 DEF Keeps
<1>4. Unreserved'
  BY <1>2 DEF Booked, Unreserved
<1> QED BY <1>1, <1>2, <1>3, <1>4, QuietBooked

------------------------------------------------------------------------------
\* Every step.

LEMMA DepositBooked ==
  ASSUME IInv, IInv', Booked, Deposit
  PROVE  Booked'
<1>1. ASSUME NEW r \in Requests, NEW u \in Users, NEW x \in Amounts,
             NEW k \in Keys \cup {NoKey}, DepositLookup(r, u, x, k)
      PROVE  Booked'
  BY <1>1, NoneBooked DEF DepositLookup
<1>2. ASSUME NEW r \in Requests, DepositCreate(r)
      PROVE  Booked'
  <2>1. CASE intent' = intent
    BY <1>2, <2>1, NoneBooked DEF DepositCreate
  <2>2. ASSUME NEW i \in Intents, NextId(i),
               intent' = [intent EXCEPT
                 ![i] = NewIntent("IN", request[r].user, request[r].amount, request[r].key)]
        PROVE  Booked'
    <3> DEFINE new == NewIntent("IN", request[r].user, request[r].amount, request[r].key)
    <3>1. new.state = "PENDING" /\ new.dir = "IN"
      BY DEF NewIntent, Absent
    <3>2. intent' = [intent EXCEPT ![i] = new]
      BY <2>2
    <3> HIDE DEF new
    <3>3. intent'[i] = new /\ \A j \in Intents \ {i} : intent'[j] = intent[j]
      BY <3>2 DEF IInv, TypeOK
    <3>4. intent[i].state = "NONE" /\ intent[i].dir = "IN"
      BY <2>2 DEF NextId, Unused, IInv, TypeOK, Reserved, Intent
    <3>5. Keeps(i)
      BY <3>1, <3>3, <3>4 DEF Keeps
    <3>6. wallet' = wallet /\ granted' = granted /\ tx' = tx
      BY <1>2 DEF DepositCreate
    <3>7. Unreserved'
      BY <3>3, <3>4, <3>6 DEF Booked, Unreserved
    <3>8. TypeOK /\ TypeOK'
      BY DEF IInv
    <3> QED BY <3>3, <3>5, <3>6, <3>7, <3>8, QuietBooked
  <2> QED BY <1>2, <2>1, <2>2 DEF DepositCreate
<1>3. ASSUME NEW r \in Requests, DepositInitiate(r)
      PROVE  Booked'
  BY <1>3, NoneBooked DEF DepositInitiate
<1>4. ASSUME NEW r \in Requests, DepositSaveRef(r)
      PROVE  Booked'
  <2>1. PICK i \in Intents : i = request[r].id
    BY <1>4 DEF DepositSaveRef, IInv, AskedOnce, Asking
  <2>2. intent' = [intent EXCEPT ![i].ref = TRUE]
        /\ wallet' = wallet /\ granted' = granted /\ tx' = tx
    BY <1>4, <2>1 DEF DepositSaveRef
  <2>3. /\ intent'[i].user = intent[i].user /\ intent'[i].dir = intent[i].dir
        /\ intent'[i].amount = intent[i].amount /\ intent'[i].state = intent[i].state
        /\ \A j \in Intents \ {i} : intent'[j] = intent[j]
    BY <2>2 DEF IInv, TypeOK, Intent
  <2>4. Keeps(i)
    BY <2>3 DEF Keeps
  <2>5. Unreserved'
    BY <2>2, <2>3 DEF Booked, Unreserved
  <2>6. TypeOK /\ TypeOK'
    BY DEF IInv
  <2> QED BY <2>2, <2>3, <2>4, <2>5, <2>6, QuietBooked
<1> QED BY <1>1, <1>2, <1>3, <1>4 DEF Deposit

LEMMA WithdrawalBooked ==
  ASSUME IInv, IInv', Booked, Withdrawal
  PROVE  Booked'
<1>1. ASSUME NEW i \in Intents, NEW u \in Users, NEW x \in Amounts, Withdraw(i, u, x)
      PROVE  Booked'
  BY <1>1, WithdrawBooked
<1>2. ASSUME NEW i \in Intents, Approve(i)
      PROVE  Booked'
  <2>1. /\ intent' = [intent EXCEPT ![i].ref = TRUE, ![i].review = FALSE]
        /\ wallet' = wallet /\ granted' = granted /\ tx' = tx
    BY <1>2 DEF Approve
  <2>2. /\ intent'[i].user = intent[i].user /\ intent'[i].dir = intent[i].dir
        /\ intent'[i].amount = intent[i].amount /\ intent'[i].state = intent[i].state
        /\ \A j \in Intents \ {i} : intent'[j] = intent[j]
    BY <2>1 DEF IInv, TypeOK, Intent
  <2>3. Keeps(i)
    BY <2>2 DEF Keeps
  <2>4. Unreserved'
    BY <2>1, <2>2 DEF Booked, Unreserved
  <2>5. TypeOK /\ TypeOK'
    BY DEF IInv
  <2> QED BY <2>1, <2>2, <2>3, <2>4, <2>5, QuietBooked
<1>3. ASSUME NEW i \in Intents, Reject(i)
      PROVE  Booked'
  BY <1>3, FailBooked DEF Reject, InReview
<1> QED BY <1>1, <1>2, <1>3 DEF Withdrawal

LEMMA ConfirmationBooked ==
  ASSUME IInv, IInv', Booked, Confirmation
  PROVE  Booked'
<1>1. ASSUME NEW i \in Intents, HandleCallback(i)
      PROVE  Booked'
  <2>1. CASE Recognised(i) /\ intent[i].dir = "IN" /\ SettleDeposit(i)
    BY <2>1, SettledBooked DEF Recognised
  <2>2. CASE Recognised(i) /\ intent[i].dir = "OUT" /\ SettleWithdrawal(i)
    BY <2>2, WithdrawalSettledBooked DEF Recognised
  <2>3. CASE Recognised(i) /\ Fail(i)
    BY <2>3, FailBooked DEF Recognised
  <2>4. CASE UNCHANGED <<intent, tx, wallet, granted>>
    BY <2>4, NoneBooked
  <2>5. intent[i].dir \in {"IN", "OUT"}
    BY DEF IInv, TypeOK, Intent
  <2> QED BY <1>1, <2>1, <2>2, <2>3, <2>4, <2>5 DEF HandleCallback
<1>2. ASSUME NEW v \in Verifiers, NEW i \in Intents, VerifyPick(v, i)
      PROVE  Booked'
  BY <1>2, NoneBooked DEF VerifyPick
<1>3. ASSUME NEW v \in Verifiers, VerifySettle(v)
      PROVE  Booked'
  <2>1. picked[v] \in Intents /\ intent[picked[v]].dir = "IN"
    BY <1>3 DEF VerifySettle, IInv, TypeOK, PickedPaid
  <2>2. CASE StillPending(picked[v]) /\ SettleDeposit(picked[v])
    BY <2>1, <2>2, SettledBooked DEF StillPending
  <2>3. CASE UNCHANGED <<intent, tx, wallet, granted>>
    BY <2>3, NoneBooked
  <2> QED BY <1>3, <2>2, <2>3 DEF VerifySettle
<1> QED BY <1>1, <1>2, <1>3 DEF Confirmation

LEMMA OutsideBooked ==
  ASSUME Booked, Provider \/ Crash \/ UNCHANGED vars
  PROVE  Booked'
<1>1. UNCHANGED <<intent, tx, wallet, granted>>
  BY DEF Provider, Crash, Decide, LoseCallback, DepositCrash, WithdrawCrash, ApproveCrash, vars
<1> QED BY <1>1, NoneBooked

\* However callbacks, verify, operators and deaths interleave, a balance counts every
\* intent once, and one welcome bonus.
THEOREM BalancesCountOnce == Spec => []CountedOnce
<1>1. Init => Booked
  BY InitBooked
<1>2. IInv /\ IInv' /\ Booked /\ [Next]_vars => Booked'
  BY DepositBooked, WithdrawalBooked, ConfirmationBooked, OutsideBooked DEF Next
<1>3. IInv /\ Booked => CountedOnce
  BY BookedCounts DEF IInv
<1> QED BY <1>1, <1>2, <1>3, InductiveInvariant, PTL DEF Spec
==============================================================================
