------------------------------ MODULE Payments -------------------------------
(***************************************************************************)
(* Deposits and withdrawals: the PaymentIntent life cycle of               *)
(* payments/services.py, the wallet movements it makes, and the payment    *)
(* provider as the service uses it.                                        *)
(*                                                                         *)
(* A deposit request is not one transaction: it looks its idempotency key  *)
(* up, inserts the intent, asks the provider and saves the provider's      *)
(* reference, each on its own, and the process may die in between.  A      *)
(* withdrawal calls the provider inside its transaction, so that a death   *)
(* before the commit forgets what the provider has already accepted.       *)
(* Callbacks may be duplicated, lost, or arrive before the reference is    *)
(* saved.  Compliance and KYC refusals are calls that do nothing.          *)
(***************************************************************************)
EXTENDS Integers, FiniteSets, Totals

CONSTANTS
  Users,         \* players with a verified identity
  MaxIntents,    \* bound: how many intent ids are ever drawn
  Amounts,       \* the amounts of deposits and withdrawals
  Keys,          \* the idempotency keys clients send
  NoKey,         \* a request without one
  Threshold,     \* withdrawal_review_threshold: a larger amount is reviewed
  BonusPercent,  \* welcome_bonus_pct
  Requests,      \* processes that serve deposit requests
  Verifiers,     \* processes that run verify on pending deposits
  Providers,     \* what may be configured: the sandbox, or one that knows its orders
  MaxCrashes     \* bound: how many processes die, for each kind of death

Accounts == Users

Intents == 1..MaxIntents

INSTANCE WalletOps

ASSUME PaymentsAssumption ==
  /\ Users # {}
  /\ MaxIntents \in Nat /\ MaxCrashes \in Nat /\ Threshold \in Nat
  /\ Amounts \subseteq Nat \ {0}
  /\ BonusPercent \in Nat
  /\ NoKey \notin Keys
  /\ Providers \subseteq {"sandbox", "mobile_money"}

VARIABLES
  intent,    \* the table of payment intents
  tx,        \* status of the WITHDRAWAL ledger row of each intent
  wallet,    \* the wallet table
  granted,   \* the users with a welcome BonusGrant
  request,   \* what each deposit request is doing
  picked,    \* the deposit each verifier has found paid, 0 for none
  verdict,   \* external: what the provider makes of each intent
  inbox,     \* callbacks sent by the provider and not yet handled for good
  crashes,   \* how many processes have died
  provider   \* which provider is configured

vars == <<intent, tx, wallet, granted, request, picked, verdict, inbox, crashes,
          provider>>

Intent == [state  : {"NONE", "PENDING", "SETTLED", "FAILED"},
           dir    : {"IN", "OUT"},
           user   : Users,
           amount : Nat,
           key    : Keys \cup {NoKey},
           ref    : BOOLEAN,    \* external_ref has been saved
           review : BOOLEAN]    \* needs_review

Absent == [state |-> "NONE", dir |-> "IN", user |-> CHOOSE u \in Users : TRUE,
           amount |-> 0, key |-> NoKey, ref |-> FALSE, review |-> FALSE]

\* What a deposit request knows between its commits.
Idle == [pc |-> "idle", user |-> Absent.user, amount |-> 0, key |-> NoKey, id |-> 0]

Init ==
  /\ intent = [i \in Intents |-> Absent]
  /\ tx = [i \in Intents |-> "NONE"]
  /\ wallet = [u \in Users |-> [q \in Pockets |-> [avail |-> 0, locked |-> 0]]]
  /\ granted = {}
  /\ request = [r \in Requests |-> Idle]
  /\ picked = [v \in Verifiers |-> 0]
  /\ verdict = [i \in Intents |-> "unknown"]
  /\ inbox = {}
  /\ crashes = 0
  /\ provider \in Providers

\* A fresh uuid: one that neither the table nor the provider has seen.
Unused(i) == intent[i].state = "NONE" /\ verdict[i] = "unknown"

NextId(i) == Unused(i) /\ \A j \in 1..(i - 1) : ~Unused(j)

NewIntent(dir, u, x, k) ==
  [Absent EXCEPT !.state = "PENDING", !.dir = dir, !.user = u, !.amount = x,
                 !.key = k]

------------------------------------------------------------------------------
\* deposit.

KeyTaken(k) == k # NoKey /\ \E i \in Intents : intent[i].key = k

\* The look-up that answers a repeated request, before anything is written.
DepositLookup(r, u, x, k) ==
  /\ request[r].pc = "idle"
  /\ ~KeyTaken(k)
  /\ request' = [request EXCEPT
       ![r] = [pc |-> "looked", user |-> u, amount |-> x, key |-> k, id |-> 0]]
  /\ UNCHANGED <<intent, tx, wallet, granted, picked, verdict, inbox, crashes, provider>>

\* Mutant of Insertable: the look-up is trusted.
InsertableAsLooked(r) == TRUE

\* The insertion.  The key is unique: a request that lost the race since its
\* look-up returns the other's intent.
Insertable(r) == ~KeyTaken(request[r].key)

DepositCreate(r) ==
  LET q == request[r] IN
  /\ q.pc = "looked"
  /\ \/ /\ Insertable(r)
        /\ \E i \in Intents :
             /\ NextId(i)
             /\ intent' = [intent EXCEPT ![i] = NewIntent("IN", q.user, q.amount, q.key)]
             /\ request' = [request EXCEPT ![r].pc = "created", ![r].id = i]
     \/ /\ ~Insertable(r)
        /\ request' = [request EXCEPT ![r] = Idle]
        /\ UNCHANGED intent
  /\ UNCHANGED <<tx, wallet, granted, picked, verdict, inbox, crashes, provider>>

\* initiate_deposit: the provider opens the order and the customer may pay.
DepositInitiate(r) ==
  /\ request[r].pc = "created"
  /\ verdict' = [verdict EXCEPT ![request[r].id] = "open"]
  /\ request' = [request EXCEPT ![r].pc = "sent"]
  /\ UNCHANGED <<intent, tx, wallet, granted, picked, inbox, crashes, provider>>

\* save(update_fields=["external_ref"]), and the answer.
DepositSaveRef(r) ==
  /\ request[r].pc = "sent"
  /\ intent' = [intent EXCEPT ![request[r].id].ref = TRUE]
  /\ request' = [request EXCEPT ![r] = Idle]
  /\ UNCHANGED <<tx, wallet, granted, picked, verdict, inbox, crashes, provider>>

\* The process serving the request dies.
DepositCrash(r) ==
  /\ request[r].pc # "idle"
  /\ crashes < MaxCrashes
  /\ request' = [request EXCEPT ![r] = Idle]
  /\ crashes' = crashes + 1
  /\ UNCHANGED <<intent, tx, wallet, granted, picked, verdict, inbox, provider>>

------------------------------------------------------------------------------
\* withdraw, approve_withdrawal and reject_withdrawal, one transaction each.

NeedsReview(x) == Threshold # 0 /\ x > Threshold

Withdraw(i, u, x) ==
  LET review == NeedsReview(x) IN
  /\ NextId(i)
  /\ CanReserve(wallet, u, x)
  /\ wallet' = Reserve(wallet, u, x)
  /\ tx' = [tx EXCEPT ![i] = "PENDING"]
  /\ intent' = [intent EXCEPT ![i] =
       [NewIntent("OUT", u, x, NoKey) EXCEPT !.ref = ~review, !.review = review]]
  /\ verdict' = IF review THEN verdict ELSE [verdict EXCEPT ![i] = "open"]
  /\ UNCHANGED <<granted, request, picked, inbox, crashes, provider>>

\* The process dies after initiate_payout and before the commit: the provider
\* has an order that the database knows nothing of.
WithdrawCrash(i, u, x) ==
  /\ NextId(i)
  /\ CanReserve(wallet, u, x) /\ ~NeedsReview(x)
  /\ crashes < MaxCrashes
  /\ verdict' = [verdict EXCEPT ![i] = "open"]
  /\ crashes' = crashes + 1
  /\ UNCHANGED <<intent, tx, wallet, granted, request, picked, inbox, provider>>

\* Mutant of InReview: an approved withdrawal can still be rejected.
InReviewOnce(i) == intent[i].dir = "OUT" /\ intent[i].state = "PENDING"

\* A withdrawal that awaits an operator.
InReview(i) == intent[i].review /\ intent[i].state = "PENDING"

Approve(i) ==
  /\ InReview(i)
  /\ verdict' = [verdict EXCEPT ![i] = IF @ = "unknown" THEN "open" ELSE @]
  /\ intent' = [intent EXCEPT ![i].ref = TRUE, ![i].review = FALSE]
  /\ UNCHANGED <<tx, wallet, granted, request, picked, inbox, crashes, provider>>

\* As WithdrawCrash, for a withdrawal that stays in review.
ApproveCrash(i) ==
  /\ InReview(i)
  /\ verdict[i] = "unknown"
  /\ crashes < MaxCrashes
  /\ verdict' = [verdict EXCEPT ![i] = "open"]
  /\ crashes' = crashes + 1
  /\ UNCHANGED <<intent, tx, wallet, granted, request, picked, inbox, provider>>

------------------------------------------------------------------------------
\* The end of an intent.

\* maybe_grant_welcome: the bonus for a deposit of x, once in a user's life;
\* it is best effort, so a failure leaves the deposit alone.
Welcomed(w, u, x) == Credit(w, u, "BONUS", (x * BonusPercent) \div 100)

\* Mutant of NewToBonus: nothing remembers the first grant.
NewToBonusAlways(u) == BonusPercent > 0

NewToBonus(u) == u \notin granted /\ BonusPercent > 0

\* _settle of a deposit.
SettleDeposit(i) ==
  LET u    == intent[i].user
      paid == Credit(wallet, u, "REAL", intent[i].amount)
  IN
  /\ intent' = [intent EXCEPT ![i].state = "SETTLED"]
  /\ \/ /\ NewToBonus(u)
        /\ wallet' = Welcomed(paid, u, intent[i].amount)
        /\ granted' = granted \cup {u}
     \/ wallet' = paid /\ UNCHANGED granted
  /\ UNCHANGED tx

\* _settle of a withdrawal: the one pending reservation becomes final.
SettleWithdrawal(i) ==
  /\ intent' = [intent EXCEPT ![i].state = "SETTLED"]
  /\ tx' = [tx EXCEPT ![i] = "SETTLED"]
  /\ UNCHANGED <<wallet, granted>>

\* _fail: a pending reservation is reversed and its amount credited back.
Fail(i) ==
  /\ intent' = [intent EXCEPT ![i].state = "FAILED"]
  /\ IF tx[i] = "PENDING"
       THEN /\ tx' = [tx EXCEPT ![i] = "FAILED"]
            /\ wallet' = Credit(wallet, intent[i].user, "REAL", intent[i].amount)
       ELSE UNCHANGED <<tx, wallet>>
  /\ UNCHANGED granted

Reject(i) ==
  /\ InReview(i)
  /\ Fail(i)
  /\ UNCHANGED <<request, picked, verdict, inbox, crashes, provider>>

------------------------------------------------------------------------------
\* External: the provider decides each order it has opened and sends the
\* callback, which may be lost.

Decide(i, outcome) ==
  /\ verdict[i] = "open"
  /\ verdict' = [verdict EXCEPT ![i] = outcome]
  /\ inbox' = inbox \cup {i}
  /\ UNCHANGED <<intent, tx, wallet, granted, request, picked, crashes, provider>>

LoseCallback(i) ==
  /\ i \in inbox
  /\ inbox' = inbox \ {i}
  /\ UNCHANGED <<intent, tx, wallet, granted, request, picked, verdict, crashes, provider>>

------------------------------------------------------------------------------
\* handle_callback and verify.

\* A callback finds its intent by the saved reference, and the intent is open.
Recognised(i) == intent[i].ref /\ intent[i].state = "PENDING"

\* _settle refuses a withdrawal in review or without its one reservation.
Settleable(i) ==
  intent[i].dir = "OUT" => ~intent[i].review /\ tx[i] = "PENDING"

\* The callback of intent i is handled; it may have been sent twice.  One that
\* is not recognised raises or is ignored, and changes nothing either way.
HandleCallback(i) ==
  /\ i \in inbox
  /\ inbox' \in {inbox, inbox \ {i}}
  /\ \/ /\ Recognised(i) /\ Settleable(i) /\ verdict[i] = "paid"
        /\ IF intent[i].dir = "IN" THEN SettleDeposit(i) ELSE SettleWithdrawal(i)
     \/ Recognised(i) /\ verdict[i] = "refused" /\ Fail(i)
     \/ /\ ~(Recognised(i) /\ (verdict[i] = "paid" => Settleable(i)))
        /\ UNCHANGED <<intent, tx, wallet, granted>>
  /\ UNCHANGED <<request, picked, verdict, crashes, provider>>

\* Mutant of ProviderVerifies: an order that exists is taken for a paid one.
ProviderVerifiesUnpaid(i) == intent[i].ref

\* provider.verify: the sandbox believes any reference, a real provider knows.
ProviderVerifies(i) ==
  intent[i].ref /\ (provider = "sandbox" \/ verdict[i] = "paid")

\* verify, outside any transaction: the deposit is pending and looks paid.
VerifyPick(v, i) ==
  /\ picked[v] = 0
  /\ intent[i].dir = "IN" /\ intent[i].state = "PENDING"
  /\ ProviderVerifies(i)
  /\ picked' = [picked EXCEPT ![v] = i]
  /\ UNCHANGED <<intent, tx, wallet, granted, request, verdict, inbox, crashes, provider>>

\* Mutant of StillPending: verify settles what it picked without another look.
StillPendingAsPicked(i) == TRUE

StillPending(i) == intent[i].state = "PENDING"

\* verify, with the row locked and read again.
VerifySettle(v) ==
  /\ picked[v] # 0
  /\ picked' = [picked EXCEPT ![v] = 0]
  /\ IF StillPending(picked[v])
       THEN SettleDeposit(picked[v])
       ELSE UNCHANGED <<intent, tx, wallet, granted>>
  /\ UNCHANGED <<request, verdict, inbox, crashes, provider>>

------------------------------------------------------------------------------
Deposit ==
  \/ \E r \in Requests, u \in Users, x \in Amounts, k \in Keys \cup {NoKey} :
       DepositLookup(r, u, x, k)
  \/ \E r \in Requests : DepositCreate(r)
  \/ \E r \in Requests : DepositInitiate(r)
  \/ \E r \in Requests : DepositSaveRef(r)

Withdrawal ==
  \/ \E i \in Intents, u \in Users, x \in Amounts : Withdraw(i, u, x)
  \/ \E i \in Intents : Approve(i)
  \/ \E i \in Intents : Reject(i)

Confirmation ==
  \/ \E i \in Intents : HandleCallback(i)
  \/ \E v \in Verifiers, i \in Intents : VerifyPick(v, i)
  \/ \E v \in Verifiers : VerifySettle(v)

Provider ==
  \/ \E i \in Intents, outcome \in {"paid", "refused"} : Decide(i, outcome)
  \/ \E i \in Intents : LoseCallback(i)

Crash ==
  \/ \E r \in Requests : DepositCrash(r)
  \/ \E i \in Intents, u \in Users, x \in Amounts : WithdrawCrash(i, u, x)
  \/ \E i \in Intents : ApproveCrash(i)

Next == Deposit \/ Withdrawal \/ Confirmation \/ Provider \/ Crash

Spec == Init /\ [][Next]_vars

\* A request that has started goes on, and a callback that is not lost is
\* handled: the web server and the Celery workers run.
Served ==
  /\ \A r \in Requests : WF_vars(DepositCreate(r) \/ DepositInitiate(r)
                                   \/ DepositSaveRef(r))
  /\ \A i \in Intents : WF_vars(HandleCallback(i))

\* Nothing schedules verify_pending_deposits: verify may run, and need not.
ServedSpec == Spec /\ Served

------------------------------------------------------------------------------
\* Properties.

\* The intents that count in the balance of user u, in one direction.
Counted(u, dir, states) ==
  {i \in Intents : /\ intent[i].user = u /\ intent[i].dir = dir
                   /\ intent[i].state \in states}

Total(S) == SumOf([i \in Intents |-> intent[i].amount], S)

\* The BONUS pocket holds at most the welcome bonus of one settled deposit.
WelcomedOnce(u) ==
    \/ wallet[u]["BONUS"].avail = 0
    \/ /\ u \in granted
       /\ \E i \in Counted(u, "IN", {"SETTLED"}) :
            wallet[u]["BONUS"].avail = (intent[i].amount * BonusPercent) \div 100

\* The REAL balance is the settled deposits less the withdrawals that are
\* reserved or settled: whatever callbacks are replayed or lost and however
\* they race with verify and the operators, each intent moves it once; and
\* two first deposits confirmed at once bring one welcome bonus.
CountedOnce ==
  \A u \in Users :
    /\ wallet[u]["REAL"].avail = Total(Counted(u, "IN", {"SETTLED"}))
                                  - Total(Counted(u, "OUT", {"PENDING", "SETTLED"}))
    /\ WelcomedOnce(u)

\* The orders the provider will pay or has paid out.
PayoutsUnderWay ==
  {i \in Intents : verdict[i] \in {"open", "paid"}
                   /\ (intent[i].dir = "OUT" \/ intent[i].state = "NONE")}

\* The order is a withdrawal debited from a wallet, and no operator has still to
\* look at it.
PayoutBacked(i) ==
  /\ intent[i].state \in {"PENDING", "SETTLED"}
  /\ ~intent[i].review
  /\ tx[i] \in {"PENDING", "SETTLED"}

\* Whatever process dies, what the provider pays out was taken from a wallet.
PayoutsBacked == \A i \in PayoutsUnderWay : PayoutBacked(i)

\* As long as no process has died, what the provider pays out was taken from a
\* wallet, however callbacks, verify and two operators race.
PayoutsBackedAlive == crashes = 0 => PayoutsBacked

\* As long as no process has died, and with a provider that knows what it was
\* paid, an intent ends the way the provider decided: no deposit is credited on the
\* customer's word alone, no withdrawal is final before it is paid, and none is
\* credited back that the provider still honours.
EndsAsDecided ==
  crashes = 0 /\ provider # "sandbox" => \A i \in Intents :
    /\ intent[i].state = "SETTLED" => verdict[i] = "paid"
    /\ intent[i].state = "FAILED" =>
         \/ verdict[i] = "refused"
         \/ intent[i].dir = "OUT" /\ verdict[i] = "unknown"

\* Two requests with one idempotency key make one intent, however they race.
OnePerKey ==
  \A i, j \in Intents :
    intent[i].key # NoKey /\ intent[i].key = intent[j].key => i = j

\* A deposit the customer has paid is credited in the end, by its callback or,
\* when that is lost, by the safety net: verify_pending_deposits.
PaidIsCredited ==
  \A i \in Intents :
    (verdict[i] = "paid" /\ intent[i].dir = "IN") ~> intent[i].state = "SETTLED"
==============================================================================
