-------------------------------- MODULE Wager --------------------------------
(***************************************************************************)
(* What the platform promises about the money of each match, whatever the  *)
(* order of events: a stake goes in once, and the match ends once, either  *)
(* with every stake given back or with the whole pot paid to a participant *)
(* and the house's rake.  Afterwards the match never moves money again.    *)
(***************************************************************************)
EXTENDS Integers

CONSTANTS Matches, Accounts, House, NoOne

VARIABLES phase,   \* per match: "none", "offered", "engaged" or "closed"
          stake,   \* per match: what each side has to put in
          sides,   \* per match: the pair of accounts that play it
          net      \* per match and account: money received minus money put in

wagers == <<phase, stake, sides, net>>

Nothing == [u \in Accounts |-> 0]

Init ==
  /\ phase = [m \in Matches |-> "none"]
  /\ stake = [m \in Matches |-> 0]
  /\ sides = [m \in Matches |-> <<NoOne, NoOne>>]
  /\ net = [m \in Matches |-> Nothing]

\* What the accounts of a match have put in while the match is open.
PaidIn(s, b) == [u \in Accounts |-> IF u \in {s[1], s[2]} THEN -b ELSE 0]

\* A player offers a match and puts his stake in.
Offer(m) ==
  /\ phase[m] = "none" /\ phase'[m] = "offered"
  /\ sides'[m] \in Accounts \X {NoOne}
  /\ net'[m] = PaidIn(sides'[m], stake'[m])

\* A match that has both stakes from the start, or no stake at all.
Engage(m) ==
  /\ phase[m] = "none" /\ phase'[m] = "engaged"
  /\ sides'[m] \in Accounts \X Accounts
  /\ net'[m] = PaidIn(sides'[m], stake'[m])

\* Somebody else takes the offer and puts the same stake in.
Take(m) ==
  /\ phase[m] = "offered" /\ phase'[m] = "engaged"
  /\ stake'[m] = stake[m]
  /\ \E u \in Accounts \ {sides[m][1]} : sides'[m] = <<sides[m][1], u>>
  /\ net'[m] = PaidIn(sides'[m], stake[m])

Close(m) ==
  /\ phase[m] \in {"offered", "engaged"} /\ phase'[m] = "closed"
  /\ stake'[m] = stake[m] /\ sides'[m] = sides[m]

\* Every stake goes back.
GiveBack(m) == Close(m) /\ net'[m] = Nothing

\* A participant of an engaged match receives the pot net of the rake, the
\* house the rake.
PayOut(m) ==
  /\ Close(m)
  /\ phase[m] = "engaged"
  /\ \E winner \in {sides[m][1], sides[m][2]}, rake \in 0..(2 * stake[m]) :
       net'[m] = [u \in Accounts |->
         PaidIn(sides[m], stake[m])[u]
         + (IF u = winner THEN 2 * stake[m] - rake ELSE 0)
         + (IF u = House THEN rake ELSE 0)]

Idle(m) ==
  /\ phase'[m] = phase[m] /\ stake'[m] = stake[m]
  /\ sides'[m] = sides[m] /\ net'[m] = net[m]

\* One step may move several matches, as pairing two challenges does.
Next ==
  \A m \in Matches :
    Idle(m) \/ Offer(m) \/ Engage(m) \/ Take(m) \/ GiveBack(m) \/ PayOut(m)

Spec == Init /\ [][Next]_wagers
==============================================================================
