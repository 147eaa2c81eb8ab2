------------------------------ MODULE PageProofs ------------------------------
(***************************************************************************)
(* Proofs about what runs in a browser.  UserData: the figures of a page   *)
(* are its player's own and complete.  LocalGame: the history, the score   *)
(* of a tournament and the tutor's hint are those of the game on the       *)
(* board.  BoardPage: the board of a match shows what was sent.  Ranking,  *)
(* SavedGame, Gemini and Engine: the caches are as fresh as they say, what *)
(* is offered can be loaded, the breaker breaks, and the worker's table    *)
(* serves one player.                                                      *)
(***************************************************************************)
EXTENDS PageParts, FiniteSetTheorems, TLAPS

------------------------------------------------------------------------------
\* ACCOUNTS.

Figures == [owner : Users, count : Nat]
Updates == [uid : Users, new : Figures, sent : BOOLEAN]

Pages ==
  [starting : Users \cup {None}, user : Users \cup {None}, popup : BOOLEAN,
   stats : Figures \cup {None}, listens : SUBSET Users,
   update : Updates \cup {None}, late : BOOLEAN]

\* null is no account, count, figures or update.
NoneIsNull == None \notin Users \cup Nat \cup Figures \cup Updates

TypeOK ==
  /\ docs \in [Users -> Nat \cup {None}]
  /\ page \in Pages
  /\ ghost \in [written : [Users -> Nat], upset : SUBSET Users]

\* Whoever is signed in before initAuth resolves is the one it resolves with; a
\* page listens to its user only.
SignedIn ==
  /\ page.starting # None => page.user \in {None, page.starting}
  /\ page.listens \subseteq {page.user} \ {None}

\* AllCounted, with what there is before the first document.
Counts ==
  \A u \in Users \ ghost.upset :
    ghost.written[u] = IF docs[u] = None THEN 0 ELSE docs[u]

\* Figures that are the player's own are those of the document, unless a write of
\* newer ones has still to be acknowledged.
Known ==
  page.stats # None /\ ~page.late /\ page.user \notin ghost.upset
    /\ (page.update = None \/ ~page.update.sent)
    => docs[page.user] = page.stats.count

\* A result on its way is one more than the document counts.
Coming ==
  page.update # None /\ ~page.update.sent /\ page.update.uid \notin ghost.upset
    => docs[page.update.uid] \in Nat /\ page.update.new.count = docs[page.update.uid] + 1

\* The inductive invariant.
IInv == TypeOK /\ SignedIn /\ StatsAreOwn /\ Counts /\ Known /\ Coming

LEMMA InitIInv ==
  ASSUME NoneIsNull PROVE Init => IInv
BY DEF NoneIsNull, Init, IInv, TypeOK, Pages, SignedIn, StatsAreOwn, Counts, Known, Coming, Figures

\* A page that shows other figures, and what it waits for: nothing else changes.
Flag(b) == b \in BOOLEAN
Showing(p, s, late, up) == [p EXCEPT !.stats = s, !.late = late, !.update = up]

LEMMA ShowStep ==
  ASSUME NEW p \in Pages, NEW s \in Figures, NEW late, Flag(late),
         NEW up \in Updates \cup {None}, NEW q, q = Showing(p, s, late, up)
  PROVE  /\ q \in Pages
         /\ q.stats = s /\ q.late = late /\ q.update = up
         /\ q.starting = p.starting /\ q.user = p.user /\ q.popup = p.popup
         /\ q.listens = p.listens
<1>1. q \in Pages
  BY DEF Flag, Pages, Showing
<1>2. q.stats = s /\ q.late = late /\ q.update = up
  BY DEF Flag, Pages, Showing
<1>3. q.starting = p.starting /\ q.user = p.user /\ q.popup = p.popup /\ q.listens = p.listens
  BY DEF Flag, Pages, Showing
<1> QED BY <1>1, <1>2, <1>3

USE DEF NoneIsNull, TypeOK, Pages, SignedIn, StatsAreOwn, Counts, Known, Coming, Figures, Updates,
        Stats

\* What upsets some accounts leaves the results of the others.
LEMMA UpsetStep ==
  ASSUME TypeOK, NEW us \in SUBSET Users, Upset(us)
  PROVE  /\ ghost' \in [written : [Users -> Nat], upset : SUBSET Users]
         /\ ghost'.upset = ghost.upset \cup us
         /\ \A u \in Users : ghost'.written[u] = IF u \in us THEN 0 ELSE ghost.written[u]
BY DEF Upset

\* A result is counted for its account.
LEMMA CountedStep ==
  ASSUME TypeOK, NEW u \in Users, Counted(u)
  PROVE  /\ ghost' \in [written : [Users -> Nat], upset : SUBSET Users]
         /\ ghost'.upset = ghost.upset
         /\ \A v \in Users : ghost'.written[v] =
              IF v # u THEN ghost.written[v]
              ELSE IF u \in ghost.upset THEN 0 ELSE ghost.written[u] + 1
BY DEF Counted

\* Signing in and out.
LEMMA SessionStep ==
  ASSUME NoneIsNull, IInv, InitAuth \/ LoginWithGoogle \/ PopupCloses \/ Logout
  PROVE  IInv'
<1>1. ASSUME NEW u \in Users, NEW starting \in {None, u}, NEW popup \in BOOLEAN,
             page' = WithUser([page EXCEPT !.starting = starting, !.popup = popup], u),
             docs' = docs, ghost' = ghost
      PROVE  IInv'
  <2> DEFINE old == page.stats # None /\ page.stats.owner # u
             late == page.late \/ old
  <2>1. page' = [page EXCEPT !.starting = starting, !.popup = popup, !.user = u,
                             !.listens = {u}, !.late = late]
    BY <1>1 DEF IInv, WithUser, Unsubscribed
  <2>2. late \in BOOLEAN
    BY DEF IInv
  <2> HIDE DEF old, late
  <2>3. TypeOK'
    <3>1. page \in Pages /\ starting \in Users \cup {None} /\ u \in Users \cup {None}
          /\ {u} \in SUBSET Users
      BY <1>1 DEF IInv
    <3>2. page' \in Pages
      BY <1>1, <2>1, <2>2, <3>1 DEF Pages
    <3> QED BY <1>1, <3>2 DEF IInv
  <2>4. /\ page'.starting = starting /\ page'.user = u /\ page'.listens = {u}
        /\ page'.stats = page.stats /\ page'.late = late /\ page'.update = page.update
    BY <2>1 DEF IInv
  <2>5. SignedIn'
    BY <2>4
  <2>6. page.stats = None \/ late \/ page.stats.owner = u
    BY DEF old, late
  <2>7. StatsAreOwn'
    BY <2>4, <2>6
  <2>8. Counts' /\ Coming'
    BY <1>1, <2>4 DEF IInv
  <2>9. ~late => ~page.late
    BY DEF late
  <2>10. Known'
    BY <1>1, <2>4, <2>6, <2>9 DEF IInv
  <2> QED BY <2>3, <2>5, <2>7, <2>8, <2>10 DEF IInv
<1>2. CASE InitAuth
  <2> DEFINE u == page.starting
             ready == [page EXCEPT !.starting = None]
  <2>1. u \in Users /\ docs' = docs /\ ghost' = ghost
    BY <1>2 DEF IInv, InitAuth
  <2>2. CASE page.user = u
    <3>1. page' = ready
      BY <1>2, <2>2 DEF InitAuth
    <3> QED BY <2>1, <3>1 DEF IInv
  <2>3. CASE page.user # u
    <3>1. page' = WithUser(ready, u)
      BY <1>2, <2>3 DEF InitAuth
    <3>2. ready = [page EXCEPT !.starting = None, !.popup = page.popup] /\ page.popup \in BOOLEAN
      BY DEF IInv
    <3> HIDE DEF u, ready
    <3> QED BY <1>1, <2>1, <3>1, <3>2
  <2> QED BY <2>2, <2>3
<1>3. CASE LoginWithGoogle
  BY <1>3 DEF IInv, LoginWithGoogle
<1>4. CASE PopupCloses
  <2>1. ASSUME NEW u \in Users,
               page' = WithUser([page EXCEPT !.popup = FALSE, !.starting = NowKept(page, u)], u)
        PROVE  IInv'
    <3> DEFINE kept == NowKept(page, u)
    <3>1. kept \in {None, u} /\ docs' = docs /\ ghost' = ghost
      BY <1>4 DEF PopupCloses, NowKept
    <3>2. page' = WithUser([page EXCEPT !.starting = kept, !.popup = FALSE], u)
      <4>1. [page EXCEPT !.popup = FALSE, !.starting = kept]
              = [page EXCEPT !.starting = kept, !.popup = FALSE]
        BY DEF IInv
      <4> QED BY <2>1, <4>1
    <3> HIDE DEF kept
    <3> QED BY <1>1, <3>1, <3>2
  <2>2. CASE page' = [page EXCEPT !.popup = FALSE]
    BY <1>4, <2>2 DEF IInv, PopupCloses
  <2> QED BY <1>4, <2>1, <2>2 DEF PopupCloses
<1>5. CASE Logout
  <2>1. /\ page' = [page EXCEPT !.starting = None, !.user = None, !.listens = {}, !.stats = None,
                                !.late = FALSE]
        /\ docs' = docs /\ ghost' = ghost
    BY <1>5 DEF IInv, Logout, WithUser, Unsubscribed
  <2> QED BY <2>1 DEF IInv
<1> QED BY <1>2, <1>3, <1>4, <1>5

\* The listener.
LEMMA ListenerStep ==
  ASSUME NoneIsNull, IInv, Snapshot \/ EmptyCache \/ ListenerFails
  PROVE  IInv'
<1>1. CASE Snapshot
  <2>1. PICK u \in page.listens :
          /\ \/ /\ docs[u] # None
                /\ page' = [page EXCEPT !.stats = Stats(u, docs[u]), !.late = FALSE]
                /\ UNCHANGED docs
             \/ /\ docs[u] = None /\ u = page.user
                /\ docs' = [docs EXCEPT ![u] = 0]
                /\ UNCHANGED page
          /\ UNCHANGED ghost
    BY <1>1 DEF Snapshot
  <2>2. u = page.user /\ u \in Users
    BY DEF IInv
  <2>3. CASE docs[u] # None
    <3>1. docs[u] \in Nat /\ [owner |-> u, count |-> docs[u]] \in Figures
      BY <2>2, <2>3 DEF IInv
    <3>2. page' = [page EXCEPT !.stats = [owner |-> u, count |-> docs[u]], !.late = FALSE]
          /\ docs' = docs /\ ghost' = ghost
      BY <2>1, <2>3
    <3>3. TypeOK'
      BY <3>1, <3>2 DEF IInv
    <3>4. SignedIn' /\ StatsAreOwn' /\ Known'
      BY <2>2, <3>2 DEF IInv
    <3>5. Counts' /\ Coming'
      BY <3>2 DEF IInv
    <3> QED BY <3>3, <3>4, <3>5 DEF IInv
  <2>4. CASE docs[u] = None
    <3>1. page' = page /\ docs' = [docs EXCEPT ![u] = 0] /\ ghost' = ghost
      BY <2>1, <2>4
    <3> QED BY <2>2, <2>4, <3>1 DEF IInv
  <2> QED BY <2>3, <2>4
<1>2. CASE EmptyCache
  <2>1. PICK u \in page.listens :
          /\ page.user = u /\ docs[u] \notin {None, 0}
          /\ docs' = [docs EXCEPT ![u] = 0] /\ Upset({u}) /\ UNCHANGED page
    BY <1>2 DEF EmptyCache
  <2>2. u \in Users
    BY DEF IInv
  <2>3. /\ ghost' \in [written : [Users -> Nat], upset : SUBSET Users]
        /\ ghost'.upset = ghost.upset \cup {u}
        /\ \A v \in Users \ {u} : ghost'.written[v] = ghost.written[v]
    BY <2>1, <2>2, UpsetStep DEF IInv
  <2> QED BY <2>1, <2>2, <2>3 DEF IInv
<1>3. CASE ListenerFails
  BY <1>3 DEF IInv, ListenerFails
<1> QED BY <1>1, <1>2, <1>3

\* What the page and other devices write.
LEMMA WriteStep ==
  ASSUME NoneIsNull, IInv,
         ResetElo \/ UpdateUserStats \/ StatsWritten \/ StatsRefused \/ StatsShown \/ OtherDevice
  PROVE  IInv'
<1>1. CASE ResetElo
  <2>1. PICK u \in Users : u = page.user
    BY <1>1 DEF IInv, ResetElo
  <2>2. docs' = [docs EXCEPT ![u] = 0] /\ page' = Heard(u, 0)
    BY <1>1, <2>1 DEF ResetElo
  <2>3. docs' \in [Users -> Nat \cup {None}]
    BY <2>1, <2>2 DEF IInv
  <2>4. CASE page.listens = {}
    <3>1. page' = page
      BY <2>2, <2>4 DEF Heard
    <3>2. /\ ghost' \in [written : [Users -> Nat], upset : SUBSET Users]
          /\ ghost'.upset = ghost.upset \cup {u}
          /\ \A v \in Users \ {u} : ghost'.written[v] = ghost.written[v]
      BY <1>1, <2>1, <2>4, UpsetStep DEF IInv, ResetElo
    <3> QED BY <2>1, <2>2, <2>3, <3>1, <3>2 DEF IInv
  <2>5. CASE page.listens # {}
    <3>1. u \in page.listens
      BY <2>1, <2>5 DEF IInv
    <3>2. page' = [page EXCEPT !.stats = [owner |-> u, count |-> 0], !.late = FALSE]
      BY <2>2, <3>1 DEF Heard
    <3>3. page' \in Pages
      <4>1. [owner |-> u, count |-> 0] \in Figures
        BY <2>1
      <4> QED BY <3>2, <4>1 DEF IInv
    <3>4. SignedIn' /\ StatsAreOwn'
      BY <2>1, <3>2 DEF IInv
    <3>5. docs'[page'.user] = page'.stats.count
      <4>1. page'.user = u /\ page'.stats = [owner |-> u, count |-> 0]
        BY <2>1, <3>2 DEF IInv
      <4>2. docs'[u] = 0
        BY <2>1, <2>2 DEF IInv
      <4> QED BY <4>1, <4>2
    <3>6. CASE page.update # None
      <4>1. /\ ghost' \in [written : [Users -> Nat], upset : SUBSET Users]
            /\ ghost'.upset = ghost.upset \cup {u}
            /\ \A v \in Users \ {u} : ghost'.written[v] = ghost.written[v]
        BY <1>1, <2>1, <3>6, UpsetStep DEF IInv, ResetElo
      <4>2. Counts'
        BY <2>2, <4>1 DEF IInv
      <4>3. Coming'
        <5>1. page'.update = page.update
          BY <3>2 DEF IInv
        <5>2. \A v \in Users \ {u} : docs'[v] = docs[v]
          BY <2>2 DEF IInv
        <5> QED BY <3>6, <4>1, <5>1, <5>2 DEF IInv
      <4>4. TypeOK'
        BY <2>3, <3>3, <4>1
      <4>5. Known'
        BY <3>5
      <4> QED BY <3>4, <4>2, <4>3, <4>4, <4>5 DEF IInv
    <3>7. CASE page.update = None
      <4>1. ghost' = [ghost EXCEPT !.written[u] = 0]
        BY <1>1, <2>1, <2>5, <3>7 DEF ResetElo
      <4>2. ghost' \in [written : [Users -> Nat], upset : SUBSET Users]
        BY <2>1, <4>1 DEF IInv
      <4>3. Counts'
        BY <2>1, <2>2, <4>1 DEF IInv
      <4>4. Coming'
        BY <3>2, <3>7 DEF IInv
      <4> QED BY <2>3, <3>3, <3>4, <3>5, <4>2, <4>3, <4>4 DEF IInv
    <3> QED BY <3>6, <3>7
  <2> QED BY <2>4, <2>5
<1>2. CASE UpdateUserStats
  <2> DEFINE u == page.user
             new == [owner |-> page.stats.owner, count |-> page.stats.count + 1]
  <2>1. /\ u \in Users /\ page.stats \in Figures /\ page.update = None
        /\ page' = [page EXCEPT !.update = [uid |-> u, new |-> new, sent |-> FALSE]]
        /\ docs' = docs
    BY <1>2 DEF IInv, UpdateUserStats
  <2>2. /\ ghost' \in [written : [Users -> Nat], upset : SUBSET Users]
        /\ ghost.upset \subseteq ghost'.upset /\ ghost'.upset \subseteq ghost.upset \cup {u}
        /\ \A v \in Users : v \notin ghost'.upset => ghost'.written[v] = ghost.written[v]
        /\ u \notin ghost'.upset => page.stats.owner = u /\ ~page.late
    BY <1>2, <2>1, UpsetStep DEF IInv, UpdateUserStats
  <2>3. new \in Figures /\ [uid |-> u, new |-> new, sent |-> FALSE] \in Updates
    BY <2>1
  <2>4. TypeOK'
    BY <2>1, <2>2, <2>3 DEF IInv
  <2>5. SignedIn' /\ StatsAreOwn'
    BY <2>1 DEF IInv
  <2>6. Counts' /\ Known'
    BY <2>1, <2>2 DEF IInv
  <2>7. u \notin ghost'.upset => docs[u] = page.stats.count
    BY <2>1, <2>2 DEF IInv
  <2>8. Coming'
    BY <2>1, <2>2, <2>7 DEF IInv
  <2> QED BY <2>4, <2>5, <2>6, <2>8 DEF IInv
<1>3. CASE StatsWritten
  <2> DEFINE up == page.update
             u == up.uid
             n == up.new.count
             sent == [up EXCEPT !.sent = TRUE]
  <2>1. /\ up \in Updates /\ u \in Users /\ n \in Nat /\ ~up.sent /\ u = page.user
        /\ docs' = [docs EXCEPT ![u] = n]
        /\ page' = [Heard(u, n) EXCEPT !.update.sent = TRUE]
        /\ Counted(u)
    BY <1>3 DEF IInv, StatsWritten, Target
  <2>2. sent \in Updates /\ sent.sent
    BY <2>1
  <2>3. /\ ghost' \in [written : [Users -> Nat], upset : SUBSET Users]
        /\ ghost'.upset = ghost.upset
        /\ \A v \in Users : ghost'.written[v] =
             IF v # u THEN ghost.written[v]
             ELSE IF u \in ghost.upset THEN 0 ELSE ghost.written[u] + 1
    BY <2>1, CountedStep DEF IInv
  <2>4. docs' \in [Users -> Nat \cup {None}]
    BY <2>1 DEF IInv
  <2>5. u \notin ghost.upset => docs[u] \in Nat /\ n = docs[u] + 1
    BY <2>1 DEF IInv
  <2>6. Counts'
    BY <2>1, <2>3, <2>5 DEF IInv
  <2>7. CASE u \in page.listens
    <3>1. page' = [page EXCEPT !.stats = [owner |-> u, count |-> n], !.late = FALSE,
                               !.update = sent]
      BY <2>1, <2>7 DEF Heard, IInv
    <3>2. [owner |-> u, count |-> n] \in Figures
      BY <2>1
    <3> HIDE DEF up, u, n, sent
    <3>3. TypeOK'
      BY <2>2, <2>3, <2>4, <3>1, <3>2 DEF IInv
    <3>4. /\ page'.starting = page.starting /\ page'.user = page.user /\ page'.popup = page.popup
          /\ page'.listens = page.listens /\ page'.update = sent
          /\ page'.stats = [owner |-> u, count |-> n]
      <4> DEFINE late == FALSE
      <4> HIDE DEF Pages, Figures, Updates
      <4>1. page \in Pages /\ sent \in Updates \cup {None} /\ Flag(late)
        BY <2>2 DEF IInv, Flag
      <4>2. page' = Showing(page, [owner |-> u, count |-> n], late, sent)
        BY <3>1 DEF Showing
      <4> HIDE DEF late
      <4> QED BY <3>2, <4>1, <4>2, ShowStep
    <3>5. SignedIn'
      BY <3>4 DEF IInv
    <3>6. docs'[u] = n
      BY <2>1 DEF IInv
    <3>7. StatsAreOwn' /\ Known' /\ Coming'
      BY <2>1, <2>2, <3>4, <3>6
    <3> QED BY <2>6, <3>3, <3>5, <3>7 DEF IInv
  <2>8. CASE u \notin page.listens
    <3>1. page' = [page EXCEPT !.update = sent]
      BY <2>1, <2>8 DEF Heard, IInv
    <3> HIDE DEF up, u, n, sent
    <3>2. TypeOK'
      BY <2>2, <2>3, <2>4, <3>1 DEF IInv
    <3>3. /\ page'.starting = page.starting /\ page'.user = page.user /\ page'.popup = page.popup
          /\ page'.listens = page.listens /\ page'.update = sent
          /\ page'.stats = page.stats /\ page'.late = page.late
      BY <3>1 DEF IInv
    <3>4. SignedIn' /\ StatsAreOwn'
      BY <3>3 DEF IInv
    <3>5. Known' /\ Coming'
      BY <2>2, <3>3 DEF Updates
    <3> QED BY <2>6, <3>2, <3>4, <3>5 DEF IInv
  <2> QED BY <2>7, <2>8
<1>4. CASE StatsRefused
  BY <1>4 DEF IInv, StatsRefused
<1>5. CASE StatsShown
  <2> DEFINE up == page.update
             u == up.uid
             n == up.new.count
             off == IF n # docs[u] THEN {u} ELSE {}
  <2>1. /\ up \in Updates /\ u \in Users /\ n \in Nat /\ up.sent
        /\ page' = [page EXCEPT !.stats = [owner |-> u, count |-> n], !.update = None,
                                !.late = page.user # u]
        /\ docs' = docs /\ Upset(off)
    BY <1>5 DEF IInv, StatsShown
  <2>2. off \in SUBSET Users /\ (u \notin off => n = docs[u])
    BY <2>1
  <2>3. [owner |-> u, count |-> n] \in Figures
    BY <2>1
  <2> HIDE DEF up, u, n, off
  <2>4. /\ ghost' \in [written : [Users -> Nat], upset : SUBSET Users]
        /\ ghost'.upset = ghost.upset \cup off
        /\ \A v \in Users : ghost'.written[v] = IF v \in off THEN 0 ELSE ghost.written[v]
    BY <2>1, <2>2, UpsetStep DEF IInv
  <2>5. TypeOK'
    <3>1. page' \in Pages
      <4> HIDE DEF Pages, Figures, Updates
      <4>1. page \in Pages /\ Flag(page.user # u)
        BY DEF IInv, Flag
      <4>2. page' = Showing(page, [owner |-> u, count |-> n], page.user # u, None)
        BY <2>1 DEF Showing
      <4> QED BY <2>3, <4>1, <4>2, ShowStep
    <3> QED BY <2>1, <2>4, <3>1 DEF IInv
  <2>6. SignedIn' /\ StatsAreOwn'
    BY <2>1 DEF IInv
  <2>7. Counts' /\ Coming'
    BY <2>1, <2>4 DEF IInv
  <2>8. Known'
    BY <2>1, <2>2, <2>4 DEF IInv
  <2> QED BY <2>5, <2>6, <2>7, <2>8 DEF IInv
<1>6. CASE OtherDevice
  <2>1. PICK u \in Users :
          /\ docs[u] # None
          /\ docs' = [docs EXCEPT ![u] = @ + 1]
          /\ IF page.user = u \/ (page.update # None /\ page.update.uid = u)
             THEN Upset({u}) ELSE Counted(u)
          /\ UNCHANGED page
    BY <1>6 DEF OtherDevice
  <2>2. docs[u] \in Nat
    BY <2>1 DEF IInv
  <2>3. CASE page.user = u \/ (page.update # None /\ page.update.uid = u)
    <3>1. /\ ghost' \in [written : [Users -> Nat], upset : SUBSET Users]
          /\ ghost'.upset = ghost.upset \cup {u}
          /\ \A v \in Users \ {u} : ghost'.written[v] = ghost.written[v]
      BY <2>1, <2>3, UpsetStep DEF IInv
    <3> QED BY <2>1, <2>2, <3>1 DEF IInv
  <2>4. CASE ~(page.user = u \/ (page.update # None /\ page.update.uid = u))
    <3>1. /\ ghost' \in [written : [Users -> Nat], upset : SUBSET Users]
          /\ ghost'.upset = ghost.upset
          /\ \A v \in Users : ghost'.written[v] =
               IF v # u THEN ghost.written[v]
               ELSE IF u \in ghost.upset THEN 0 ELSE ghost.written[u] + 1
      BY <2>1, <2>4, CountedStep DEF IInv
    <3> QED BY <2>1, <2>2, <2>4, <3>1 DEF IInv
  <2> QED BY <2>3, <2>4
<1> QED BY <1>1, <1>2, <1>3, <1>4, <1>5, <1>6

\* Every step of the page, of its player and of other devices keeps the invariant.
THEOREM InductiveInvariant ==
  ASSUME NoneIsNull
  PROVE  Spec => []IInv
<1>1. IInv /\ [Next]_vars => IInv'
  <2> SUFFICES ASSUME IInv, [Next]_vars PROVE IInv'
    OBVIOUS
  <2>1. CASE UNCHANGED vars
    BY <2>1 DEF IInv, vars
  <2> QED BY <2>1, SessionStep, ListenerStep, WriteStep DEF Next
<1> QED BY <1>1, InitIInv, PTL DEF Spec

\* updateUserStats writes the figures the page knows plus one, without a
\* transaction: they are the player's own, unless they are late (a write acknowledged
\* after signing out, a login over a kept session), and no result of a player on one
\* page at a time, to whom that did not happen, is lost or counted twice.
THEOREM FiguresAreTrue ==
  ASSUME NoneIsNull
  PROVE  Spec => []FiguresTrue
<1>1. IInv => FiguresTrue
  BY DEF IInv, FiguresTrue, AllCounted
<1> QED BY <1>1, InductiveInvariant, PTL

------------------------------------------------------------------------------
\* A GAME ON THE PAGE.

Boards == [moves : Seq({0, 1}), torn : BOOLEAN]
Entries == [board : Boards, turn : {0, 1}]
Steps == [from : Boards, by : {0, 1}]
Tournaments ==
  [actif : BOOLEAN, manche : Int, total : Rounds \cup {2}, scores : Int \X Int]

\* null is no move that is animated.
NoneIsNoStep == None \notin Steps

Fields == {"screen", "mode", "board", "turn", "history", "thinking", "animating", "timer",
           "dialog", "tournoi", "hint", "anim", "ai", "tutor", "loading", "extra", "origin"}

\* The state of a page is a record of these fields.
Page(p) == p = [f \in Fields |-> p[f]]

AppTypeOK(p) ==
  /\ Page(p) /\ p.screen \in {"menu", "playing", "gameover"}
  /\ p.board \in Boards /\ p.turn \in {0, 1} /\ p.history \in Seq(Entries)
  /\ p.anim \in Steps \cup {None}
  /\ p.tournoi \in Tournaments /\ p.extra \in Int

\* The tutor is asked about a position on which the apprentice may move.
Asks(p) ==
  p.mode = "Apprenti" /\ p.turn = 0 /\ p.screen = "playing" /\ ~p.thinking /\ ~p.animating

\* What is animated is a move of the game that is played; the machine's task is
\* not on while it is.
Moved(p) == p.anim # None => p.screen = "playing" /\ p.animating
Thought(p) == p.ai # None => p.screen = "playing" /\ ~p.animating

\* The tutor's task and its hint are for the position on the board.
Tutored(p) ==
  /\ p.tutor # <<>> => Asks(p) /\ p.tutor = <<p.board>>
  /\ Asks(p) /\ p.hint # None => p.hint = p.board

\* The score of a tournament, while a round is played and after.
Sums(t, extra, playing) ==
  t.actif => t.scores[1] + t.scores[2] = t.manche - (IF playing THEN 1 ELSE 0) + extra
Scores(p) == Sums(p.tournoi, p.extra, p.screen # "gameover")

\* An entry is the position before move i.
Precedes(e, i, moves) ==
  /\ e.turn = moves[i] /\ Len(e.board.moves) = i - 1
  /\ \A j \in 1..(i - 1) : e.board.moves[j] = moves[j]

\* The first n entries of a history are the positions before each of these moves.
Replays(h, n, moves) == Len(moves) = n /\ \A i \in 1..n : Precedes(h[i], i, moves)

\* Each whole position of a history comes of the entries before it.
Chronicle(h) ==
  \A k \in 1..Len(h) : ~h[k].board.torn => Replays(h, k - 1, h[k].board.moves)

Played(p) == IF p.anim = None THEN p.board.moves ELSE Append(p.board.moves, p.anim.by)

Story(p) ==
  p.origin # "mixed" =>
    /\ Chronicle(p.history)
    /\ p.anim # None => p.anim.from = p.board
    /\ p.screen = "playing" /\ ~p.board.torn => Replays(p.history, Len(p.history), Played(p))

\* A save is a game that can be gone on with.
SaveOK ==
  save # None =>
    /\ save.board \in Boards /\ save.turn \in {0, 1} /\ save.history \in Seq(Entries)
    /\ save.tournoi \in Tournaments /\ save.extra \in Int
    /\ Sums(save.tournoi, save.extra, TRUE) /\ Chronicle(save.history)
    /\ ~save.board.torn => Replays(save.history, Len(save.history), save.board.moves)

\* The inductive invariant.
PageOK(p) == AppTypeOK(p) /\ Moved(p) /\ Scores(p) /\ Story(p)
LocalIInv == PageOK(app) /\ Thought(app) /\ Tutored(app) /\ SaveOK

------------------------------------------------------------------------------
\* Effects.

LEMMA MachineFrame ==
  ASSUME NEW old, NEW p, Page(p), NEW q, q = MachineEffect(old, p)
  PROVE  /\ Page(q)
         /\ q.screen = p.screen /\ q.mode = p.mode /\ q.board = p.board /\ q.turn = p.turn
         /\ q.history = p.history /\ q.animating = p.animating /\ q.tournoi = p.tournoi
         /\ q.hint = p.hint /\ q.anim = p.anim /\ q.tutor = p.tutor /\ q.extra = p.extra
         /\ q.origin = p.origin
         /\ \/ q.ai = p.ai /\ p.screen = old.screen /\ p.animating = old.animating
            \/ q.ai = None
            \/ p.screen = "playing" /\ ~p.animating
<1> DEFINE starts == Playing(p) /\ p.turn = 1 /\ AgainstMachine(p.mode)
                     /\ ~p.thinking /\ ~p.animating
           ai == IF starts THEN p.board ELSE None
           thinking == p.thinking \/ starts
<1>1. \/ q = p /\ <<p.turn, p.screen, p.mode, p.board, p.animating>>
                  = <<old.turn, old.screen, old.mode, old.board, old.animating>>
      \/ q = [p EXCEPT !.ai = ai, !.thinking = thinking]
  BY Zenon DEF MachineEffect
<1>2. ai = None \/ (p.screen = "playing" /\ ~p.animating)
  BY Zenon DEF Playing
<1> HIDE DEF ai, thinking
<1>3. CASE q = p /\ <<p.turn, p.screen, p.mode, p.board, p.animating>>
                    = <<old.turn, old.screen, old.mode, old.board, old.animating>>
  BY <1>3
<1>4. CASE q = [p EXCEPT !.ai = ai, !.thinking = thinking]
  BY <1>2, <1>4, Zenon DEF Page, Fields
<1> QED BY <1>1, <1>3, <1>4

LEMMA TutorFrame ==
  ASSUME NEW old, NEW p, Page(p), NEW q, q = TutorEffect(old, p)
  PROVE  /\ Page(q)
         /\ q.screen = p.screen /\ q.mode = p.mode /\ q.board = p.board /\ q.turn = p.turn
         /\ q.history = p.history /\ q.animating = p.animating /\ q.tournoi = p.tournoi
         /\ q.anim = p.anim /\ q.extra = p.extra /\ q.origin = p.origin
         /\ q.thinking = p.thinking /\ q.ai = p.ai
         /\ \/ /\ q.tutor = p.tutor /\ q.hint = p.hint /\ (Asks(p) <=> Asks(old))
               /\ p.board = old.board
            \/ q.tutor = <<p.board>> /\ q.hint = None /\ Asks(p)
            \/ q.tutor = <<>> /\ ~Asks(p)
<1> DEFINE Seen(r) == <<r.turn, r.board, r.mode, r.screen, r.thinking, r.animating>>
           starts == p.mode = "Apprenti" /\ p.turn = 0 /\ Playing(p) /\ ~p.thinking /\ ~p.animating
<1>1. starts <=> Asks(p)
  BY Zenon DEF Asks, Playing
<1>2. \/ q = p /\ Seen(p) = Seen(old)
      \/ q = [p EXCEPT !.tutor = Append(<<>>, p.board), !.hint = None] /\ starts
      \/ q = [p EXCEPT !.tutor = <<>>] /\ ~starts
  BY Zenon DEF TutorEffect, Undone
<1>3. CASE q = p /\ Seen(p) = Seen(old)
  <2>1. /\ p.turn = old.turn /\ p.board = old.board /\ p.mode = old.mode
        /\ p.screen = old.screen /\ p.thinking = old.thinking /\ p.animating = old.animating
    BY <1>3
  <2> QED BY <1>3, <2>1, Zenon DEF Asks
<1>4. CASE q = [p EXCEPT !.tutor = Append(<<>>, p.board), !.hint = None] /\ starts
  <2>1. Append(<<>>, p.board) = <<p.board>>
    OBVIOUS
  <2> HIDE DEF starts
  <2>2. q = [p EXCEPT !.tutor = <<p.board>>, !.hint = None]
    BY <1>4, <2>1, Zenon
  <2> QED BY <1>1, <1>4, <2>2, Zenon DEF Page, Fields
<1>5. CASE q = [p EXCEPT !.tutor = <<>>] /\ ~starts
  <2> HIDE DEF starts
  <2> QED BY <1>1, <1>5, Zenon DEF Page, Fields
<1> QED BY <1>2, <1>3, <1>4, <1>5

\* What a handler leaves to the effects.
Kind(p) == p.tutor = app.tutor /\ p.ai = app.ai /\ p.hint \in {app.hint, None}

LEMMA Committed ==
  ASSUME LocalIInv, NEW p, PageOK(p), Kind(p), Commit(p), UNCHANGED save
  PROVE  LocalIInv'
<1> DEFINE m == MachineEffect(app, p)
           q == app'
<1>1. Page(p)
  BY DEF PageOK, AppTypeOK
<1>2. q = TutorEffect(app, m)
  BY DEF Commit
<1>3. /\ Page(m)
      /\ m.screen = p.screen /\ m.mode = p.mode /\ m.board = p.board /\ m.turn = p.turn
      /\ m.history = p.history /\ m.animating = p.animating /\ m.tournoi = p.tournoi
      /\ m.hint = p.hint /\ m.anim = p.anim /\ m.tutor = p.tutor /\ m.extra = p.extra
      /\ m.origin = p.origin
      /\ \/ m.ai = p.ai /\ p.screen = app.screen /\ p.animating = app.animating
         \/ m.ai = None
         \/ p.screen = "playing" /\ ~p.animating
  BY <1>1, MachineFrame
<1> HIDE DEF m
<1>4. /\ Page(q)
      /\ q.screen = m.screen /\ q.mode = m.mode /\ q.board = m.board /\ q.turn = m.turn
      /\ q.history = m.history /\ q.animating = m.animating /\ q.tournoi = m.tournoi
      /\ q.anim = m.anim /\ q.extra = m.extra /\ q.origin = m.origin
      /\ q.thinking = m.thinking /\ q.ai = m.ai
      /\ \/ /\ q.tutor = m.tutor /\ q.hint = m.hint /\ (Asks(m) <=> Asks(app))
            /\ m.board = app.board
         \/ q.tutor = <<m.board>> /\ q.hint = None /\ Asks(m)
         \/ q.tutor = <<>> /\ ~Asks(m)
  BY <1>2, <1>3, TutorFrame
<1> HIDE DEF q
<1>5. /\ q.screen = p.screen /\ q.board = p.board /\ q.turn = p.turn
      /\ q.history = p.history /\ q.animating = p.animating /\ q.tournoi = p.tournoi
      /\ q.anim = p.anim /\ q.extra = p.extra /\ q.origin = p.origin
  BY <1>3, <1>4
<1>6. PageOK(q)
  <2>1. AppTypeOK(p) /\ Moved(p) /\ Scores(p) /\ Story(p)
    BY DEF PageOK
  <2>2. AppTypeOK(q)
    BY <1>4, <1>5, <2>1, Zenon DEF AppTypeOK
  <2>3. Moved(q)
    BY <1>5, <2>1, Zenon DEF Moved
  <2>4. Scores(q)
    BY <1>5, <2>1, Zenon DEF Scores
  <2>5. Story(q)
    BY <1>5, <2>1, Zenon DEF Story, Played
  <2> QED BY <2>2, <2>3, <2>4, <2>5 DEF PageOK
<1>7. Thought(q)
  <2>1. q.ai = m.ai /\ p.ai = app.ai /\ Thought(app)
    BY <1>4 DEF Kind, LocalIInv
  <2> QED BY <1>3, <1>5, <2>1, Zenon DEF Thought
<1>8. Tutored(q)
  <2>1. Tutored(app) /\ m.tutor = app.tutor /\ (m.hint = app.hint \/ m.hint = None)
    BY <1>3 DEF Kind, LocalIInv
  <2>2. q.board = m.board /\ (Asks(q) <=> Asks(m))
    BY <1>4, Zenon DEF Asks
  <2>3. CASE /\ q.tutor = m.tutor /\ q.hint = m.hint /\ (Asks(m) <=> Asks(app))
             /\ m.board = app.board
    BY <2>1, <2>2, <2>3, Zenon DEF Tutored
  <2>4. CASE q.tutor = <<m.board>> /\ q.hint = None /\ Asks(m)
    BY <2>2, <2>4, Zenon DEF Tutored
  <2>5. CASE q.tutor = <<>> /\ ~Asks(m)
    BY <2>2, <2>5, Zenon DEF Tutored
  <2> QED BY <1>4, <2>3, <2>4, <2>5
<1>9. SaveOK'
  BY DEF LocalIInv, SaveOK
<1> QED BY <1>6, <1>7, <1>8, <1>9 DEF LocalIInv, q

------------------------------------------------------------------------------
\* Histories.

LEMMA ReplaysAlike ==
  ASSUME NEW h, NEW g, NEW n \in Nat, NEW moves, Replays(h, n, moves),
         \A i \in 1..n : g[i] = h[i]
  PROVE  Replays(g, n, moves)
BY Zenon DEF Replays

LEMMA PrecedesAlike ==
  ASSUME NEW e, NEW n \in Nat, NEW i \in 1..n, NEW m, NEW more, Precedes(e, i, m),
         \A j \in 1..n : more[j] = m[j]
  PROVE  Precedes(e, i, more)
<1>1. \A j \in 1..(i - 1) : j \in 1..n
  OBVIOUS
<1>2. more[i] = m[i] /\ \A j \in 1..(i - 1) : more[j] = m[j]
  BY <1>1
<1> QED BY <1>2, Zenon DEF Precedes

LEMMA HistoryBegins == Chronicle(<<>>) /\ Replays(<<>>, Len(<<>>), <<>>)
BY DEF Chronicle, Replays

\* A move is begun.
LEMMA HistoryGrows ==
  ASSUME NEW h \in Seq(Entries), NEW b \in Boards, NEW t \in {0, 1}, Chronicle(h),
         ~b.torn => Replays(h, Len(h), b.moves),
         NEW e, e = [board |-> b, turn |-> t]
  PROVE  /\ Chronicle(Append(h, e))
         /\ ~b.torn => Replays(Append(h, e), Len(Append(h, e)), Append(b.moves, t))
<1> DEFINE g == Append(h, e)
<1>1. e \in Entries /\ e.board = b /\ e.turn = t
  BY DEF Entries
<1>2. Len(h) \in Nat /\ Len(g) = Len(h) + 1 /\ g \in Seq(Entries) /\ g[Len(h) + 1] = e
  BY <1>1
<1>3. \A i \in 1..Len(h) : g[i] = h[i]
  BY <1>1
<1> HIDE DEF g
<1>4. b.moves \in Seq({0, 1})
  BY DEF Boards
<1> DEFINE n == Len(h)
           m == b.moves
           more == Append(m, t)
<1>5. ASSUME ~b.torn
      PROVE  Replays(g, n, m)
  <2>1. Replays(h, n, m)
    BY <1>5
  <2> QED BY <1>2, <1>3, <2>1, ReplaysAlike
<1>6. Chronicle(g)
  <2> SUFFICES ASSUME NEW k \in 1..Len(g), ~g[k].board.torn
               PROVE  Replays(g, k - 1, g[k].board.moves)
    BY DEF Chronicle
  <2>1. CASE k = n + 1
    <3>1. g[k] = e /\ k - 1 = n
      BY <1>2, <2>1
    <3> QED BY <1>1, <1>5, <3>1
  <2>2. CASE k # n + 1
    <3>1. k \in 1..n /\ k - 1 \in Nat
      BY <1>2, <2>2
    <3>2. Replays(h, k - 1, g[k].board.moves)
      BY <1>3, <3>1 DEF Chronicle
    <3>3. \A i \in 1..(k - 1) : g[i] = h[i]
      BY <1>2, <1>3, <3>1
    <3> QED BY <3>1, <3>2, <3>3, ReplaysAlike
  <2> QED BY <2>1, <2>2
<1>7. ASSUME ~b.torn
      PROVE  Replays(g, n + 1, more)
  <2>1. Replays(g, n, m) /\ Len(m) = n
    BY <1>5, <1>7 DEF Replays
  <2>2. Len(more) = n + 1 /\ more[n + 1] = t /\ \A i \in 1..n : more[i] = m[i]
    BY <1>4, <2>1
  <2> HIDE DEF n, m, more
  <2>3. n \in Nat /\ g[n + 1].turn = t /\ g[n + 1].board.moves = m
    BY <1>1, <1>2 DEF n, m
  <2>4. ASSUME NEW i \in 1..(n + 1)
        PROVE  Precedes(g[i], i, more)
    <3>1. CASE i = n + 1
      <4>1. i - 1 = n
        BY <2>3, <3>1
      <4>2. /\ g[i].turn = more[i] /\ Len(g[i].board.moves) = n
            /\ \A j \in 1..n : g[i].board.moves[j] = more[j]
        BY <2>1, <2>2, <2>3, <3>1, Zenon
      <4> QED BY <4>1, <4>2, Zenon DEF Precedes
    <3>2. CASE i # n + 1
      <4>1. i \in 1..n
        BY <2>3, <3>2
      <4>2. Precedes(g[i], i, m)
        BY <2>1, <4>1 DEF Replays
      <4>3. n \in Nat /\ \A j \in 1..n : more[j] = m[j]
        BY <2>2, <2>3
      <4> QED BY <4>1, <4>2, <4>3, PrecedesAlike, Zenon
    <3> QED BY <3>1, <3>2
  <2> QED BY <2>2, <2>4 DEF Replays
<1> QED BY <1>2, <1>6, <1>7 DEF g

\* A position is gone back to.
LEMMA HistoryShrinks ==
  ASSUME NEW h \in Seq(Entries), Chronicle(h), NEW k \in 1..Len(h),
         NEW g, g = SubSeq(h, 1, k - 1)
  PROVE  /\ g \in Seq(Entries) /\ Chronicle(g)
         /\ ~h[k].board.torn => Replays(g, Len(g), h[k].board.moves)
<1>1. Len(h) \in Nat /\ g \in Seq(Entries) /\ Len(g) = k - 1 /\ k - 1 \in Nat
  OBVIOUS
<1>2. \A i \in 1..(k - 1) : g[i] = h[i]
  OBVIOUS
<1>3. Chronicle(g)
  <2> SUFFICES ASSUME NEW l \in 1..Len(g), ~g[l].board.torn
               PROVE  Replays(g, l - 1, g[l].board.moves)
    BY DEF Chronicle
  <2>1. l \in 1..(k - 1) /\ l \in 1..Len(h) /\ l - 1 \in Nat /\ g[l] = h[l]
    BY <1>1, <1>2
  <2>2. Replays(h, l - 1, g[l].board.moves)
    BY <2>1 DEF Chronicle
  <2>3. \A i \in 1..(l - 1) : g[i] = h[i]
    BY <1>1, <1>2, <2>1
  <2> QED BY <2>1, <2>2, <2>3, ReplaysAlike
<1>4. ASSUME ~h[k].board.torn
      PROVE  Replays(g, k - 1, h[k].board.moves)
  <2>1. Replays(h, k - 1, h[k].board.moves)
    BY <1>4 DEF Chronicle
  <2> QED BY <1>1, <1>2, <2>1, ReplaysAlike
<1> QED BY <1>1, <1>3, <1>4

------------------------------------------------------------------------------
\* Starting.

LEMMA NoTournamentType == NoTournament \in Tournaments /\ ~NoTournament.actif
BY DEF NoTournament, Tournaments

LEMMA NewBoardType == NewBoard \in Boards /\ NewBoard.moves = <<>>
BY DEF NewBoard, Boards

\* A game that begins, with any tournament whose score is right.
LEMMA Starts ==
  ASSUME LocalIInv, NEW mode, NEW first \in {0, 1}, NEW t \in Tournaments, NEW extra \in Int,
         Sums(t, extra, TRUE), NEW p, Page(p),
         p.screen = "playing", p.board = NewBoard, p.turn = first, p.history = <<>>,
         p.anim = None, p.tournoi = t, p.extra = extra,
         p.tutor = app.tutor, p.ai = app.ai, p.hint = None
  PROVE  PageOK(p) /\ Kind(p)
<1>1. AppTypeOK(p)
  <2>1. <<>> \in Seq(Entries)
    OBVIOUS
  <2> QED BY <2>1, NewBoardType, Zenon DEF AppTypeOK
<1>2. Moved(p)
  BY Zenon DEF Moved
<1>3. Scores(p)
  <2>1. p.screen # "gameover"
    OBVIOUS
  <2> QED BY <2>1 DEF Scores
<1>4. Story(p)
  <2>1. Played(p) = <<>>
    BY NewBoardType, Zenon DEF Played
  <2> QED BY <2>1, HistoryBegins, Zenon DEF Story
<1>5. Kind(p)
  BY Zenon DEF Kind
<1> QED BY <1>1, <1>2, <1>3, <1>4, <1>5 DEF PageOK

LEMMA StartedFrame ==
  ASSUME NEW r, Page(r), NEW mode, NEW first, NEW q, q = Started(r, mode, first)
  PROVE  /\ Page(q)
         /\ q.screen = "playing" /\ q.board = NewBoard /\ q.turn = first
         /\ q.history = <<>> /\ q.anim = None /\ q.hint = None /\ q.tournoi = r.tournoi
         /\ q.extra = r.extra /\ q.tutor = r.tutor /\ q.ai = r.ai
<1> DEFINE r0 == NewSession(r)
<1>1. /\ Page(r0) /\ r0.anim = None /\ r0.tournoi = r.tournoi /\ r0.extra = r.extra
      /\ r0.tutor = r.tutor /\ r0.ai = r.ai
  BY Zenon DEF Page, Fields, NewSession
<1>2. q = [r0 EXCEPT
     !.screen = "playing", !.mode = mode, !.board = NewBoard, !.turn = first,
     !.history = <<>>, !.thinking = FALSE, !.animating = FALSE, !.timer = TRUE,
     !.dialog = FALSE, !.hint = None, !.origin = "new"]
  BY Zenon DEF Started
<1> HIDE DEF r0
<1>3. Page(q) /\ q.screen = "playing" /\ q.board = NewBoard /\ q.turn = first
  BY <1>1, <1>2, Zenon DEF Page, Fields
<1>4. q.history = <<>> /\ q.anim = r0.anim /\ q.hint = None /\ q.tournoi = r0.tournoi
  BY <1>1, <1>2, Zenon DEF Page, Fields
<1>5. q.extra = r0.extra /\ q.tutor = r0.tutor /\ q.ai = r0.ai
  BY <1>1, <1>2, Zenon DEF Page, Fields
<1> QED BY <1>1, <1>3, <1>4, <1>5, Zenon

LEMMA AppPage == ASSUME LocalIInv PROVE Page(app) /\ AppTypeOK(app)
BY DEF LocalIInv, PageOK, AppTypeOK

LEMMA StartGameStep == ASSUME LocalIInv, StartGame PROVE LocalIInv'
<1>1. PICK mode \in Modes \ {"Tournoi"} :
        Commit([Started(app, mode, 0) EXCEPT !.tournoi = NoTournament, !.extra = 0])
  BY Zenon DEF StartGame
<1> DEFINE p == [Started(app, mode, 0) EXCEPT !.tournoi = NoTournament, !.extra = 0]
<1>2. Page(app)
  BY AppPage
<1>3. /\ Page(p) /\ p.screen = "playing" /\ p.board = NewBoard /\ p.turn = 0 /\ p.history = <<>>
      /\ p.anim = None /\ p.hint = None /\ p.tutor = app.tutor /\ p.ai = app.ai
      /\ p.tournoi = NoTournament /\ p.extra = 0
  <2> DEFINE s == Started(app, mode, 0)
  <2>1. /\ Page(s)
        /\ s.screen = "playing" /\ s.board = NewBoard /\ s.turn = 0
        /\ s.history = <<>> /\ s.anim = None /\ s.hint = None /\ s.tournoi = app.tournoi
        /\ s.extra = app.extra /\ s.tutor = app.tutor /\ s.ai = app.ai
    <3>1. s = Started(app, mode, 0) /\ Page(app)
      BY <1>2
    <3> HIDE DEF s
    <3> QED BY <3>1, StartedFrame
  <2>2. p = [s EXCEPT !.tournoi = NoTournament, !.extra = 0]
    BY <2>1
  <2> HIDE DEF s, p
  <2>3. Page(p) /\ p.screen = s.screen /\ p.board = s.board /\ p.turn = s.turn
    BY <2>1, <2>2, Zenon DEF Page, Fields
  <2>4. p.history = s.history /\ p.anim = s.anim /\ p.hint = s.hint
    BY <2>1, <2>2, Zenon DEF Page, Fields
  <2>5. p.tutor = s.tutor /\ p.ai = s.ai /\ p.tournoi = NoTournament /\ p.extra = 0
    BY <2>1, <2>2, Zenon DEF Page, Fields
  <2> QED BY <2>1, <2>3, <2>4, <2>5, Zenon
<1>4. Commit(p) /\ UNCHANGED save
  BY <1>1 DEF StartGame
<1>5. Sums(NoTournament, 0, TRUE)
  BY NoTournamentType, Zenon DEF Sums
<1> HIDE DEF p
<1>6. PageOK(p) /\ Kind(p)
  <2>1. 0 \in {0, 1} /\ 0 \in Int
    OBVIOUS
  <2> QED BY <1>3, <1>5, <2>1, NoTournamentType, Starts
<1> QED BY <1>4, <1>6, Committed

LEMMA StartTournamentStep == ASSUME LocalIInv, StartTournament PROVE LocalIInv'
<1>1. PICK n \in Rounds :
        Commit([Started(app, "Tournoi", 0) EXCEPT
                  !.tournoi = [NoTournament EXCEPT !.actif = TRUE, !.total = n], !.extra = 0])
  BY Zenon DEF StartTournament
<1> DEFINE t == [NoTournament EXCEPT !.actif = TRUE, !.total = n]
           p == [Started(app, "Tournoi", 0) EXCEPT !.tournoi = t, !.extra = 0]
<1>2. t \in Tournaments /\ Sums(t, 0, TRUE)
  <2>1. /\ NoTournament \in Tournaments
        /\ NoTournament.manche = 1 /\ NoTournament.scores = <<0, 0>>
    BY NoTournamentType DEF NoTournament
  <2>2. t \in Tournaments
    BY <2>1 DEF Tournaments
  <2>3. t.manche = 1 /\ t.scores[1] = 0 /\ t.scores[2] = 0
    BY <2>1 DEF Tournaments
  <2> QED BY <2>2, <2>3 DEF Sums
<1>3. Commit(p) /\ UNCHANGED save /\ Page(app)
  BY <1>1, AppPage DEF StartTournament
<1> HIDE DEF t
<1>4. /\ Page(p) /\ p.screen = "playing" /\ p.board = NewBoard /\ p.turn = 0 /\ p.history = <<>>
      /\ p.anim = None /\ p.hint = None /\ p.tutor = app.tutor /\ p.ai = app.ai
      /\ p.tournoi = t /\ p.extra = 0
  <2> DEFINE s == Started(app, "Tournoi", 0)
  <2>1. /\ Page(s)
        /\ s.screen = "playing" /\ s.board = NewBoard /\ s.turn = 0
        /\ s.history = <<>> /\ s.anim = None /\ s.hint = None /\ s.tournoi = app.tournoi
        /\ s.extra = app.extra /\ s.tutor = app.tutor /\ s.ai = app.ai
    <3>1. s = Started(app, "Tournoi", 0) /\ Page(app)
      BY <1>3
    <3> HIDE DEF s
    <3> QED BY <3>1, StartedFrame
  <2>2. p = [s EXCEPT !.tournoi = t, !.extra = 0]
    BY <2>1
  <2> HIDE DEF s, p
  <2>3. Page(p) /\ p.screen = s.screen /\ p.board = s.board /\ p.turn = s.turn
    BY <2>1, <2>2, Zenon DEF Page, Fields
  <2>4. p.history = s.history /\ p.anim = s.anim /\ p.hint = s.hint
    BY <2>1, <2>2, Zenon DEF Page, Fields
  <2>5. p.tutor = s.tutor /\ p.ai = s.ai /\ p.tournoi = t /\ p.extra = 0
    BY <2>1, <2>2, Zenon DEF Page, Fields
  <2> QED BY <2>1, <2>3, <2>4, <2>5, Zenon
<1> HIDE DEF p
<1>5. PageOK(p) /\ Kind(p)
  <2>1. 0 \in {0, 1} /\ 0 \in Int
    OBVIOUS
  <2> QED BY <1>2, <1>4, <2>1, Starts
<1> QED BY <1>3, <1>5, Committed

LEMMA NextTournamentRoundStep == ASSUME LocalIInv, NextTournamentRound PROVE LocalIInv'
<1> DEFINE next == app.tournoi.manche + 1
           first == (next - 1) % 2
           t == [app.tournoi EXCEPT !.manche = next]
           p == [Started(app, "Tournoi", first) EXCEPT !.tournoi.manche = next]
<1>1. Commit(p) /\ UNCHANGED save /\ app.screen = "gameover"
  BY Zenon DEF NextTournamentRound
<1>2. Page(app) /\ app.tournoi \in Tournaments /\ app.extra \in Int
      /\ Sums(app.tournoi, app.extra, FALSE)
  BY <1>1, AppPage DEF AppTypeOK, LocalIInv, PageOK, Scores
<1>3. next \in Int /\ first \in {0, 1}
  BY <1>2 DEF Tournaments
<1>4. t \in Tournaments /\ Sums(t, app.extra, TRUE)
  BY <1>2 DEF Tournaments, Sums
<1> HIDE DEF next, first
<1>5. /\ Page(p) /\ p.screen = "playing" /\ p.board = NewBoard /\ p.turn = first
      /\ p.history = <<>> /\ p.anim = None /\ p.hint = None /\ p.tutor = app.tutor
      /\ p.ai = app.ai /\ p.tournoi = t /\ p.extra = app.extra
  <2> DEFINE s == Started(app, "Tournoi", first)
  <2>1. /\ Page(s)
        /\ s.screen = "playing" /\ s.board = NewBoard /\ s.turn = first
        /\ s.history = <<>> /\ s.anim = None /\ s.hint = None /\ s.tournoi = app.tournoi
        /\ s.extra = app.extra /\ s.tutor = app.tutor /\ s.ai = app.ai
    <3>1. s = Started(app, "Tournoi", first) /\ Page(app)
      BY <1>2
    <3> HIDE DEF s
    <3> QED BY <3>1, StartedFrame
  <2>2. p = [s EXCEPT !.tournoi = t]
    BY <2>1
  <2> HIDE DEF s, p, t
  <2>3. Page(p) /\ p.screen = s.screen /\ p.board = s.board /\ p.turn = s.turn
    BY <2>1, <2>2, Zenon DEF Page, Fields
  <2>4. p.history = s.history /\ p.anim = s.anim /\ p.hint = s.hint
    BY <2>1, <2>2, Zenon DEF Page, Fields
  <2>5. p.tutor = s.tutor /\ p.ai = s.ai /\ p.tournoi = t /\ p.extra = s.extra
    BY <2>1, <2>2, Zenon DEF Page, Fields
  <2> QED BY <2>1, <2>3, <2>4, <2>5, Zenon
<1> HIDE DEF p, t
<1>6. PageOK(p) /\ Kind(p)
  BY <1>2, <1>3, <1>4, <1>5, Starts
<1> QED BY <1>1, <1>6, Committed

LEMMA RestartGameStep == ASSUME LocalIInv, RestartGame PROVE LocalIInv'
<1> DEFINE t == IF app.mode = "Tournoi" THEN app.tournoi ELSE NoTournament
           extra == IF app.tournoi.actif THEN app.extra + 1 ELSE app.extra
           p == [Started(app, app.mode, 0) EXCEPT
                   !.tournoi = IF app.mode = "Tournoi" THEN @ ELSE NoTournament,
                   !.extra = IF app.tournoi.actif THEN @ + 1 ELSE @]
<1>1. Commit(p) /\ UNCHANGED save /\ app.screen = "gameover"
  BY Zenon DEF RestartGame, Over
<1>2. /\ Page(app) /\ app.tournoi \in Tournaments /\ app.extra \in Int
      /\ Sums(app.tournoi, app.extra, FALSE)
  BY <1>1, AppPage DEF AppTypeOK, LocalIInv, PageOK, Scores
<1>3. t \in Tournaments /\ extra \in Int /\ Sums(t, extra, TRUE)
  BY <1>2, NoTournamentType DEF Sums, Tournaments
<1>4. /\ Page(p) /\ p.screen = "playing" /\ p.board = NewBoard /\ p.turn = 0 /\ p.history = <<>>
      /\ p.anim = None /\ p.hint = None /\ p.tutor = app.tutor /\ p.ai = app.ai
      /\ p.tournoi = t /\ p.extra = extra
  <2> DEFINE s == Started(app, app.mode, 0)
  <2>1. /\ Page(s)
        /\ s.screen = "playing" /\ s.board = NewBoard /\ s.turn = 0
        /\ s.history = <<>> /\ s.anim = None /\ s.hint = None /\ s.tournoi = app.tournoi
        /\ s.extra = app.extra /\ s.tutor = app.tutor /\ s.ai = app.ai
    <3>1. s = Started(app, app.mode, 0) /\ Page(app)
      BY <1>2
    <3> HIDE DEF s
    <3> QED BY <3>1, StartedFrame
  <2>2. p = [s EXCEPT !.tournoi = t, !.extra = extra]
    BY <2>1
  <2> HIDE DEF s, p, t, extra
  <2>3. Page(p) /\ p.screen = s.screen /\ p.board = s.board /\ p.turn = s.turn
    BY <2>1, <2>2, Zenon DEF Page, Fields
  <2>4. p.history = s.history /\ p.anim = s.anim /\ p.hint = s.hint
    BY <2>1, <2>2, Zenon DEF Page, Fields
  <2>5. p.tutor = s.tutor /\ p.ai = s.ai /\ p.tournoi = t /\ p.extra = extra
    BY <2>1, <2>2, Zenon DEF Page, Fields
  <2> QED BY <2>1, <2>3, <2>4, <2>5, Zenon
<1> HIDE DEF p, t, extra
<1>5. PageOK(p) /\ Kind(p)
  <2>1. 0 \in {0, 1}
    OBVIOUS
  <2> QED BY <1>2, <1>3, <1>4, <2>1, Starts
<1> QED BY <1>1, <1>5, Committed

LEMMA ResetToMenuStep == ASSUME LocalIInv, ResetToMenu PROVE LocalIInv'
<1> DEFINE p == [NewSession(app) EXCEPT !.screen = "menu", !.mode = "PvE",
                   !.tournoi = NoTournament, !.history = <<>>]
<1>1. Commit(p) /\ UNCHANGED save
  BY Zenon DEF ResetToMenu, Over
<1>2. AppTypeOK(app) /\ Page(app)
  BY AppPage
<1>3. /\ Page(p) /\ p.screen = "menu" /\ p.board = app.board /\ p.turn = app.turn
      /\ p.history = <<>> /\ p.anim = None /\ p.hint = app.hint /\ p.tutor = app.tutor
      /\ p.ai = app.ai /\ p.tournoi = NoTournament /\ p.extra = app.extra
  BY <1>2, Zenon DEF Page, Fields, NewSession
<1> HIDE DEF p
<1>4. AppTypeOK(p)
  <2>1. <<>> \in Seq(Entries)
    OBVIOUS
  <2> QED BY <1>2, <1>3, <2>1, NoTournamentType, Zenon DEF AppTypeOK
<1>5. Moved(p) /\ Kind(p)
  BY <1>3, Zenon DEF Moved, Kind
<1>6. Scores(p)
  BY <1>3, NoTournamentType, Zenon DEF Scores, Sums
<1>7. Story(p)
  BY <1>3, HistoryBegins, Zenon DEF Story
<1>8. PageOK(p)
  BY <1>4, <1>5, <1>6, <1>7 DEF PageOK
<1> QED BY <1>1, <1>5, <1>8, Committed

------------------------------------------------------------------------------
\* Moving.

\* A move is begun where nothing is animated.
LEMMA Begins ==
  ASSUME NoneIsNoStep, LocalIInv, app.screen = "playing", ~app.animating, NEW p, Page(p),
         p.screen = app.screen, p.board = app.board, p.turn = app.turn,
         p.history = Append(app.history, [board |-> app.board, turn |-> app.turn]),
         p.anim = [from |-> app.board, by |-> app.turn], p.animating,
         p.tournoi = app.tournoi, p.extra = app.extra, p.origin = app.origin,
         p.tutor = app.tutor, p.ai = app.ai, p.hint \in {app.hint, None}
  PROVE  PageOK(p) /\ Kind(p)
<1>1. AppTypeOK(app) /\ Moved(app) /\ Scores(app) /\ Story(app)
  BY DEF LocalIInv, PageOK
<1>2. app.anim = None
  BY <1>1 DEF Moved
<1> DEFINE h == app.history
           b == app.board
           t == app.turn
           e == [board |-> b, turn |-> t]
           a == [from |-> b, by |-> t]
<1>3. h \in Seq(Entries) /\ b \in Boards /\ t \in {0, 1}
  BY <1>1 DEF AppTypeOK
<1>4. a \in Steps /\ a.from = b /\ a.by = t
  BY <1>3 DEF Steps
<1>5. AppTypeOK(p)
  <2>1. Append(h, e) \in Seq(Entries)
    BY <1>3 DEF Entries
  <2> HIDE DEF e, a
  <2>2. p.history \in Seq(Entries) /\ p.anim \in Steps
    BY <1>4, <2>1 DEF e, a
  <2> QED BY <1>1, <2>2, Zenon DEF AppTypeOK
<1>6. Moved(p) /\ Kind(p)
  BY Zenon DEF Moved, Kind
<1>7. Scores(p)
  BY <1>1, Zenon DEF Scores
<1>8. ASSUME p.origin # "mixed"
      PROVE  /\ Chronicle(p.history)
             /\ p.anim # None => p.anim.from = p.board
             /\ p.screen = "playing" /\ ~p.board.torn
                  => Replays(p.history, Len(p.history), Played(p))
  <2>1. Chronicle(h) /\ (~b.torn => Replays(h, Len(h), b.moves))
    BY <1>1, <1>2, <1>8, Zenon DEF Story, Played
  <2>2. p.history = Append(h, e) /\ p.anim = a
    OBVIOUS
  <2> HIDE DEF h, b, t, e, a
  <2>3. e = [board |-> b, turn |-> t]
    BY DEF e
  <2>4. /\ Chronicle(Append(h, e))
        /\ ~b.torn => Replays(Append(h, e), Len(Append(h, e)), Append(b.moves, t))
    BY <1>3, <2>1, <2>3, HistoryGrows
  <2>5. p.board = b /\ p.anim.by = t /\ p.anim.from = b
    BY <1>4, <2>2 DEF b
  <2>7. p.anim # None
    BY <1>4, <2>2 DEF NoneIsNoStep
  <2> QED BY <2>2, <2>4, <2>5, <2>7, Zenon DEF Played
<1>9. Story(p)
  BY <1>8, Zenon DEF Story
<1> QED BY <1>5, <1>6, <1>7, <1>9 DEF PageOK

LEMMA ClickStep == ASSUME NoneIsNoStep, LocalIInv, Click PROVE LocalIInv'
<1> DEFINE hint == IF app.mode = "Apprenti" THEN None ELSE app.hint
           p == [Moving(app) EXCEPT !.hint = IF app.mode = "Apprenti" THEN None ELSE @]
<1>1. Commit(p) /\ UNCHANGED save /\ app.screen = "playing" /\ ~app.animating
  BY Zenon DEF Click, CanPlay, Playing
<1>2. Page(app) /\ hint \in {app.hint, None}
  BY AppPage
<1> HIDE DEF hint
<1> DEFINE q == Moving(app)
<1>3. /\ Page(q) /\ q.screen = app.screen /\ q.board = app.board /\ q.turn = app.turn
      /\ q.history = Append(app.history, [board |-> app.board, turn |-> app.turn])
      /\ q.anim = [from |-> app.board, by |-> app.turn] /\ q.animating
      /\ q.tournoi = app.tournoi /\ q.extra = app.extra /\ q.origin = app.origin
      /\ q.tutor = app.tutor /\ q.ai = app.ai /\ q.hint = app.hint
  BY <1>2, Zenon DEF Page, Fields, Moving
<1>4. p = [q EXCEPT !.hint = hint]
  BY <1>3, Zenon DEF hint
<1> HIDE DEF q, p
<1>5. /\ Page(p) /\ p.screen = app.screen /\ p.board = app.board /\ p.turn = app.turn
      /\ p.history = Append(app.history, [board |-> app.board, turn |-> app.turn])
      /\ p.anim = [from |-> app.board, by |-> app.turn] /\ p.animating
      /\ p.tournoi = app.tournoi /\ p.extra = app.extra /\ p.origin = app.origin
      /\ p.tutor = app.tutor /\ p.ai = app.ai /\ p.hint = hint
  BY <1>3, <1>4, Zenon DEF Page, Fields
<1>6. PageOK(p) /\ Kind(p)
  BY <1>1, <1>2, <1>5, Begins
<1> QED BY <1>1, <1>6, Committed

\* Only tasks, flags and the clock change.
LEMMA Idles ==
  ASSUME LocalIInv, NEW p, Page(p),
         p.screen = app.screen, p.board = app.board, p.turn = app.turn,
         p.history = app.history, p.anim = app.anim, p.animating = app.animating,
         p.tournoi = app.tournoi, p.extra = app.extra, p.origin = app.origin,
         p.tutor = app.tutor, p.ai = app.ai, p.hint = app.hint
  PROVE  PageOK(p) /\ Kind(p)
<1>1. AppTypeOK(app) /\ Moved(app) /\ Scores(app) /\ Story(app)
  BY DEF LocalIInv, PageOK
<1>2. AppTypeOK(p)
  BY <1>1, Zenon DEF AppTypeOK
<1>3. Moved(p) /\ Kind(p)
  BY <1>1, Zenon DEF Moved, Kind
<1>4. Scores(p)
  BY <1>1, Zenon DEF Scores
<1>5. Story(p)
  BY <1>1, Zenon DEF Story, Played
<1> QED BY <1>2, <1>3, <1>4, <1>5 DEF PageOK

\* The flags and tasks of a handler that touches nothing else.
LEMMA IdleStep ==
  ASSUME LocalIInv, UNCHANGED save,
         \/ Commit([app EXCEPT !.timer = FALSE])
         \/ Commit([app EXCEPT !.dialog = TRUE])
         \/ Commit([app EXCEPT !.dialog = FALSE])
         \/ Commit([app EXCEPT !.loading = FALSE])
  PROVE  LocalIInv'
<1> DEFINE Alike(p) ==
      /\ Page(p) /\ p.screen = app.screen /\ p.board = app.board /\ p.turn = app.turn
      /\ p.history = app.history /\ p.anim = app.anim /\ p.animating = app.animating
      /\ p.tournoi = app.tournoi /\ p.extra = app.extra /\ p.origin = app.origin
      /\ p.tutor = app.tutor /\ p.ai = app.ai /\ p.hint = app.hint
<1>1. Page(app)
  BY AppPage
<1>2. PICK p : Alike(p) /\ Commit(p)
  <2>1. CASE Commit([app EXCEPT !.timer = FALSE])
    <3>1. Alike([app EXCEPT !.timer = FALSE])
      BY <1>1, Zenon DEF Page, Fields
    <3> QED BY <2>1, <3>1, Zenon
  <2>2. CASE Commit([app EXCEPT !.dialog = TRUE])
    <3>1. Alike([app EXCEPT !.dialog = TRUE])
      BY <1>1, Zenon DEF Page, Fields
    <3> QED BY <2>2, <3>1, Zenon
  <2>3. CASE Commit([app EXCEPT !.dialog = FALSE])
    <3>1. Alike([app EXCEPT !.dialog = FALSE])
      BY <1>1, Zenon DEF Page, Fields
    <3> QED BY <2>3, <3>1, Zenon
  <2>4. CASE Commit([app EXCEPT !.loading = FALSE])
    <3>1. Alike([app EXCEPT !.loading = FALSE])
      BY <1>1, Zenon DEF Page, Fields
    <3> QED BY <2>4, <3>1, Zenon
  <2> QED BY <2>1, <2>2, <2>3, <2>4
<1>3. PageOK(p) /\ Kind(p)
  BY <1>2, Idles
<1> QED BY <1>2, <1>3, Committed

LEMMA TimeUpStep == ASSUME NoneIsNoStep, LocalIInv, TimeUp PROVE LocalIInv'
<1>1. UNCHANGED save /\ app.screen = "playing"
  BY Zenon DEF TimeUp, Playing
<1>2. CASE ~app.animating /\ Commit(Moving(app))
  <2> DEFINE p == Moving(app)
  <2>1. Page(app)
    BY AppPage
  <2>2. /\ Page(p) /\ p.screen = app.screen /\ p.board = app.board /\ p.turn = app.turn
        /\ p.history = Append(app.history, [board |-> app.board, turn |-> app.turn])
        /\ p.anim = [from |-> app.board, by |-> app.turn] /\ p.animating
        /\ p.tournoi = app.tournoi /\ p.extra = app.extra /\ p.origin = app.origin
        /\ p.tutor = app.tutor /\ p.ai = app.ai /\ p.hint = app.hint
    BY <2>1, Zenon DEF Page, Fields, Moving
  <2> HIDE DEF p
  <2>3. PageOK(p) /\ Kind(p)
    BY <1>1, <1>2, <2>2, Begins
  <2>4. Commit(p)
    BY <1>2 DEF p
  <2> QED BY <1>1, <2>3, <2>4, Committed
<1>3. CASE app.animating /\ Commit([app EXCEPT !.timer = FALSE])
  BY <1>1, <1>3, IdleStep
<1> QED BY <1>2, <1>3 DEF TimeUp

LEMMA MachineAnswersStep == ASSUME NoneIsNoStep, LocalIInv, MachineAnswers PROVE LocalIInv'
<1> DEFINE p == [Moving(app) EXCEPT !.thinking = FALSE]
<1>1. Commit(p) /\ UNCHANGED save /\ app.ai # None
  BY Zenon DEF MachineAnswers
<1>2. Page(app) /\ app.screen = "playing" /\ ~app.animating
  BY <1>1, AppPage DEF LocalIInv, Thought
<1>3. /\ Page(p) /\ p.screen = app.screen /\ p.board = app.board /\ p.turn = app.turn
      /\ p.history = Append(app.history, [board |-> app.board, turn |-> app.turn])
      /\ p.anim = [from |-> app.board, by |-> app.turn] /\ p.animating
      /\ p.tournoi = app.tournoi /\ p.extra = app.extra /\ p.origin = app.origin
      /\ p.tutor = app.tutor /\ p.ai = app.ai /\ p.hint = app.hint
  BY <1>2, Zenon DEF Page, Fields, Moving
<1> HIDE DEF p
<1>4. PageOK(p) /\ Kind(p)
  BY <1>2, <1>3, Begins
<1> QED BY <1>1, <1>4, Committed

LEMMA TutorAnswersStep == ASSUME LocalIInv, TutorAnswers PROVE LocalIInv'
<1>1. /\ app.tutor # <<>> /\ UNCHANGED save
      /\ app' = [app EXCEPT !.hint = Head(app.tutor), !.tutor = Tail(app.tutor)]
  BY DEF TutorAnswers
<1>2. Page(app) /\ Asks(app) /\ app.tutor = <<app.board>>
  BY <1>1, AppPage DEF LocalIInv, Tutored
<1>3. Head(app.tutor) = app.board /\ Tail(app.tutor) = <<>>
  BY <1>2
<1>4. app' = [app EXCEPT !.hint = app.board, !.tutor = <<>>]
  BY <1>1, <1>3, Zenon
<1> DEFINE q == app'
<1>5. /\ Page(q) /\ q.screen = app.screen /\ q.board = app.board /\ q.turn = app.turn
      /\ q.history = app.history /\ q.anim = app.anim /\ q.animating = app.animating
      /\ q.tournoi = app.tournoi /\ q.extra = app.extra /\ q.origin = app.origin
      /\ q.tutor = <<>> /\ q.ai = app.ai /\ q.hint = app.board
  BY <1>2, <1>4, Zenon DEF Page, Fields
<1> HIDE DEF q
<1>6. AppTypeOK(app) /\ Moved(app) /\ Scores(app) /\ Story(app) /\ Thought(app)
  BY DEF LocalIInv, PageOK
<1>7. AppTypeOK(q)
  BY <1>5, <1>6, Zenon DEF AppTypeOK
<1>8. Moved(q) /\ Thought(q)
  BY <1>5, <1>6, Zenon DEF Moved, Thought
<1>9. Scores(q)
  BY <1>5, <1>6, Zenon DEF Scores
<1>a. Story(q)
  BY <1>5, <1>6, Zenon DEF Story, Played
<1>b. Tutored(q)
  BY <1>5, Zenon DEF Tutored
<1>c. SaveOK'
  BY <1>1 DEF LocalIInv, SaveOK
<1> QED BY <1>7, <1>8, <1>9, <1>a, <1>b, <1>c DEF LocalIInv, PageOK, q

------------------------------------------------------------------------------
\* The end of a move or of the game.

\* A round is over: one point, or one each in a tie.
LEMMA ScoredFrame ==
  ASSUME NEW r, Page(r), r.tournoi \in Tournaments, r.extra \in Int,
         Sums(r.tournoi, r.extra, TRUE), NEW fin \in 0..2, NEW q, q = Scored(r, fin)
  PROVE  /\ Page(q)
         /\ q.screen = r.screen /\ q.board = r.board /\ q.turn = r.turn
         /\ q.history = r.history /\ q.anim = r.anim /\ q.animating = r.animating
         /\ q.origin = r.origin /\ q.tutor = r.tutor /\ q.ai = r.ai /\ q.hint = r.hint
         /\ q.tournoi \in Tournaments /\ q.extra \in Int /\ Sums(q.tournoi, q.extra, FALSE)
<1> DEFINE x == IF fin \in {0, 2} THEN 1 ELSE 0
           y == IF fin \in {1, 2} THEN 1 ELSE 0
           z == IF fin = 2 THEN 1 ELSE 0
           old == r.tournoi
           t == [old EXCEPT !.scores = <<@[1] + x, @[2] + y>>]
           extra == r.extra + z
<1>1. \/ q = r /\ ~old.actif
      \/ q = [r EXCEPT !.tournoi.scores = <<@[1] + x, @[2] + y>>, !.extra = @ + z]
  BY Zenon DEF Scored
<1>2. x \in Int /\ y \in Int /\ z \in Int /\ x + y = 1 + z
  BY SMT
<1> HIDE DEF x, y, z
<1>3. CASE q = r /\ ~old.actif
  BY <1>3, Zenon DEF Sums
<1>4. CASE q = [r EXCEPT !.tournoi.scores = <<@[1] + x, @[2] + y>>, !.extra = @ + z]
  <2>1. /\ Page(q)
        /\ q.screen = r.screen /\ q.board = r.board /\ q.turn = r.turn
        /\ q.history = r.history /\ q.anim = r.anim /\ q.animating = r.animating
        /\ q.origin = r.origin /\ q.tutor = r.tutor /\ q.ai = r.ai /\ q.hint = r.hint
        /\ q.tournoi = t /\ q.extra = extra
    BY <1>4, Zenon DEF Page, Fields
  <2>2. old \in Tournaments /\ Sums(old, r.extra, TRUE) /\ r.extra \in Int
    OBVIOUS
  <2> HIDE DEF old
  <2>3. t \in Tournaments /\ extra \in Int
    BY <1>2, <2>2 DEF Tournaments
  <2>4. Sums(t, extra, FALSE)
    <3>1. /\ t.actif = old.actif /\ t.manche = old.manche
          /\ t.scores[1] = old.scores[1] + x /\ t.scores[2] = old.scores[2] + y
      BY <2>2 DEF Tournaments
    <3>2. old.scores[1] \in Int /\ old.scores[2] \in Int /\ old.manche \in Int
      BY <2>2 DEF Tournaments
    <3> HIDE DEF t
    <3> QED BY <1>2, <2>2, <3>1, <3>2 DEF Sums
  <2> HIDE DEF t, extra
  <2> QED BY <2>1, <2>3, <2>4, Zenon
<1> QED BY <1>1, <1>3, <1>4

LEMMA LandedBoard ==
  ASSUME NEW f \in Boards, NEW by \in {0, 1}, NEW b, b = [f EXCEPT !.moves = Append(@, by)]
  PROVE  b \in Boards /\ b.moves = Append(f.moves, by) /\ b.torn = f.torn
<1> DEFINE x == Append(f.moves, by)
<1>1. f.moves \in Seq({0, 1})
  BY DEF Boards
<1>2. x \in Seq({0, 1}) /\ b = [f EXCEPT !.moves = x]
  BY <1>1
<1> HIDE DEF x
<1>3. b \in Boards /\ b.moves = x /\ b.torn = f.torn
  BY <1>2, Zenon DEF Boards
<1> QED BY <1>3 DEF x

LEMMA EndMoveStep == ASSUME NoneIsNoStep, LocalIInv, EndMove PROVE LocalIInv'
<1> DEFINE f == app.anim.from
           by == app.anim.by
           b == [f EXCEPT !.moves = Append(@, by)]
           l == Landed
<1>1. AppTypeOK(app) /\ Moved(app) /\ Scores(app) /\ Story(app) /\ Page(app)
  BY AppPage DEF LocalIInv, PageOK
<1>2. app.anim # None /\ UNCHANGED save /\ app.screen = "playing"
  BY <1>1 DEF EndMove, Moved
<1>3. app.anim \in Steps
  BY <1>1, <1>2 DEF AppTypeOK
<1>4. f \in Boards /\ by \in {0, 1}
  BY <1>3 DEF Steps
<1>5. b \in Boards /\ b.moves = Append(f.moves, by) /\ b.torn = f.torn
  <2>1. b = [f EXCEPT !.moves = Append(@, by)]
    OBVIOUS
  <2> HIDE DEF f, by, b
  <2> QED BY <1>4, <2>1, LandedBoard
<1>6. /\ Page(l) /\ l.screen = app.screen /\ l.board = b /\ l.turn = app.turn
      /\ l.history = app.history /\ l.anim = None
      /\ l.tournoi = app.tournoi /\ l.extra = app.extra /\ l.origin = app.origin
      /\ l.tutor = app.tutor /\ l.ai = app.ai /\ l.hint = app.hint
  BY <1>1, Zenon DEF Page, Fields, Landed
<1>7. ASSUME app.origin # "mixed"
      PROVE  /\ Chronicle(app.history)
             /\ ~b.torn => Replays(app.history, Len(app.history), b.moves)
  <2>1. f = app.board
    BY <1>1, <1>2, <1>7, Zenon DEF Story
  <2>2. Chronicle(app.history) /\ (~f.torn => Replays(app.history, Len(app.history), Played(app)))
    BY <1>1, <1>2, <1>7, <2>1, Zenon DEF Story
  <2>3. Played(app) = Append(f.moves, by)
    BY <1>2, <2>1, Zenon DEF Played
  <2> HIDE DEF f, by, b
  <2> QED BY <1>5, <2>2, <2>3
<1>8. app.tournoi \in Tournaments /\ app.extra \in Int /\ Sums(app.tournoi, app.extra, TRUE)
      /\ app.history \in Seq(Entries) /\ app.turn \in {0, 1}
  <2>1. app.screen # "gameover"
    BY <1>2
  <2> QED BY <1>1, <2>1 DEF AppTypeOK, Scores
<1> HIDE DEF f, by, b, l
<1>9. CASE Commit([Landed EXCEPT !.turn = 1 - app.anim.by, !.timer = Timed(app, 1 - app.anim.by)])
  <2> DEFINE other == 1 - by
             timer == Timed(app, 1 - app.anim.by)
             p == [l EXCEPT !.turn = other, !.timer = timer]
  <2>1. Commit(p) /\ other \in {0, 1}
    BY <1>4, <1>9 DEF l, by
  <2> HIDE DEF other, timer
  <2>2. /\ Page(p) /\ p.screen = app.screen /\ p.board = b /\ p.turn = other
        /\ p.history = app.history /\ p.anim = None
        /\ p.tournoi = app.tournoi /\ p.extra = app.extra /\ p.origin = app.origin
        /\ p.tutor = app.tutor /\ p.ai = app.ai /\ p.hint = app.hint
    BY <1>6, Zenon DEF Page, Fields
  <2> HIDE DEF p
  <2>3. AppTypeOK(p)
    BY <1>1, <1>5, <1>8, <2>1, <2>2, Zenon DEF AppTypeOK
  <2>4. Moved(p) /\ Kind(p)
    BY <2>2, Zenon DEF Moved, Kind
  <2>5. Scores(p)
    BY <1>1, <2>2, Zenon DEF Scores
  <2>6. Story(p)
    BY <1>7, <2>2, Zenon DEF Story, Played
  <2>7. PageOK(p)
    BY <2>3, <2>4, <2>5, <2>6 DEF PageOK
  <2> QED BY <1>2, <2>1, <2>4, <2>7, Committed
<1>a. CASE \E fin \in 0..2 : Commit([Scored(Landed, fin) EXCEPT !.screen = "gameover"])
  <2>1. PICK fin \in 0..2 : Commit([Scored(Landed, fin) EXCEPT !.screen = "gameover"])
    BY <1>a
  <2> DEFINE s == Scored(l, fin)
             p == [s EXCEPT !.screen = "gameover"]
  <2>2. Commit(p)
    BY <2>1 DEF l
  <2>3. l.tournoi \in Tournaments /\ l.extra \in Int /\ Sums(l.tournoi, l.extra, TRUE)
    BY <1>6, <1>8
  <2>4. /\ Page(s)
        /\ s.screen = l.screen /\ s.board = l.board /\ s.turn = l.turn
        /\ s.history = l.history /\ s.anim = l.anim /\ s.animating = l.animating
        /\ s.origin = l.origin /\ s.tutor = l.tutor /\ s.ai = l.ai /\ s.hint = l.hint
        /\ s.tournoi \in Tournaments /\ s.extra \in Int /\ Sums(s.tournoi, s.extra, FALSE)
    BY <1>6, <2>3, ScoredFrame
  <2> HIDE DEF s
  <2>5. /\ Page(p) /\ p.screen = "gameover" /\ p.board = s.board /\ p.turn = s.turn
        /\ p.history = s.history /\ p.anim = s.anim
        /\ p.tournoi = s.tournoi /\ p.extra = s.extra /\ p.origin = s.origin
        /\ p.tutor = s.tutor /\ p.ai = s.ai /\ p.hint = s.hint
    BY <2>4, Zenon DEF Page, Fields
  <2>6. /\ p.board = b /\ p.turn = app.turn /\ p.history = app.history /\ p.anim = None
        /\ p.origin = app.origin /\ p.tutor = app.tutor /\ p.ai = app.ai /\ p.hint = app.hint
    BY <1>6, <2>4, <2>5, Zenon
  <2> HIDE DEF p
  <2>7. AppTypeOK(p)
    BY <1>5, <1>8, <2>4, <2>5, <2>6, Zenon DEF AppTypeOK
  <2>8. Moved(p) /\ Kind(p)
    BY <2>6, Zenon DEF Moved, Kind
  <2>9. Scores(p)
    <3>1. ~(p.screen # "gameover")
      BY <2>5
    <3> QED BY <2>4, <2>5, <3>1 DEF Scores
  <2>a. Story(p)
    <3>1. p.screen # "playing"
      BY <2>5
    <3> QED BY <1>7, <2>6, <3>1, Zenon DEF Story
  <2>b. PageOK(p)
    BY <2>7, <2>8, <2>9, <2>a DEF PageOK
  <2> QED BY <1>2, <2>2, <2>8, <2>b, Committed
<1> QED BY <1>9, <1>a, Zenon DEF EndMove

------------------------------------------------------------------------------
\* Taking back and giving up.

LEMMA HandleUndoStep == ASSUME LocalIInv, HandleUndo PROVE LocalIInv'
<1> DEFINE h == app.history
           target == Len(h) - StepBack(app) + 1
           back == h[target]
           g == SubSeq(h, 1, target - 1)
           p == [app EXCEPT !.board = back.board, !.turn = back.turn, !.hint = None,
                            !.history = Kept(app, target)]
<1>1. /\ Commit(p) /\ UNCHANGED save /\ app.screen = "playing" /\ ~app.animating
      /\ h # <<>>
  BY Zenon DEF HandleUndo, Playing
<1>2. AppTypeOK(app) /\ Moved(app) /\ Scores(app) /\ Story(app) /\ Page(app)
  BY AppPage DEF LocalIInv, PageOK
<1>3. h \in Seq(Entries)
  BY <1>2 DEF AppTypeOK
<1>4. target \in 1..Len(h)
  <2>1. Len(h) \in Nat \ {0}
    BY <1>1, <1>3
  <2>2. StepBack(app) = 1 \/ (StepBack(app) = 2 /\ Len(h) >= 2)
    BY DEF StepBack
  <2> QED BY <2>1, <2>2
<1>5. app.anim = None
  BY <1>1, <1>2 DEF Moved
<1> HIDE DEF target
<1>6. back \in Entries
  BY <1>3, <1>4
<1>7. back.board \in Boards /\ back.turn \in {0, 1}
  BY <1>6 DEF Entries
<1>8. g \in Seq(Entries)
  BY <1>3, <1>4
<1>9. ASSUME app.origin # "mixed"
      PROVE  Chronicle(g) /\ (~back.board.torn => Replays(g, Len(g), back.board.moves))
  <2>1. Chronicle(h)
    BY <1>2, <1>9, Zenon DEF Story
  <2>2. g = SubSeq(h, 1, target - 1)
    OBVIOUS
  <2> HIDE DEF h, g
  <2> QED BY <1>3, <1>4, <2>1, <2>2, HistoryShrinks
<1>a. Kept(app, target) = g
  BY DEF Kept
<1> HIDE DEF back, g
<1>b. /\ Page(p) /\ p.screen = app.screen /\ p.board = back.board /\ p.turn = back.turn
      /\ p.history = g /\ p.anim = None /\ p.tournoi = app.tournoi /\ p.extra = app.extra
      /\ p.origin = app.origin /\ p.tutor = app.tutor /\ p.ai = app.ai /\ p.hint = None
  BY <1>2, <1>5, <1>a, Zenon DEF Page, Fields
<1> HIDE DEF p
<1>c. AppTypeOK(p)
  BY <1>2, <1>7, <1>8, <1>b, Zenon DEF AppTypeOK
<1>d. Moved(p) /\ Kind(p)
  BY <1>b, Zenon DEF Moved, Kind
<1>e. Scores(p)
  BY <1>2, <1>b, Zenon DEF Scores
<1>f. Story(p)
  BY <1>9, <1>b, Zenon DEF Story, Played
<1>g. PageOK(p)
  BY <1>c, <1>d, <1>e, <1>f DEF PageOK
<1> QED BY <1>1, <1>d, <1>g, Committed

LEMMA ConfirmForfeitStep == ASSUME LocalIInv, ConfirmForfeit PROVE LocalIInv'
<1>1. PICK loser \in IF app.mode = "PvP" THEN 0..1 ELSE {0} :
        Commit([NewSession(Scored(app, 1 - loser)) EXCEPT
                  !.board = Visible(app), !.screen = "gameover", !.dialog = FALSE,
                  !.animating = FALSE, !.thinking = FALSE])
  BY Zenon DEF ConfirmForfeit
<1> DEFINE fin == 1 - loser
           s == Scored(app, fin)
           v == Visible(app)
           p == [NewSession(s) EXCEPT !.board = v, !.screen = "gameover", !.dialog = FALSE,
                                      !.animating = FALSE, !.thinking = FALSE]
<1>2. Commit(p) /\ fin \in 0..2
  <2>1. loser \in 0..1
    OBVIOUS
  <2> QED BY <1>1, <2>1
<1>3. AppTypeOK(app) /\ Scores(app) /\ Story(app) /\ Page(app)
  BY AppPage DEF LocalIInv, PageOK
<1>4. app.screen # "gameover" /\ UNCHANGED save
  BY DEF ConfirmForfeit, MayForfeit
<1>5. app.tournoi \in Tournaments /\ app.extra \in Int /\ Sums(app.tournoi, app.extra, TRUE)
  BY <1>3, <1>4 DEF AppTypeOK, Scores
<1> HIDE DEF fin
<1>6. /\ Page(s)
      /\ s.screen = app.screen /\ s.board = app.board /\ s.turn = app.turn
      /\ s.history = app.history /\ s.anim = app.anim /\ s.animating = app.animating
      /\ s.origin = app.origin /\ s.tutor = app.tutor /\ s.ai = app.ai /\ s.hint = app.hint
      /\ s.tournoi \in Tournaments /\ s.extra \in Int /\ Sums(s.tournoi, s.extra, FALSE)
  BY <1>2, <1>3, <1>5, ScoredFrame
<1>7. v \in Boards
  <2>1. app.board \in Boards
    BY <1>3 DEF AppTypeOK
  <2>2. [app.board EXCEPT !.torn = TRUE] \in Boards
    BY <2>1 DEF Boards
  <2> QED BY <2>1, <2>2, Zenon DEF Visible
<1> HIDE DEF s, v
<1>8. /\ Page(p) /\ p.screen = "gameover" /\ p.board = v /\ p.turn = s.turn
      /\ p.history = s.history /\ p.anim = None
      /\ p.tournoi = s.tournoi /\ p.extra = s.extra /\ p.origin = s.origin
      /\ p.tutor = s.tutor /\ p.ai = s.ai /\ p.hint = s.hint
  BY <1>6, Zenon DEF Page, Fields, NewSession
<1>9. /\ p.turn = app.turn /\ p.history = app.history /\ p.origin = app.origin
      /\ p.tutor = app.tutor /\ p.ai = app.ai /\ p.hint = app.hint
  BY <1>6, <1>8, Zenon
<1> HIDE DEF p
<1>a. AppTypeOK(p)
  BY <1>3, <1>6, <1>7, <1>8, <1>9, Zenon DEF AppTypeOK
<1>b. Moved(p) /\ Kind(p)
  BY <1>8, <1>9, Zenon DEF Moved, Kind
<1>c. Scores(p)
  <2>1. ~(p.screen # "gameover")
    BY <1>8
  <2> QED BY <1>6, <1>8, <2>1 DEF Scores
<1>d. Story(p)
  <2>1. p.screen # "playing"
    BY <1>8
  <2> QED BY <1>3, <1>8, <1>9, <2>1, Zenon DEF Story
<1>e. PageOK(p)
  BY <1>a, <1>b, <1>c, <1>d DEF PageOK
<1> QED BY <1>2, <1>4, <1>b, <1>e, Committed

------------------------------------------------------------------------------
\* Saving and loading.

LEMMA SaveGameStep == ASSUME NoneIsNoStep, LocalIInv, SaveGame PROVE LocalIInv'
<1> DEFINE s == [board |-> Visible(app), turn |-> app.turn, mode |-> app.mode,
                 tournoi |-> app.tournoi, history |-> app.history, extra |-> app.extra]
<1>1. /\ app.screen = "playing" /\ app.origin # "mixed" /\ ~app.board.torn
      /\ save' = s /\ UNCHANGED app
  BY Zenon DEF SaveGame, Playing
<1>2. AppTypeOK(app) /\ Scores(app) /\ Story(app)
  BY DEF LocalIInv, PageOK
<1>3. /\ s.board = Visible(app) /\ s.turn = app.turn /\ s.tournoi = app.tournoi
      /\ s.history = app.history /\ s.extra = app.extra
  BY Zenon
<1> HIDE DEF s
<1>4. app.board \in Boards /\ [app.board EXCEPT !.torn = TRUE] \in Boards
      /\ [app.board EXCEPT !.torn = TRUE].torn
  BY <1>2 DEF AppTypeOK, Boards
<1>5. Visible(app) \in Boards
  BY <1>4, Zenon DEF Visible
<1>6. Sums(app.tournoi, app.extra, TRUE)
  <2>1. app.screen # "gameover"
    BY <1>1
  <2> QED BY <1>2, <2>1 DEF Scores
<1>7. Chronicle(app.history) /\ Replays(app.history, Len(app.history), Played(app))
  BY <1>1, <1>2, Zenon DEF Story
<1>8. ASSUME ~s.board.torn
      PROVE  Replays(s.history, Len(s.history), s.board.moves)
  <2>1. app.anim = None
    BY <1>3, <1>4, <1>8, Zenon DEF Visible
  <2>2. s.board = app.board /\ Played(app) = app.board.moves
    BY <1>3, <2>1, Zenon DEF Visible, Played
  <2> QED BY <1>3, <1>7, <2>2, Zenon
<1>9. SaveOK'
  <2>1. app.turn \in {0, 1} /\ app.history \in Seq(Entries) /\ app.tournoi \in Tournaments
        /\ app.extra \in Int
    BY <1>2 DEF AppTypeOK
  <2> QED BY <1>1, <1>3, <1>5, <1>6, <1>7, <1>8, <2>1, Zenon DEF SaveOK
<1> QED BY <1>1, <1>9, Zenon DEF LocalIInv

LEMMA DeleteSaveStep == ASSUME LocalIInv, DeleteSave PROVE LocalIInv'
<1>1. UNCHANGED app /\ save' = None
  BY DEF DeleteSave
<1>2. SaveOK'
  BY <1>1 DEF SaveOK
<1> QED BY <1>1, <1>2, Zenon DEF LocalIInv

LEMMA LoadGameStep == ASSUME LocalIInv, LoadGame PROVE LocalIInv'
<1> DEFINE p == [NewSession(app) EXCEPT !.loading = TRUE]
<1>1. Commit(p) /\ UNCHANGED save /\ app.screen = "menu"
  BY Zenon DEF LoadGame
<1>2. app.anim = None /\ Page(app)
  BY <1>1, AppPage DEF LocalIInv, PageOK, Moved
<1>3. /\ Page(p) /\ p.screen = app.screen /\ p.board = app.board /\ p.turn = app.turn
      /\ p.history = app.history /\ p.anim = app.anim /\ p.animating = app.animating
      /\ p.tournoi = app.tournoi /\ p.extra = app.extra /\ p.origin = app.origin
      /\ p.tutor = app.tutor /\ p.ai = app.ai /\ p.hint = app.hint
  BY <1>2, Zenon DEF Page, Fields, NewSession
<1> HIDE DEF p
<1>4. PageOK(p) /\ Kind(p)
  BY <1>3, Idles
<1> QED BY <1>1, <1>4, Committed

LEMMA LoadArrivesStep == ASSUME LocalIInv, LoadArrives PROVE LocalIInv'
<1> DEFINE origin == IF app.screen = "menu" THEN "save" ELSE "mixed"
           p == [app EXCEPT !.loading = FALSE, !.board = save.board, !.turn = save.turn,
                   !.mode = save.mode, !.tournoi = save.tournoi, !.extra = save.extra,
                   !.history = save.history, !.screen = "playing",
                   !.origin = IF app.screen = "menu" THEN "save" ELSE "mixed"]
<1>1. UNCHANGED save
  BY DEF LoadArrives
<1>2. CASE save # None /\ Commit(p)
  <2>1. AppTypeOK(app) /\ Moved(app) /\ Page(app) /\ SaveOK
    BY AppPage DEF LocalIInv, PageOK
  <2>2. /\ Page(p) /\ p.screen = "playing" /\ p.board = save.board /\ p.turn = save.turn
        /\ p.history = save.history /\ p.anim = app.anim /\ p.animating = app.animating
        /\ p.tournoi = save.tournoi /\ p.extra = save.extra /\ p.origin = origin
        /\ p.tutor = app.tutor /\ p.ai = app.ai /\ p.hint = app.hint
    <3>1. p = [app EXCEPT !.loading = FALSE, !.board = save.board, !.turn = save.turn,
                 !.mode = save.mode, !.tournoi = save.tournoi, !.extra = save.extra,
                 !.history = save.history, !.screen = "playing", !.origin = origin]
      OBVIOUS
    <3> HIDE DEF p, origin
    <3>2. Page(p) /\ p.screen = "playing" /\ p.board = save.board /\ p.turn = save.turn
      BY <2>1, <3>1, Zenon DEF Page, Fields
    <3>3. p.history = save.history /\ p.anim = app.anim /\ p.animating = app.animating
      BY <2>1, <3>1, Zenon DEF Page, Fields
    <3>4. p.tournoi = save.tournoi /\ p.extra = save.extra /\ p.origin = origin
      BY <2>1, <3>1, Zenon DEF Page, Fields
    <3>5. p.tutor = app.tutor /\ p.ai = app.ai /\ p.hint = app.hint
      BY <2>1, <3>1, Zenon DEF Page, Fields
    <3> QED BY <3>2, <3>3, <3>4, <3>5
  <2>3. /\ save.board \in Boards /\ save.turn \in {0, 1} /\ save.history \in Seq(Entries)
        /\ save.tournoi \in Tournaments /\ save.extra \in Int
        /\ Sums(save.tournoi, save.extra, TRUE) /\ Chronicle(save.history)
        /\ ~save.board.torn => Replays(save.history, Len(save.history), save.board.moves)
    BY <1>2, <2>1, Zenon DEF SaveOK
  <2>4. Commit(p)
    BY <1>2
  <2>5. origin # "mixed" => app.anim = None
    BY <2>1, Zenon DEF Moved
  <2> HIDE DEF p, origin
  <2>6. AppTypeOK(p)
    BY <2>1, <2>2, <2>3, Zenon DEF AppTypeOK
  <2>7. Moved(p) /\ Kind(p)
    BY <2>1, <2>2, Zenon DEF Moved, Kind
  <2>8. Scores(p)
    <3>1. p.screen # "gameover"
      BY <2>2
    <3> QED BY <2>2, <2>3, <3>1 DEF Scores
  <2>9. Story(p)
    BY <2>2, <2>3, <2>5, Zenon DEF Story, Played
  <2>a. PageOK(p)
    BY <2>6, <2>7, <2>8, <2>9 DEF PageOK
  <2> QED BY <1>1, <2>4, <2>7, <2>a, Committed
<1>3. CASE save = None /\ Commit([app EXCEPT !.loading = FALSE])
  BY <1>1, <1>3, IdleStep
<1> QED BY <1>2, <1>3, Zenon DEF LoadArrives

------------------------------------------------------------------------------
LEMMA LocalInitIInv == LocalInit => LocalIInv
<1> SUFFICES ASSUME LocalInit PROVE LocalIInv
  OBVIOUS
<1>1. /\ Page(app) /\ app.screen = "menu" /\ app.board = NewBoard /\ app.turn = 0
      /\ app.history = <<>> /\ app.anim = None /\ app.ai = None /\ app.tutor = <<>>
      /\ app.hint = None /\ app.tournoi = NoTournament /\ app.extra = 0
  BY Zenon DEF LocalInit, Page, Fields
<1>2. AppTypeOK(app)
  <2>1. <<>> \in Seq(Entries) /\ 0 \in {0, 1} /\ 0 \in Int
    OBVIOUS
  <2> QED BY <1>1, <2>1, NewBoardType, NoTournamentType, Zenon DEF AppTypeOK
<1>3. Moved(app) /\ Thought(app) /\ Tutored(app)
  BY <1>1, Zenon DEF Moved, Thought, Tutored
<1>4. Scores(app)
  BY <1>1, NoTournamentType, Zenon DEF Scores, Sums
<1>5. Story(app)
  BY <1>1, HistoryBegins, Zenon DEF Story
<1>6. SaveOK
  BY DEF LocalInit, SaveOK
<1> QED BY <1>2, <1>3, <1>4, <1>5, <1>6 DEF LocalIInv, PageOK

LEMMA LocalNextStep ==
  ASSUME NoneIsNoStep, LocalIInv, [LocalNext]_localVars PROVE LocalIInv'
<1>1. CASE LocalNext
  <2>1. CASE IllegalClick \/ ForfeitDialog \/ CloseDialog
    <3>1. UNCHANGED save
      BY <2>1 DEF IllegalClick, ForfeitDialog, CloseDialog
    <3> QED BY <2>1, <3>1, IdleStep, Zenon DEF IllegalClick, ForfeitDialog, CloseDialog
  <2> QED BY <1>1, <2>1, StartGameStep, StartTournamentStep, NextTournamentRoundStep,
             RestartGameStep, ResetToMenuStep, ClickStep, TimeUpStep, MachineAnswersStep,
             TutorAnswersStep, EndMoveStep, HandleUndoStep, ConfirmForfeitStep, SaveGameStep,
             DeleteSaveStep, LoadGameStep, LoadArrivesStep, Zenon DEF LocalNext
<1>2. CASE UNCHANGED localVars
  BY <1>2, Zenon DEF localVars, LocalIInv, SaveOK
<1> QED BY <1>1, <1>2

LEMMA LocalInvariant == NoneIsNoStep => (LocalSpec => []LocalIInv)
<1> SUFFICES ASSUME NoneIsNoStep PROVE LocalSpec => []LocalIInv
  OBVIOUS
<1>1. LocalInit => LocalIInv
  BY LocalInitIInv
<1>2. LocalIInv /\ [LocalNext]_localVars => LocalIInv'
  BY LocalNextStep
<1> QED BY <1>1, <1>2, PTL DEF LocalSpec

\* Whatever is animated, calculated, taken back, given up, saved or loaded meanwhile, the
\* history is that of the game on the board: taking back finds each earlier position.
THEOREM HistoryAlwaysReplays == NoneIsNoStep => (LocalSpec => []HistoryReplays)
<1> SUFFICES ASSUME NoneIsNoStep PROVE LocalSpec => []HistoryReplays
  OBVIOUS
<1>1. LocalIInv => HistoryReplays
  <2> SUFFICES ASSUME LocalIInv, Playing(app), app.origin # "mixed", ~app.board.torn
               PROVE  /\ Len(app.history) = Len(Played(app))
                      /\ \A i \in 1..Len(Played(app)) :
                           /\ app.history[i].board.moves = SubSeq(Played(app), 1, i - 1)
                           /\ app.history[i].turn = Played(app)[i]
    BY Zenon DEF HistoryReplays, Played
  <2> DEFINE h == app.history
             m == Played(app)
  <2>1. Replays(h, Len(h), m) /\ h \in Seq(Entries) /\ AppTypeOK(app)
    BY Zenon DEF LocalIInv, PageOK, Story, AppTypeOK, Playing
  <2>2. m \in Seq({0, 1})
    <3>1. app.board.moves \in Seq({0, 1})
      BY <2>1 DEF AppTypeOK, Boards
    <3>2. CASE app.anim = None
      BY <3>1, <3>2 DEF Played
    <3>3. CASE app.anim # None
      <4>1. app.anim \in Steps
        BY <2>1, <3>3 DEF AppTypeOK
      <4>2. app.anim.by \in {0, 1}
        BY <4>1 DEF Steps
      <4> QED BY <3>1, <3>3, <4>2 DEF Played
    <3> QED BY <3>2, <3>3
  <2> HIDE DEF h, m
  <2>3. Len(m) = Len(h) /\ Len(h) \in Nat
    BY <2>1 DEF Replays
  <2>4. ASSUME NEW i \in 1..Len(m)
        PROVE  h[i].board.moves = SubSeq(m, 1, i - 1) /\ h[i].turn = m[i]
    <3>1. Precedes(h[i], i, m)
      BY <2>1, <2>3 DEF Replays
    <3>2. h[i].board.moves \in Seq({0, 1})
      <4>1. h[i] \in Entries
        BY <2>1, <2>3
      <4> QED BY <4>1 DEF Entries, Boards
    <3> DEFINE x == h[i].board.moves
    <3>3. x \in Seq({0, 1}) /\ Len(x) = i - 1 /\ \A j \in 1..(i - 1) : x[j] = m[j]
      BY <3>1, <3>2 DEF Precedes
    <3>4. h[i].turn = m[i]
      BY <3>1 DEF Precedes
    <3> HIDE DEF x
    <3>5. x = SubSeq(m, 1, i - 1)
      BY <2>2, <2>3, <3>3
    <3> QED BY <3>4, <3>5 DEF x
  <2> QED BY <2>3, <2>4 DEF h, m
<1> QED BY <1>1, LocalInvariant, PTL

\* Every round of a tournament is scored once, whether a move or a forfeit ended it,
\* and once more each time a finished tournament is started over with its last round.
THEOREM RoundsScoredOnce == NoneIsNoStep => (LocalSpec => []ScoredOnce)
<1> SUFFICES ASSUME NoneIsNoStep PROVE LocalSpec => []ScoredOnce
  OBVIOUS
<1>1. LocalIInv => ScoredOnce
  <2> SUFFICES ASSUME LocalIInv PROVE ScoredOnce
    OBVIOUS
  <2>1. Scores(app) /\ app.tournoi \in Tournaments /\ app.extra \in Int
    BY DEF LocalIInv, PageOK, AppTypeOK
  <2>2. app.tournoi.manche \in Int
    BY <2>1 DEF Tournaments
  <2>3. CASE app.screen = "gameover"
    <3>1. Sums(app.tournoi, app.extra, FALSE)
      BY <2>1, <2>3 DEF Scores
    <3> QED BY <2>2, <2>3, <3>1 DEF ScoredOnce, Sums
  <2>4. CASE app.screen # "gameover"
    <3>1. Sums(app.tournoi, app.extra, TRUE)
      BY <2>1, <2>4 DEF Scores
    <3> QED BY <2>2, <2>4, <3>1 DEF ScoredOnce, Sums
  <2> QED BY <2>3, <2>4
<1> QED BY <1>1, LocalInvariant, PTL

\* A hint the apprentice sees when he can move is for the position on the board.
THEOREM HintAlwaysCurrent == NoneIsNoStep => (LocalSpec => []HintIsCurrent)
<1> SUFFICES ASSUME NoneIsNoStep PROVE LocalSpec => []HintIsCurrent
  OBVIOUS
<1>1. LocalIInv => HintIsCurrent
  BY Zenon DEF LocalIInv, Tutored, Asks, HintIsCurrent, CanPlay, Playing
<1> QED BY <1>1, LocalInvariant, PTL

------------------------------------------------------------------------------
\* THE BOARD OF A MATCH.

States == [version : Nat, status : {"ACTIVE", "COMPLETED"}]

ServedPages ==
  [version : Nat, status : {"ACTIVE", "COMPLETED"}, socket : {"open", "closed"},
   asked : {None, "play", "forfeit"},
   consumer : {"gone", "connect", "greet", "idle", "committed", "read"},
   read : States \cup {None}]

ServedMatches ==
  [version : Nat, status : {"ACTIVE", "COMPLETED"}, announced : Nat, overtaken : BOOLEAN]

ServedTypeOK ==
  /\ match \in ServedMatches
  /\ boards \in [Served!Players -> ServedPages]
  /\ inbox \in [Served!Players -> Seq(States)]

\* What was sent, or is read to be sent, is no later than the match.
NotAhead ==
  /\ match.announced <= match.version
  /\ \A p \in Served!Players : boards[p].consumer = "read" =>
       boards[p].read \in States /\ boards[p].read.version <= match.version

\* The group holds nothing for a consumer that is not in it; for one that is, the
\* last it holds is the latest sent; when it holds nothing, and has greeted, the
\* page shows it.
Abreast(p) ==
  /\ boards[p].consumer \in {"gone", "connect"} => inbox[p] = <<>>
  /\ ~match.overtaken /\ inbox[p] # <<>> =>
       inbox[p][Len(inbox[p])].version >= match.announced
  /\ ~match.overtaken /\ inbox[p] = <<>> /\ boards[p].socket = "open"
       /\ boards[p].consumer \notin {"gone", "connect", "greet"} =>
       boards[p].version >= match.announced

ServedInv == ServedTypeOK /\ NotAhead /\ \A p \in Served!Players : Abreast(p)

\* Steps that change one page and nothing else that Abreast looks at.
LEMMA PageStep ==
  ASSUME ServedInv, NEW p \in Served!Players, NEW b,
         Served!Become(p, b), UNCHANGED <<match, inbox>>,
         b \in ServedPages,
         b.consumer = "read" => b.read \in States /\ b.read.version <= match.version,
         b.consumer \in {"gone", "connect"} => inbox[p] = <<>>,
         ~match.overtaken /\ inbox[p] = <<>> /\ b.socket = "open"
           /\ b.consumer \notin {"gone", "connect", "greet"} => b.version >= match.announced
  PROVE  ServedInv'
<1>1. /\ boards'[p] = b
      /\ \A q \in Served!Players \ {p} : boards'[q] = boards[q]
  BY Zenon DEF Served!Become, ServedInv, ServedTypeOK
<1>2. \A q \in Served!Players : q = p \/ q \in Served!Players \ {p}
  OBVIOUS
<1>3. ServedTypeOK'
  BY DEF ServedInv, ServedTypeOK, Served!Become
<1>4. NotAhead'
  BY <1>1, <1>2, Zenon DEF ServedInv, NotAhead
<1>5. ASSUME NEW q \in Served!Players PROVE Abreast(q)'
  <2>1. CASE q = p
    BY <1>1, <2>1 DEF ServedInv, Abreast
  <2>2. CASE q # p
    BY <1>1, <2>2 DEF ServedInv, Abreast
  <2> QED BY <2>1, <2>2
<1> QED BY <1>3, <1>4, <1>5 DEF ServedInv



\* A page and its consumer, and the match.
LEMMA PageTyped ==
  ASSUME ServedInv
  PROVE  /\ \A p \in Served!Players : boards[p] \in ServedPages
         /\ match \in ServedMatches /\ match.version \in Nat /\ match.announced \in Nat
         /\ match.status \in {"ACTIVE", "COMPLETED"} /\ match.announced <= match.version
<1>1. match \in ServedMatches /\ \A p \in Served!Players : boards[p] \in ServedPages
  BY Zenon DEF ServedInv, ServedTypeOK
<1>2. /\ match.version \in Nat /\ match.announced \in Nat
      /\ match.status \in {"ACTIVE", "COMPLETED"}
  BY <1>1 DEF ServedMatches
<1>3. match.announced <= match.version
  BY Zenon DEF ServedInv, NotAhead
<1> QED BY <1>1, <1>2, <1>3

LEMMA LastOfAppend ==
  ASSUME NEW S, NEW s \in Seq(S), NEW x \in S, NEW t, t = Append(s, x)
  PROVE  t \in Seq(S) /\ t # <<>> /\ t[Len(t)] = x
<1>1. t \in Seq(S) /\ Len(s) \in Nat /\ Len(t) = Len(s) + 1
  OBVIOUS
<1>2. t[Len(s) + 1] = x
  BY <1>1
<1>3. Len(t) # 0
  BY <1>1
<1>4. t # <<>>
  BY <1>3
<1> QED BY <1>1, <1>2, <1>4

LEMMA LastOfTail ==
  ASSUME NEW S, NEW s \in Seq(S), s # <<>>
  PROVE  /\ Head(s) \in S /\ Tail(s) \in Seq(S)
         /\ Tail(s) = <<>> => Head(s) = s[Len(s)]
         /\ Tail(s) # <<>> => Tail(s)[Len(Tail(s))] = s[Len(s)]
<1>1. /\ Len(s) \in Nat /\ Len(s) > 0 /\ Len(Tail(s)) = Len(s) - 1
      /\ Head(s) = s[1] /\ Tail(s) \in Seq(S)
  OBVIOUS
<1>2. ASSUME Tail(s) = <<>> PROVE Len(s) = 1
  <2>1. PICK t \in Seq(S) : t = Tail(s) /\ Len(t) = Len(s) - 1
    BY <1>1, Zenon
  <2>2. t = <<>>
    BY <1>2, <2>1, Zenon
  <2>3. Len(t) = 0
    BY <2>2
  <2> QED BY <1>1, <2>1, <2>3
<1>3. Tail(s) # <<>> => Tail(s)[Len(Tail(s))] = s[Len(s)]
  <2>1. SUFFICES ASSUME Tail(s) # <<>> PROVE Tail(s)[Len(Tail(s))] = s[Len(s)]
    OBVIOUS
  <2>2. Len(Tail(s)) \in 1..Len(Tail(s))
    BY <1>1, <2>1
  <2>3. Tail(s)[Len(Tail(s))] = s[Len(Tail(s)) + 1]
    BY <1>1, <2>2
  <2>4. Len(Tail(s)) + 1 = Len(s)
    BY <1>1
  <2> QED BY <2>3, <2>4
<1> QED BY <1>1, <1>2, <1>3

LEMMA MatchAfter ==
  ASSUME match \in ServedMatches, NEW status \in {"ACTIVE", "COMPLETED"},
         match' = [match EXCEPT !.version = @ + 1, !.status = status]
  PROVE  /\ match'.version = match.version + 1 /\ match'.announced = match.announced
         /\ match'.overtaken = match.overtaken
         /\ match' \in ServedMatches
         /\ match.version \in Nat /\ match.announced \in Nat
<1>1. match.version \in Nat /\ match.announced \in Nat /\ match.version + 1 \in Nat
  BY DEF ServedMatches
<1>2. PICK n : n = match.version + 1
  OBVIOUS
<1>3. match' = [match EXCEPT !.version = n, !.status = status] /\ n \in Nat
  BY <1>1, <1>2
<1> QED BY <1>1, <1>2, <1>3, Zenon DEF ServedMatches

LEMMA Loads ==
  ASSUME ServedInv, NEW p \in Served!Players, Served!Load(p)
  PROVE  ServedInv'
<1>1. PICK b : b = [boards[p] EXCEPT !.version = match.version, !.status = "ACTIVE",
                      !.socket = "open", !.consumer = "connect"]
  OBVIOUS
<1>2. b.consumer = "connect" /\ inbox[p] = <<>> /\ b \in ServedPages
  <2>1. b \in ServedPages /\ b.consumer = "connect"
    BY <1>1, PageTyped DEF ServedPages
  <2>2. inbox[p] = <<>>
    BY DEF ServedInv, Abreast, Served!Load
  <2> QED BY <2>1, <2>2
<1> QED BY <1>1, <1>2, PageStep DEF Served!Load

LEMMA Clicks ==
  ASSUME ServedInv, NEW p \in Served!Players, Served!Click(p)
  PROVE  ServedInv'
<1>1. PICK action \in {"play", "forfeit"} :
        Served!Become(p, [boards[p] EXCEPT !.asked = action])
  BY DEF Served!Click
<1>2. PICK b : b = [boards[p] EXCEPT !.asked = action]
  OBVIOUS
<1>3. /\ b \in ServedPages /\ b.consumer = boards[p].consumer /\ b.read = boards[p].read
      /\ b.version = boards[p].version /\ b.socket = boards[p].socket
  BY <1>2, PageTyped DEF ServedPages
<1> QED BY <1>1, <1>2, <1>3, PageStep DEF Served!Click, ServedInv, NotAhead, Abreast

LEMMA Drops ==
  ASSUME ServedInv, NEW p \in Served!Players, Served!Drop(p)
  PROVE  ServedInv'
<1>1. PICK b : b = [boards[p] EXCEPT !.socket = "closed", !.asked = None]
  OBVIOUS
<1>2. /\ b \in ServedPages /\ b.consumer = boards[p].consumer /\ b.read = boards[p].read
      /\ b.socket = "closed"
  BY <1>1, PageTyped DEF ServedPages
<1> QED BY <1>1, <1>2, PageStep DEF Served!Drop, ServedInv, NotAhead, Abreast

LEMMA Connects ==
  ASSUME ServedInv, NEW p \in Served!Players, Served!Connect(p)
  PROVE  ServedInv'
<1>1. PICK b : b = [boards[p] EXCEPT !.consumer = "greet"]
  OBVIOUS
<1>2. b \in ServedPages /\ b.consumer = "greet"
  BY <1>1, PageTyped DEF ServedPages
<1> QED BY <1>1, <1>2, PageStep DEF Served!Connect, ServedInv, Abreast

LEMMA Greets ==
  ASSUME ServedInv, NEW p \in Served!Players, Served!Greet(p)
  PROVE  ServedInv'
<1>1. PICK b : b = [IF boards[p].socket = "open"
                      THEN Served!OnState(boards[p], Served!Greeting(p)) ELSE boards[p]
                      EXCEPT !.consumer = "idle"]
  OBVIOUS
<1>2. /\ b \in ServedPages /\ b.consumer = "idle" /\ b.socket = boards[p].socket
      /\ b.socket = "open" => b.version = match.version
  <2>1. CASE boards[p].socket = "open"
    <3>1. b = [boards[p] EXCEPT !.version = match.version, !.status = match.status,
                                !.consumer = "idle"]
      BY <1>1, <2>1, PageTyped
         DEF ServedPages, Served!OnState, Served!Greeting, Served!Serialize
    <3> QED BY <3>1, PageTyped DEF ServedPages
  <2>2. CASE boards[p].socket # "open"
    <3>1. b = [boards[p] EXCEPT !.consumer = "idle"]
      BY <1>1, <2>2
    <3> QED BY <2>2, <3>1, PageTyped DEF ServedPages
  <2> QED BY <2>1, <2>2
<1>3. b.socket = "open" => b.version >= match.announced
  BY <1>2, PageTyped
<1> QED BY <1>1, <1>2, <1>3, PageStep DEF Served!Greet, ServedInv, Abreast

\* The match goes on or ends; what was announced stays.
LEMMA MatchStep ==
  ASSUME ServedInv, NEW status \in {"ACTIVE", "COMPLETED"},
         match' = [match EXCEPT !.version = @ + 1, !.status = status],
         UNCHANGED <<boards, inbox>>
  PROVE  ServedInv'
<1>1. /\ match'.version = match.version + 1 /\ match'.announced = match.announced
      /\ match'.overtaken = match.overtaken
      /\ match' \in ServedMatches
      /\ match.version \in Nat /\ match.announced \in Nat
  BY MatchAfter, Zenon DEF ServedInv, ServedTypeOK
<1>2. ServedTypeOK'
  BY <1>1 DEF ServedInv, ServedTypeOK
<1>3. NotAhead'
  BY <1>1 DEF ServedInv, NotAhead, ServedTypeOK, States
<1>4. ASSUME NEW q \in Served!Players PROVE Abreast(q)'
  BY <1>1 DEF ServedInv, Abreast
<1> QED BY <1>2, <1>3, <1>4 DEF ServedInv

LEMMA Handles ==
  ASSUME ServedInv, NEW p \in Served!Players, Served!Handle(p)
  PROVE  ServedInv'
<1>1. CASE UNCHANGED match
  <2>1. PICK b : b = [boards[p] EXCEPT !.asked = None]
    OBVIOUS
  <2>2. /\ b \in ServedPages /\ b.consumer = boards[p].consumer /\ b.read = boards[p].read
        /\ b.version = boards[p].version /\ b.socket = boards[p].socket
    BY <2>1, PageTyped DEF ServedPages
  <2>3. Served!Become(p, b) /\ UNCHANGED inbox
    <3>1. ASSUME NEW status \in {"ACTIVE", "COMPLETED"},
                 match' = [match EXCEPT !.version = @ + 1, !.status = status]
          PROVE  FALSE
      <4>1. match.version + 1 = match.version /\ match.version \in Nat
        BY <1>1, <3>1, MatchAfter DEF ServedInv, ServedTypeOK
      <4> QED BY <4>1
    <3> QED BY <2>1, <3>1, Zenon DEF Served!Handle
  <2> QED BY <1>1, <2>2, <2>3, PageStep DEF ServedInv, NotAhead, Abreast
<1>2. CASE \E status \in {"ACTIVE", "COMPLETED"} :
             /\ match' = [match EXCEPT !.version = @ + 1, !.status = status]
             /\ Served!Become(p, [boards[p] EXCEPT !.consumer = "committed"])
             /\ boards[p].consumer = "idle"
             /\ UNCHANGED inbox
  <2>1. PICK b : b = [boards[p] EXCEPT !.consumer = "committed"]
    OBVIOUS
  <2>2. /\ b \in ServedPages /\ b.consumer = "committed" /\ boards[p].consumer = "idle"
        /\ b.version = boards[p].version /\ b.socket = boards[p].socket
    <3>1. boards[p].consumer = "idle"
      BY <1>2, Zenon
    <3> QED BY <2>1, <3>1, PageTyped DEF ServedPages
  <2>3. /\ boards'[p] = b /\ boards' \in [Served!Players -> ServedPages]
        /\ \A q \in Served!Players \ {p} : boards'[q] = boards[q]
    BY <1>2, <2>1, <2>2, Zenon DEF Served!Become, ServedInv, ServedTypeOK
  <2>4. /\ match'.version = match.version + 1 /\ match'.announced = match.announced
        /\ match'.overtaken = match.overtaken
        /\ match' \in ServedMatches
        /\ match.version \in Nat /\ match.announced \in Nat
    BY <1>2, MatchAfter, Zenon DEF ServedInv, ServedTypeOK
  <2>5. ServedTypeOK'
    BY <1>2, <2>3, <2>4 DEF ServedInv, ServedTypeOK
  <2>6. NotAhead'
    <3>1. match'.announced <= match'.version
      BY <2>4 DEF ServedInv, NotAhead
    <3>2. ASSUME NEW q \in Served!Players, boards'[q].consumer = "read"
          PROVE  boards'[q].read \in States /\ boards'[q].read.version <= match'.version
      <4>1. boards'[q] = boards[q]
        BY <2>2, <2>3, <3>2
      <4> QED BY <2>4, <3>2, <4>1 DEF ServedInv, NotAhead, States
    <3> QED BY <3>1, <3>2 DEF NotAhead
  <2>7. ASSUME NEW q \in Served!Players PROVE Abreast(q)'
    <3>1. CASE q = p
      BY <1>2, <2>2, <2>3, <2>4, <3>1 DEF ServedInv, Abreast
    <3>2. CASE q # p
      BY <1>2, <2>3, <2>4, <3>2 DEF ServedInv, Abreast
    <3> QED BY <3>1, <3>2
  <2> QED BY <2>5, <2>6, <2>7 DEF ServedInv
<1> QED BY <1>1, <1>2 DEF Served!Handle

LEMMA ReadsAgain ==
  ASSUME ServedInv, NEW p \in Served!Players, Served!ReadAgain(p)
  PROVE  ServedInv'
<1>1. PICK b : b = [boards[p] EXCEPT !.consumer = "read", !.read = Served!Serialize]
  OBVIOUS
<1>2. /\ Served!Serialize \in States /\ Served!Serialize.version = match.version
      /\ match.version \in Nat
  BY DEF Served!Serialize, States, ServedInv, ServedTypeOK, ServedMatches
<1>3. /\ b \in ServedPages /\ b.consumer = "read" /\ b.read = Served!Serialize
      /\ b.version = boards[p].version /\ b.socket = boards[p].socket
  BY <1>1, <1>2, PageTyped DEF ServedPages
<1>4. b.read \in States /\ b.read.version <= match.version
  BY <1>2, <1>3
<1>5. /\ Served!Become(p, b) /\ UNCHANGED <<match, inbox>>
      /\ boards[p].consumer = "committed"
  BY <1>1, Zenon DEF Served!ReadAgain
<1>6. ~match.overtaken /\ inbox[p] = <<>> /\ b.socket = "open"
        => b.version >= match.announced
  BY <1>3, <1>5 DEF ServedInv, Abreast
<1> QED BY <1>3, <1>4, <1>5, <1>6, PageStep

LEMMA GroupSends ==
  ASSUME ServedInv, NEW p \in Served!Players, Served!GroupSend(p)
  PROVE  ServedInv'
<1>1. PICK sent : sent = boards[p].read
  OBVIOUS
<1>2. /\ sent \in States /\ sent.version \in Nat /\ sent.version <= match.version
      /\ match.version \in Nat /\ match.announced \in Nat /\ match.announced <= match.version
  BY <1>1 DEF Served!GroupSend, ServedInv, NotAhead, States, ServedTypeOK, ServedMatches
<1>3. /\ match'.version = match.version
      /\ match'.announced = IF sent.version > match.announced THEN sent.version
                            ELSE match.announced
      /\ match'.overtaken = (sent.version < match.announced)
      /\ match' \in ServedMatches
  <2>0. (sent.version < match.announced) \in BOOLEAN
    OBVIOUS
  <2>1. PICK over \in BOOLEAN : over = (sent.version < match.announced)
    BY <2>0, Zenon
  <2>2. PICK late \in Nat : late = IF sent.version > match.announced THEN sent.version
                                  ELSE match.announced
    BY <1>2
  <2>3. match' = [match EXCEPT !.overtaken = over, !.announced = late]
    BY <1>1, <2>1, <2>2, Zenon DEF Served!GroupSend
  <2> QED BY <2>1, <2>2, <2>3, Zenon DEF ServedInv, ServedTypeOK, ServedMatches
<1>4. PICK b : b = [boards[p] EXCEPT !.consumer = "idle", !.read = None, !.asked = None]
  OBVIOUS
<1>5. /\ b \in ServedPages /\ b.consumer = "idle"
  BY <1>4, PageTyped DEF ServedPages
<1>6. /\ boards'[p] = b /\ boards' \in [Served!Players -> ServedPages]
      /\ \A q \in Served!Players \ {p} : boards'[q] = boards[q]
  BY <1>4, <1>5, Zenon DEF Served!GroupSend, Served!Become, ServedInv, ServedTypeOK
<1>7. \A q \in Served!Players :
        inbox'[q] = IF q \in Served!Members THEN Append(inbox[q], sent) ELSE inbox[q]
  BY <1>1, Zenon DEF Served!GroupSend
<1>8. ASSUME NEW q \in Served!Players
      PROVE  /\ inbox[q] \in Seq(States) /\ inbox'[q] \in Seq(States)
             /\ q \in Served!Members =>
                  inbox'[q] # <<>> /\ inbox'[q][Len(inbox'[q])] = sent
  <2>1. inbox[q] \in Seq(States)
    BY Zenon DEF ServedInv, ServedTypeOK
  <2>2. CASE q \in Served!Members
    <3>1. inbox'[q] = Append(inbox[q], sent)
      BY <1>7, <2>2, Zenon
    <3>2. PICK t : t = Append(inbox[q], sent)
      OBVIOUS
    <3>3. t \in Seq(States) /\ t # <<>> /\ t[Len(t)] = sent
      BY <1>2, <2>1, <3>2, LastOfAppend
    <3>4. inbox'[q] = t
      BY <3>1, <3>2, Zenon
    <3> QED BY <2>1, <3>3, <3>4, Zenon
  <2>3. CASE q \notin Served!Members
    BY <1>7, <2>1, <2>3, Zenon
  <2> QED BY <2>2, <2>3
<1>9. ServedTypeOK'
  <2>1. inbox' = [q \in Served!Players |-> inbox'[q]]
    BY Zenon DEF Served!GroupSend
  <2>2. inbox' \in [Served!Players -> Seq(States)]
    BY <1>8, <2>1, Zenon
  <2> QED BY <1>3, <1>6, <2>2 DEF ServedTypeOK
<1>10. NotAhead'
  <2>1. match'.announced <= match'.version
    BY <1>2, <1>3
  <2>2. ASSUME NEW q \in Served!Players, boards'[q].consumer = "read"
        PROVE  boards'[q].read \in States /\ boards'[q].read.version <= match'.version
    BY <1>3, <1>5, <1>6, <2>2 DEF ServedInv, NotAhead
  <2> QED BY <2>1, <2>2 DEF NotAhead
<1>11. ASSUME NEW q \in Served!Players PROVE Abreast(q)'
  <2>1. CASE q \in Served!Members
    <3>1. ~match'.overtaken => sent.version >= match'.announced
      <4>1. ~match'.overtaken => ~(sent.version < match.announced)
        BY <1>3, Zenon
      <4>2. match'.announced = IF sent.version > match.announced THEN sent.version
                               ELSE match.announced
        BY <1>3, Zenon
      <4> QED BY <1>2, <4>1, <4>2
    <3>2. boards'[q].consumer \notin {"gone", "connect"}
      BY <1>5, <1>6, <2>1 DEF Served!Members
    <3> QED BY <1>8, <2>1, <3>1, <3>2 DEF Abreast
  <2>2. CASE q \notin Served!Members
    <3>1. p \in Served!Members
      BY DEF Served!Members, Served!GroupSend
    <3>2. boards'[q] = boards[q] /\ inbox'[q] = inbox[q]
      BY <1>6, <1>7, <2>2, <3>1
    <3>3. boards[q].consumer \in {"gone", "connect"}
      BY <2>2 DEF Served!Members
    <3> QED BY <3>2, <3>3 DEF Abreast, ServedInv
  <2> QED BY <2>1, <2>2
<1> QED BY <1>9, <1>10, <1>11 DEF ServedInv

LEMMA StatesArrive ==
  ASSUME ServedInv, NEW p \in Served!Players, Served!MatchState(p)
  PROVE  ServedInv'
<1>1. PICK b : b = IF boards[p].socket = "open"
                     THEN Served!OnState(boards[p], Head(inbox[p])) ELSE boards[p]
  OBVIOUS
<1>2. /\ inbox[p] \in Seq(States) /\ inbox[p] # <<>> /\ Head(inbox[p]) \in States
      /\ Tail(inbox[p]) \in Seq(States)
      /\ Tail(inbox[p]) = <<>> => Head(inbox[p]) = inbox[p][Len(inbox[p])]
      /\ Tail(inbox[p]) # <<>> =>
           Tail(inbox[p])[Len(Tail(inbox[p]))] = inbox[p][Len(inbox[p])]
  BY LastOfTail, Zenon DEF Served!MatchState, ServedInv, ServedTypeOK
<1>3. /\ b \in ServedPages /\ b.consumer = "idle" /\ b.socket = boards[p].socket
      /\ b.socket = "open" => b.version = Head(inbox[p]).version
  <2>1. PICK state \in States : state = Head(inbox[p])
    BY <1>2
  <2>2. state.version \in Nat /\ state.status \in {"ACTIVE", "COMPLETED"}
    BY <2>1 DEF States
  <2>3. boards[p].consumer = "idle" /\ boards[p] \in ServedPages
    BY PageTyped DEF Served!MatchState
  <2>4. CASE boards[p].socket = "open"
    <3>1. b = [boards[p] EXCEPT !.version = state.version, !.status = state.status]
      BY <1>1, <2>1, <2>4, Zenon DEF Served!OnState
    <3>2. /\ b \in ServedPages /\ b.consumer = "idle" /\ b.socket = boards[p].socket
          /\ b.version = state.version
      BY <2>2, <2>3, <3>1 DEF ServedPages
    <3> QED BY <2>1, <3>2
  <2>5. CASE boards[p].socket # "open"
    <3>1. b = boards[p]
      BY <1>1, <2>5
    <3> QED BY <2>3, <2>5, <3>1
  <2> QED BY <2>4, <2>5
<1>4. /\ boards'[p] = b /\ boards' \in [Served!Players -> ServedPages]
      /\ \A q \in Served!Players \ {p} : boards'[q] = boards[q]
  BY <1>1, <1>3, Zenon DEF Served!MatchState, Served!Become, ServedInv, ServedTypeOK
<1>5. /\ inbox'[p] = Tail(inbox[p]) /\ inbox' \in [Served!Players -> Seq(States)]
      /\ \A q \in Served!Players \ {p} : inbox'[q] = inbox[q]
  BY <1>2, Zenon DEF Served!MatchState, ServedInv, ServedTypeOK
<1>6. ServedTypeOK' /\ NotAhead'
  BY <1>3, <1>4, <1>5 DEF Served!MatchState, ServedInv, ServedTypeOK, NotAhead
<1>7. ASSUME NEW q \in Served!Players PROVE Abreast(q)'
  <2>1. CASE q = p
    <3>1. ~match.overtaken => inbox[p][Len(inbox[p])].version >= match.announced
      BY <1>2 DEF ServedInv, Abreast
    <3> QED BY <1>2, <1>3, <1>4, <1>5, <2>1, <3>1 DEF Abreast, Served!MatchState
  <2>2. CASE q # p
    BY <1>4, <1>5, <2>2 DEF Abreast, ServedInv, Served!MatchState
  <2> QED BY <2>1, <2>2
<1> QED BY <1>6, <1>7 DEF ServedInv

LEMMA Disconnects ==
  ASSUME ServedInv, NEW p \in Served!Players, Served!Disconnect(p)
  PROVE  ServedInv'
<1>1. PICK b : b = [boards[p] EXCEPT !.socket = "closed", !.consumer = "gone", !.read = None,
                                     !.asked = None]
  OBVIOUS
<1>2. b \in ServedPages /\ b.consumer = "gone"
  BY <1>1, PageTyped DEF ServedPages
<1>3. /\ boards'[p] = b /\ boards' \in [Served!Players -> ServedPages]
      /\ \A q \in Served!Players \ {p} : boards'[q] = boards[q]
  BY <1>1, <1>2, Zenon DEF Served!Disconnect, Served!Become, ServedInv, ServedTypeOK
<1>4. /\ inbox'[p] = <<>> /\ inbox' \in [Served!Players -> Seq(States)]
      /\ \A q \in Served!Players \ {p} : inbox'[q] = inbox[q]
  BY DEF Served!Disconnect, ServedInv, ServedTypeOK
<1>5. ServedTypeOK' /\ NotAhead'
  BY <1>2, <1>3, <1>4 DEF Served!Disconnect, ServedInv, ServedTypeOK, NotAhead
<1>6. ASSUME NEW q \in Served!Players PROVE Abreast(q)'
  <2>1. CASE q = p
    BY <1>2, <1>3, <1>4, <2>1 DEF Abreast
  <2>2. CASE q # p
    BY <1>3, <1>4, <2>2 DEF Abreast, ServedInv, Served!Disconnect
  <2> QED BY <2>1, <2>2
<1> QED BY <1>5, <1>6 DEF ServedInv

LEMMA ServedBegins == Served!Init => ServedInv
<1> SUFFICES ASSUME Served!Init PROVE ServedInv
  OBVIOUS
<1>1. /\ match.announced = 0 /\ match.version = 0
      /\ \A p \in Served!Players : boards[p].consumer = "gone" /\ inbox[p] = <<>>
  BY DEF Served!Init
<1>2. ServedTypeOK
  BY DEF Served!Init, ServedTypeOK, ServedPages, ServedMatches
<1> QED BY <1>1, <1>2 DEF ServedInv, NotAhead, Abreast

LEMMA ServedStep ==
  ASSUME ServedInv, [Served!Next]_(Served!vars)
  PROVE  ServedInv'
<1>1. CASE UNCHANGED Served!vars
  BY <1>1 DEF Served!vars, ServedInv, ServedTypeOK, NotAhead, Abreast
<1>2. CASE Served!Automatic
  BY <1>2, MatchStep, Zenon DEF Served!Automatic
<1>3. ASSUME NEW p \in Served!Players,
             \/ Served!Load(p) \/ Served!Click(p) \/ Served!Drop(p) \/ Served!Connect(p)
             \/ Served!Greet(p) \/ Served!Handle(p) \/ Served!ReadAgain(p)
             \/ Served!GroupSend(p) \/ Served!MatchState(p) \/ Served!Disconnect(p)
      PROVE  ServedInv'
  BY <1>3, Loads, Clicks, Drops, Connects, Greets, Handles, ReadsAgain, GroupSends,
     StatesArrive, Disconnects, Zenon
<1> QED BY <1>1, <1>2, <1>3, Zenon DEF Served!Next

\* A board (static/src/board.ts) that is connected and has nothing to come shows the
\* latest position a consumer sent to anyone, for any number of moves, although a
\* consumer reads the match in one step and sends it in another, and browsers come and go.
THEOREM BoardsCatchUp == Served!Spec => []CaughtUp
<1>1. ServedInv => CaughtUp
  BY DEF ServedInv, Abreast, CaughtUp, Served!CaughtUp
<1> QED BY <1>1, ServedBegins, ServedStep, PTL DEF Served!Spec

------------------------------------------------------------------------------
\* RANKING.

\* A cache counts from the call, and holds what was read then or later.
CacheEntries == [at : Int, read : Int]
HonestCache(cache) == cache = None \/ (cache \in CacheEntries /\ cache.at <= cache.read)

Views == [read : Int, when : Int, why : {"cache", "answer", "throttled", "failed"}]
HonestView(view, ttl) ==
  view = None \/ (view \in Views /\ (view.why = "cache" => view.when - view.read < ttl))

RanksInv ==
  /\ clock \in Int
  /\ list \in [cache : {list.cache}, asked : SUBSET Int, shown : {list.shown}]
  /\ rank \in [cache : {rank.cache}, last : Int, asked : SUBSET Int, shown : {rank.shown}]
  /\ \A at \in list.asked \cup rank.asked : at <= clock
  /\ HonestCache(list.cache) /\ HonestView(list.shown, Ranks!ListTTL)
  /\ HonestCache(rank.cache) /\ HonestView(rank.shown, RankTTL)

\* A view of a cache within its time.
LEMMA FreshView ==
  ASSUME clock \in Int, NEW cache, HonestCache(cache), NEW ttl \in Int,
         Ranks!Fresh(cache, ttl)
  PROVE  HonestView(Ranks!Shown(cache.read, "cache"), ttl)
<1>1. cache \in CacheEntries /\ cache.at <= cache.read /\ clock - cache.at < ttl
  BY DEF HonestCache, Ranks!Fresh
<1>2. cache.at \in Int /\ cache.read \in Int
  BY <1>1 DEF CacheEntries
<1>3. clock - cache.read < ttl
  BY <1>1, <1>2
<1> QED BY <1>2, <1>3 DEF HonestView, Views, Ranks!Shown

\* Any other.
LEMMA OtherView ==
  ASSUME clock \in Int, NEW read \in Int, NEW why \in {"answer", "throttled", "failed"},
         NEW ttl
  PROVE  HonestView(Ranks!Shown(read, why), ttl)
BY DEF HonestView, Views, Ranks!Shown

LEMMA NothingViewed == ASSUME NEW ttl PROVE HonestView(None, ttl) /\ HonestCache(None)
BY DEF HonestView, HonestCache

LEMMA CachedRead ==
  ASSUME NEW cache, HonestCache(cache), cache # None
  PROVE  cache.read \in Int
BY DEF HonestCache, CacheEntries

LEMMA AnswerCached ==
  ASSUME clock \in Int, NEW at \in Int, at <= clock, NEW read \in {at, clock}
  PROVE  HonestCache(Ranks!Entry(at, read)) /\ read \in Int
<1>1. read \in Int /\ at <= read
  OBVIOUS
<1>2. Ranks!Entry(at, read) \in CacheEntries
  BY <1>1, Zenon DEF Ranks!Entry, CacheEntries
<1> QED BY <1>1, <1>2 DEF HonestCache, Ranks!Entry

\* What is shown of the rank from its cache, however old.
LEMMA KnownView ==
  ASSUME RanksInv, NEW why \in {"throttled", "failed"}
  PROVE  HonestView(Ranks!Known(why), RankTTL)
BY OtherView, NothingViewed, CachedRead, Zenon DEF Ranks!Known, RanksInv

LEMMA ListStep ==
  ASSUME RanksInv, NEW c, NEW a \in SUBSET Int, NEW v,
         list' = [cache |-> c, asked |-> a, shown |-> v], UNCHANGED <<clock, rank>>,
         HonestCache(c), HonestView(v, Ranks!ListTTL), \A at \in a : at <= clock
  PROVE  RanksInv'
<1>1. list'.cache = c /\ list'.asked = a /\ list'.shown = v
  OBVIOUS
<1>2. list' \in [cache : {list'.cache}, asked : SUBSET Int, shown : {list'.shown}]
  BY <1>1
<1>3. HonestCache(list.cache)' /\ HonestCache(rank.cache)'
      /\ HonestView(list.shown, Ranks!ListTTL)' /\ HonestView(rank.shown, RankTTL)'
  BY <1>1, Zenon DEF RanksInv, HonestCache, HonestView, Ranks!ListTTL
<1> QED BY <1>1, <1>2, <1>3 DEF RanksInv

LEMMA RankStep ==
  ASSUME RanksInv, NEW c, NEW l \in Int, NEW a \in SUBSET Int, NEW v,
         rank' = [cache |-> c, last |-> l, asked |-> a, shown |-> v],
         UNCHANGED <<clock, list>>,
         HonestCache(c), HonestView(v, RankTTL), \A at \in a : at <= clock
  PROVE  RanksInv'
<1>1. rank'.cache = c /\ rank'.asked = a /\ rank'.shown = v
  OBVIOUS
<1>2. rank' \in [cache : {rank'.cache}, last : Int, asked : SUBSET Int, shown : {rank'.shown}]
  BY <1>1
<1>3. HonestCache(list.cache)' /\ HonestCache(rank.cache)'
      /\ HonestView(list.shown, Ranks!ListTTL)' /\ HonestView(rank.shown, RankTTL)'
  BY <1>1, Zenon DEF RanksInv, HonestCache, HonestView, Ranks!ListTTL
<1> QED BY <1>1, <1>2, <1>3 DEF RanksInv

\* The lists, field by field.
LEMMA RanksFields ==
  ASSUME RanksInv
  PROVE  /\ list = [cache |-> list.cache, asked |-> list.asked, shown |-> list.shown]
         /\ rank = [cache |-> rank.cache, last |-> rank.last, asked |-> rank.asked,
                    shown |-> rank.shown]
         /\ list.asked \in SUBSET Int /\ rank.asked \in SUBSET Int
         /\ rank.last \in Int /\ clock \in Int
         /\ HonestCache(list.cache) /\ HonestView(list.shown, Ranks!ListTTL)
         /\ HonestCache(rank.cache) /\ HonestView(rank.shown, RankTTL)
         /\ \A at \in list.asked \cup rank.asked : at <= clock
BY DEF RanksInv

LEMMA OpenStep == ASSUME RanksInv, Ranks!OpenLeaderboard PROVE RanksInv'
<1>0. Ranks!ListTTL \in Int /\ UNCHANGED <<clock, rank>>
  BY DEF Ranks!ListTTL, Ranks!OpenLeaderboard
<1>1. CASE Ranks!Fresh(list.cache, Ranks!ListTTL)
  <2>1. PICK v : v = Ranks!Shown(list.cache.read, "cache")
    OBVIOUS
  <2>2. list' = [cache |-> list.cache, asked |-> list.asked, shown |-> v]
    BY <1>1, <2>1, RanksFields DEF Ranks!OpenLeaderboard
  <2>3. HonestView(v, Ranks!ListTTL)
    BY <1>0, <1>1, <2>1, RanksFields, FreshView, Zenon
  <2> QED BY <1>0, <2>2, <2>3, RanksFields, ListStep, Zenon
<1>2. CASE ~Ranks!Fresh(list.cache, Ranks!ListTTL)
  <2>1. list' = [cache |-> list.cache, asked |-> list.asked \cup {clock}, shown |-> list.shown]
    BY <1>2, RanksFields DEF Ranks!OpenLeaderboard
  <2>2. /\ list.asked \cup {clock} \in SUBSET Int
        /\ \A at \in list.asked \cup {clock} : at <= clock
    BY RanksFields
  <2> QED BY <1>0, <2>1, <2>2, RanksFields, ListStep, Zenon
<1> QED BY <1>1, <1>2

LEMMA ListAnswersStep == ASSUME RanksInv, Ranks!LeaderboardAnswers PROVE RanksInv'
<1>1. PICK at \in list.asked : \E read \in {at, clock} :
        /\ list' = [list EXCEPT !.asked = @ \ {at},
                      !.cache = Ranks!Entry(Ranks!Stamp(at), read),
                      !.shown = Ranks!Shown(read, "answer")]
        /\ UNCHANGED <<clock, rank>>
  BY Zenon DEF Ranks!LeaderboardAnswers
<1>2. PICK read \in {at, clock} :
        /\ list' = [list EXCEPT !.asked = @ \ {at}, !.cache = Ranks!Entry(at, read),
                      !.shown = Ranks!Shown(read, "answer")]
        /\ UNCHANGED <<clock, rank>>
  BY <1>1, Zenon DEF Ranks!Stamp
<1>3. PICK c, v : c = Ranks!Entry(at, read) /\ v = Ranks!Shown(read, "answer")
  OBVIOUS
<1>4. list' = [cache |-> c, asked |-> list.asked \ {at}, shown |-> v]
  BY <1>2, <1>3, RanksFields
<1>5. HonestCache(c) /\ HonestView(v, Ranks!ListTTL)
  BY <1>3, RanksFields, AnswerCached, OtherView
<1>6. list.asked \ {at} \in SUBSET Int /\ \A a \in list.asked \ {at} : a <= clock
  BY RanksFields
<1> QED BY <1>2, <1>4, <1>5, <1>6, RanksFields, ListStep, Zenon

LEMMA ListFailsStep == ASSUME RanksInv, Ranks!LeaderboardFails PROVE RanksInv'
<1>1. PICK at \in list.asked :
        /\ list' = [list EXCEPT !.asked = @ \ {at}, !.shown = None]
        /\ UNCHANGED <<clock, rank>>
  BY Zenon DEF Ranks!LeaderboardFails
<1>2. list' = [cache |-> list.cache, asked |-> list.asked \ {at}, shown |-> None]
  BY <1>1, RanksFields
<1>3. list.asked \ {at} \in SUBSET Int /\ \A a \in list.asked \ {at} : a <= clock
  BY RanksFields
<1> QED BY <1>1, <1>2, <1>3, RanksFields, NothingViewed, ListStep, Zenon

LEMMA UpdateStep == ASSUME RankTTL \in Int, RanksInv, Ranks!UpdateRank PROVE RanksInv'
<1>0. UNCHANGED <<clock, list>>
  BY DEF Ranks!UpdateRank
<1>1. CASE Ranks!Fresh(rank.cache, RankTTL)
  <2>1. PICK v : v = Ranks!Known("cache")
    OBVIOUS
  <2>2. rank' = [cache |-> rank.cache, last |-> rank.last, asked |-> rank.asked, shown |-> v]
    BY <1>1, <2>1, RanksFields DEF Ranks!UpdateRank
  <2>3. v = Ranks!Shown(rank.cache.read, "cache")
    BY <1>1, <2>1 DEF Ranks!Known, Ranks!Fresh
  <2>4. HonestView(v, RankTTL)
    BY <1>1, <2>3, RanksFields, FreshView, Zenon
  <2> QED BY <1>0, <2>2, <2>4, RanksFields, RankStep
<1>2. CASE ~Ranks!Fresh(rank.cache, RankTTL) /\ clock - rank.last < Ranks!Throttle
  <2>1. PICK v : v = Ranks!Known("throttled")
    OBVIOUS
  <2>2. rank' = [cache |-> rank.cache, last |-> rank.last, asked |-> rank.asked, shown |-> v]
    BY <1>2, <2>1, RanksFields DEF Ranks!UpdateRank
  <2> QED BY <1>0, <2>1, <2>2, RanksFields, KnownView, RankStep
<1>3. CASE ~Ranks!Fresh(rank.cache, RankTTL) /\ ~(clock - rank.last < Ranks!Throttle)
  <2>1. rank' = [cache |-> rank.cache, last |-> clock, asked |-> rank.asked \cup {clock},
                 shown |-> rank.shown]
    BY <1>3, RanksFields DEF Ranks!UpdateRank, Ranks!Marked
  <2>2. /\ rank.asked \cup {clock} \in SUBSET Int
        /\ \A at \in rank.asked \cup {clock} : at <= clock
    BY RanksFields
  <2> QED BY <1>0, <2>1, <2>2, RanksFields, RankStep, Zenon
<1> QED BY <1>1, <1>2, <1>3

LEMMA RankAnswersStep == ASSUME RanksInv, Ranks!RankAnswers PROVE RanksInv'
<1>1. PICK at \in rank.asked : \E read \in {at, clock} :
        /\ rank' = [rank EXCEPT !.asked = @ \ {at}, !.cache = Ranks!Entry(at, read),
                      !.shown = Ranks!Shown(read, "answer")]
        /\ UNCHANGED <<clock, list>>
  BY Zenon DEF Ranks!RankAnswers
<1>2. PICK read \in {at, clock} :
        /\ rank' = [rank EXCEPT !.asked = @ \ {at}, !.cache = Ranks!Entry(at, read),
                      !.shown = Ranks!Shown(read, "answer")]
        /\ UNCHANGED <<clock, list>>
  BY <1>1, Zenon
<1>3. PICK c, v : c = Ranks!Entry(at, read) /\ v = Ranks!Shown(read, "answer")
  OBVIOUS
<1>4. rank' = [cache |-> c, last |-> rank.last, asked |-> rank.asked \ {at}, shown |-> v]
  BY <1>2, <1>3, RanksFields
<1>5. HonestCache(c) /\ HonestView(v, RankTTL)
  BY <1>3, RanksFields, AnswerCached, OtherView
<1>6. rank.asked \ {at} \in SUBSET Int /\ \A a \in rank.asked \ {at} : a <= clock
  BY RanksFields
<1> QED BY <1>2, <1>4, <1>5, <1>6, RanksFields, RankStep, Zenon

LEMMA RankFailsStep == ASSUME RanksInv, Ranks!RankFails PROVE RanksInv'
<1>1. PICK at \in rank.asked :
        /\ rank' = [rank EXCEPT !.asked = @ \ {at}, !.shown = Ranks!Known("failed")]
        /\ UNCHANGED <<clock, list>>
  BY Zenon DEF Ranks!RankFails
<1>2. PICK v : v = Ranks!Known("failed")
  OBVIOUS
<1>3. rank' = [cache |-> rank.cache, last |-> rank.last, asked |-> rank.asked \ {at}, shown |-> v]
  BY <1>1, <1>2, RanksFields
<1>4. rank.asked \ {at} \in SUBSET Int /\ \A a \in rank.asked \ {at} : a <= clock
  BY RanksFields
<1>5. HonestView(v, RankTTL)
  BY <1>2, KnownView
<1> QED BY <1>1, <1>3, <1>4, <1>5, RanksFields, RankStep, Zenon

LEMMA RanksTick == ASSUME RanksInv, Ranks!Tick PROVE RanksInv'
<1>1. clock \in Int /\ clock' = clock + 1 /\ UNCHANGED <<list, rank>>
  BY DEF Ranks!Tick, RanksInv
<1>2. \A at \in list.asked \cup rank.asked : at \in Int /\ at <= clock
  BY RanksFields
<1>3. clock' \in Int /\ \A at \in list.asked \cup rank.asked : at <= clock'
  BY <1>1, <1>2
<1>4. HonestCache(list.cache)' /\ HonestCache(rank.cache)'
      /\ HonestView(list.shown, Ranks!ListTTL)' /\ HonestView(rank.shown, RankTTL)'
  BY <1>1, Zenon DEF RanksInv, HonestCache, HonestView, Ranks!ListTTL
<1> QED BY <1>1, <1>3, <1>4 DEF RanksInv

LEMMA RanksBegin == RankTTL \in Int /\ Ranks!Init => RanksInv
<1>1. HonestCache(None) /\ HonestView(None, Ranks!ListTTL) /\ HonestView(None, RankTTL)
  BY NothingViewed
<1> QED BY <1>1 DEF Ranks!Init, RanksInv

LEMMA RanksStep == ASSUME RankTTL \in Int, RanksInv, [Ranks!Next]_(Ranks!vars) PROVE RanksInv'
<1>1. CASE UNCHANGED Ranks!vars
  <2>1. UNCHANGED <<clock, list, rank>>
    BY <1>1 DEF Ranks!vars
  <2>2. HonestCache(list.cache)' /\ HonestCache(rank.cache)'
        /\ HonestView(list.shown, Ranks!ListTTL)' /\ HonestView(rank.shown, RankTTL)'
    BY <2>1, Zenon DEF RanksInv, HonestCache, HonestView, Ranks!ListTTL
  <2> QED BY <2>1, <2>2 DEF RanksInv
<1>2. CASE Ranks!Next
  BY <1>2, OpenStep, ListAnswersStep, ListFailsStep, UpdateStep, RankAnswersStep,
     RankFailsStep, RanksTick, Zenon DEF Ranks!Next
<1> QED BY <1>1, <1>2

\* What getLeaderboard and getUserRank show from a cache is not older than its time to
\* live, whatever the order in which the answers come.
THEOREM CachesAreHonest == RankTTL \in Int => (Ranks!Spec => []CachesHonest)
<1> SUFFICES ASSUME RankTTL \in Int PROVE Ranks!Spec => []CachesHonest
  OBVIOUS
<1>1. Ranks!Init => RanksInv
  BY RanksBegin
<1>2. RanksInv /\ [Ranks!Next]_(Ranks!vars) => RanksInv'
  BY RanksStep
<1>3. RanksInv => CachesHonest
  BY Zenon DEF RanksInv, HonestView, CachesHonest, Ranks!CachesHonest
<1> QED BY <1>1, <1>2, <1>3, PTL DEF Ranks!Spec

------------------------------------------------------------------------------
\* SAVED GAMES.

SavedInv ==
  /\ store \in [user : Users \cup {None}, hasSave : BOOLEAN, checks : SUBSET Users,
                local : BOOLEAN, hearsay : BOOLEAN, shared : BOOLEAN]
  /\ Saved!SaveOffered

\* What is offered is the invariant.
LEMMA SavedBegins == Saved!Init => SavedInv
BY DEF Saved!Init, SavedInv, Saved!SaveOffered

LEMMA SavedStep == ASSUME None \notin Users, SavedInv, [Saved!Next]_(Saved!vars) PROVE SavedInv'
<1> USE DEF SavedInv, Saved!SaveOffered, Saved!Loadable
<1>1. CASE UNCHANGED Saved!vars
  BY <1>1 DEF Saved!vars
<1>2. CASE Saved!SignIn
  <2>1. PICK u \in Users : store' = [store EXCEPT !.user = u, !.checks = @ \cup {u}]
    BY <1>2, Zenon DEF Saved!SignIn
  <2>2. store.user = None /\ cloud' = cloud
    BY <1>2, Zenon DEF Saved!SignIn
  <2> QED BY <2>1, <2>2
<1>3. CASE Saved!SignOut
  BY <1>3 DEF Saved!SignOut, Saved!Forgotten
<1>4. CASE Saved!CheckSaves
  <2>1. PICK u \in store.checks :
          /\ store' = [store EXCEPT !.checks = @ \ {u},
                         !.hasSave = @ \/ u \in cloud \/ store.local,
                         !.hearsay = @ \/ (u \in cloud /\ u # store.user)]
          /\ cloud' = cloud
    BY <1>4, Zenon DEF Saved!CheckSaves
  <2>2. u \in Users
    BY <2>1
  <2>3. PICK has \in BOOLEAN : has = (store.hasSave \/ u \in cloud \/ store.local)
    <3>1. (store.hasSave \/ u \in cloud \/ store.local) \in BOOLEAN
      OBVIOUS
    <3> QED BY <3>1, Zenon
  <2>4. PICK heard \in BOOLEAN : heard = (store.hearsay \/ (u \in cloud /\ u # store.user))
    <3>1. (store.hearsay \/ (u \in cloud /\ u # store.user)) \in BOOLEAN
      OBVIOUS
    <3> QED BY <3>1, Zenon
  <2>7. store' = [store EXCEPT !.checks = @ \ {u}, !.hasSave = has, !.hearsay = heard]
    BY <2>1, <2>3, <2>4, Zenon
  <2>8. /\ store' \in [user : Users \cup {None}, hasSave : BOOLEAN, checks : SUBSET Users,
                        local : BOOLEAN, hearsay : BOOLEAN, shared : BOOLEAN]
        /\ store'.user = store.user /\ store'.local = store.local
        /\ store'.shared = store.shared /\ store'.hasSave = has /\ store'.hearsay = heard
    BY <2>7
  <2>9. has => store.hasSave \/ u \in cloud \/ store.local
    BY <2>3, Zenon
  <2>10. ~heard => ~store.hearsay /\ (u \in cloud => u = store.user)
    BY <2>4, Zenon
  <2>11. u # None /\ cloud' = cloud
    BY <2>1, <2>2
  <2>12. Saved!SaveOffered'
    BY <2>8, <2>9, <2>10, <2>11, Zenon
  <2> QED BY <2>8, <2>12
<1>5. CASE Saved!CheckFails
  <2>1. PICK u \in store.checks, quota \in BOOLEAN :
          store' = [store EXCEPT !.checks = @ \ {u}, !.hasSave = @ \/ (quota /\ store.local)]
    BY <1>5, Zenon DEF Saved!CheckFails
  <2>2. PICK has \in BOOLEAN : has = (store.hasSave \/ (quota /\ store.local))
    <3>1. (store.hasSave \/ (quota /\ store.local)) \in BOOLEAN
      OBVIOUS
    <3> QED BY <3>1, Zenon
  <2>3. store' = [store EXCEPT !.checks = @ \ {u}, !.hasSave = has]
    BY <2>1, <2>2, Zenon
  <2>4. /\ store' \in [user : Users \cup {None}, hasSave : BOOLEAN, checks : SUBSET Users,
                        local : BOOLEAN, hearsay : BOOLEAN, shared : BOOLEAN]
        /\ store'.user = store.user /\ store'.local = store.local
        /\ store'.shared = store.shared /\ store'.hasSave = has
        /\ store'.hearsay = store.hearsay
    BY <2>3
  <2>5. has => store.hasSave \/ store.local
    BY <2>2, Zenon
  <2>6. cloud' = cloud
    BY <1>5, Zenon DEF Saved!CheckFails
  <2>7. Saved!SaveOffered'
    BY <2>4, <2>5, <2>6, Zenon
  <2> QED BY <2>4, <2>7
<1>6. CASE Saved!SaveGame
  <2>1. PICK local \in BOOLEAN : local = (store.local \/ store.user = None)
    <3>1. (store.local \/ store.user = None) \in BOOLEAN
      OBVIOUS
    <3> QED BY <3>1, Zenon
  <2>2. store' = [store EXCEPT !.hasSave = TRUE, !.local = local]
    BY <1>6, <2>1, Zenon DEF Saved!SaveGame
  <2>3. cloud' = cloud \cup ({store.user} \ {None})
    BY <1>6, Zenon DEF Saved!SaveGame
  <2> QED BY <2>1, <2>2, <2>3
<1>7. CASE Saved!DeleteSave
  BY <1>7 DEF Saved!DeleteSave
<1>8. CASE Saved!OtherDevice
  BY <1>8 DEF Saved!OtherDevice
<1> QED BY <1>1, <1>2, <1>3, <1>4, <1>5, <1>6, <1>7, <1>8, Zenon DEF Saved!Next

\* hasSave offers to load a game only when loadGame finds one, though the players change
\* and checkSaves answers late; after an answer about another account, or with another
\* device at work, it may not.
THEOREM SavesAreOffered == None \notin Users => (Saved!Spec => []SaveOffered)
<1> SUFFICES ASSUME None \notin Users PROVE Saved!Spec => []SaveOffered
  OBVIOUS
<1>1. SavedInv => SaveOffered
  BY DEF SavedInv, SaveOffered
<1>2. SavedInv /\ [Saved!Next]_(Saved!vars) => SavedInv'
  BY SavedStep
<1> QED BY <1>1, <1>2, SavedBegins, PTL DEF Saved!Spec

------------------------------------------------------------------------------
\* COMMENTATOR.

\* How long a call has left and how often it retries does not matter here.
IsCall(call) ==
  call \in [at : {"idle", "waiting", "sent", "backoff"}, left : {call.left},
            retries : {call.retries}, key : {call.key}]

CallsOK(all) == DOMAIN all = Master!Callers /\ \A c \in Master!Callers : IsCall(all[c])

ApiOK(a) ==
  a \in [since : Int, broken : BOOLEAN, cool : Nat, cache : {a.cache}, leaks : Nat]

\* The calls asleep for the interval between requests, who will look at nothing more.
Asleep == {c \in Master!Callers : calls[c].at = "waiting"}

\* Of the calls there are at the opening, one finds the quota; the requests since and
\* the calls still asleep are not more than the others.
MasterInv ==
  /\ ApiOK(api)
  /\ CallsOK(calls)
  /\ Master!Open => api.leaks + Cardinality(Asleep) < Cardinality(Master!Callers)

FinitelyMany == IsFiniteSet(Master!Callers) /\ Cooldown \in Nat

LEMMA MasterTypes ==
  ASSUME MasterInv
  PROVE  /\ \A c \in Master!Callers : IsCall(calls[c])
         /\ api.leaks \in Nat /\ api.cool \in Nat /\ api.since \in Int /\ api.broken \in BOOLEAN
         /\ api = [api EXCEPT !.since = api.since, !.broken = api.broken,
                              !.cool = api.cool, !.leaks = api.leaks]
         /\ IsCall(Master!Idle) /\ Master!Idle.at = "idle"
<1>1. \A c \in Master!Callers : IsCall(calls[c])
  BY Zenon DEF MasterInv, CallsOK
<1>2. ApiOK(api)
  BY Zenon DEF MasterInv
<1>3. api.leaks \in Nat /\ api.cool \in Nat /\ api.since \in Int /\ api.broken \in BOOLEAN
  BY <1>2 DEF ApiOK
<1>4. api = [api EXCEPT !.since = api.since, !.broken = api.broken,
                        !.cool = api.cool, !.leaks = api.leaks]
  BY <1>2 DEF ApiOK
<1>5. IsCall(Master!Idle) /\ Master!Idle.at = "idle"
  BY DEF IsCall, Master!Idle
<1> QED BY <1>1, <1>3, <1>4, <1>5, Zenon

\* What the module keeps, after a request or an answer.
LEMMA ApiAfter ==
  ASSUME MasterInv, NEW since \in Int, NEW broken \in BOOLEAN, NEW cool \in Nat, NEW leaks \in Nat,
         api' = [api EXCEPT !.since = since, !.broken = broken, !.cool = cool, !.leaks = leaks]
  PROVE  ApiOK(api') /\ api'.broken = broken /\ api'.cool = cool /\ api'.leaks = leaks
<1>1. ApiOK(api)
  BY DEF MasterInv
<1>2. api'.broken = broken /\ api'.cool = cool /\ api'.leaks = leaks
  BY <1>1, Zenon DEF ApiOK
<1>3. ApiOK(api')
  BY <1>1 DEF ApiOK
<1> QED BY <1>2, <1>3

\* A call c becomes another.
LEMMA CallChanged ==
  ASSUME FinitelyMany, MasterInv, NEW c \in Master!Callers, NEW call, IsCall(call),
         Master!Become(c, call)
  PROVE  /\ CallsOK(calls')
         /\ IsFiniteSet(Asleep) /\ IsFiniteSet(Asleep')
         /\ Cardinality(Asleep) \in Nat /\ Cardinality(Asleep') \in Nat
         /\ Cardinality(Master!Callers) \in Nat
         /\ call.at # "waiting" =>
              /\ Asleep' = Asleep \ {c} /\ Cardinality(Asleep') < Cardinality(Master!Callers)
              /\ Cardinality(Asleep') <= Cardinality(Asleep)
              /\ calls[c].at = "waiting" => Cardinality(Asleep') + 1 = Cardinality(Asleep)
<1>1. /\ calls'[c] = call /\ CallsOK(calls')
      /\ \A d \in Master!Callers \ {c} : calls'[d] = calls[d]
  <2>1. DOMAIN calls = Master!Callers /\ \A d \in Master!Callers : IsCall(calls[d])
    BY DEF MasterInv, CallsOK
  <2>2. /\ calls'[c] = call /\ DOMAIN calls' = Master!Callers
        /\ \A d \in Master!Callers \ {c} : calls'[d] = calls[d]
    BY <2>1, Zenon DEF Master!Become
  <2>3. \A d \in Master!Callers : d = c \/ d \in Master!Callers \ {c}
    OBVIOUS
  <2> QED BY <2>1, <2>2, <2>3, Zenon DEF CallsOK
<1>2. /\ Asleep \subseteq Master!Callers /\ Asleep' \subseteq Master!Callers
      /\ IsFiniteSet(Asleep) /\ IsFiniteSet(Asleep')
      /\ Cardinality(Asleep) \in Nat /\ Cardinality(Asleep') \in Nat
      /\ Cardinality(Master!Callers) \in Nat
  <2>1. Asleep \subseteq Master!Callers /\ Asleep' \subseteq Master!Callers
    BY DEF Asleep, Master!Callers
  <2> QED BY <2>1, FS_Subset, FS_CardinalityType DEF FinitelyMany
<1>3. ASSUME call.at # "waiting"
      PROVE  /\ Asleep' = Asleep \ {c} /\ Cardinality(Asleep') < Cardinality(Master!Callers)
             /\ Cardinality(Asleep') <= Cardinality(Asleep)
             /\ calls[c].at = "waiting" => Cardinality(Asleep') + 1 = Cardinality(Asleep)
  <2>0. Master!Callers' = Master!Callers
    BY DEF Master!Callers
  <2>1. Asleep' = Asleep \ {c}
    <3>1. \A d \in Master!Callers : d = c \/ d \in Master!Callers \ {c}
      OBVIOUS
    <3>2. \A d \in Master!Callers : calls'[d].at = "waiting" <=> d # c /\ calls[d].at = "waiting"
      BY <1>1, <1>3, <3>1
    <3> QED BY <2>0, <3>2 DEF Asleep
  <2>2. Cardinality(Asleep \ {c}) = IF c \in Asleep THEN Cardinality(Asleep) - 1
                                    ELSE Cardinality(Asleep)
    BY <1>2, FS_RemoveElement
  <2>3. Cardinality(Asleep') <= Cardinality(Master!Callers \ {c})
    BY <1>2, <2>1, FS_RemoveElement, FS_Subset DEF FinitelyMany
  <2>4. Cardinality(Master!Callers \ {c}) = Cardinality(Master!Callers) - 1
    BY FS_RemoveElement DEF FinitelyMany
  <2>5. calls[c].at = "waiting" => c \in Asleep
    BY DEF Asleep
  <2> QED BY <1>2, <2>1, <2>2, <2>3, <2>4, <2>5
<1> QED BY <1>1, <1>2, <1>3

\* A call goes on to its request, or to bed: then the breaker is closed.
LEMMA Enters ==
  ASSUME FinitelyMany, MasterInv, NEW c \in Master!Callers, NEW call, IsCall(call),
         call.at # "waiting" \/ ~Master!Open,
         Master!Enter(c, call), calls[c].at # "waiting" \/ ~Master!Open
  PROVE  MasterInv'
<1>1. CASE Master!Open /\ Master!Become(c, Master!Idle) /\ UNCHANGED api
  <2>1. IsCall(Master!Idle) /\ Master!Idle.at = "idle"
    BY DEF Master!Idle, IsCall
  <2>2. /\ CallsOK(calls')
        /\ Cardinality(Asleep) \in Nat /\ Cardinality(Asleep') \in Nat
        /\ Cardinality(Master!Callers) \in Nat /\ Cardinality(Asleep') <= Cardinality(Asleep)
    BY <1>1, <2>1, CallChanged
  <2> QED BY <1>1, <2>2 DEF MasterInv, CallsOK, ApiOK, Master!Open, Master!Callers
<1>2. CASE /\ ~Master!Open /\ Master!Become(c, Master!Sent(call))
           /\ api' = [api EXCEPT !.since = 0, !.broken = FALSE, !.leaks = 0]
  <2>1. IsCall(Master!Sent(call))
    BY DEF Master!Sent, IsCall
  <2>2. CallsOK(calls')
    BY <1>2, <2>1, CallChanged
  <2>3. api' = [api EXCEPT !.since = 0, !.broken = FALSE, !.cool = api.cool, !.leaks = 0]
    BY <1>2, MasterTypes
  <2>4. ApiOK(api') /\ api'.broken = FALSE
    <3>1. 0 \in Int /\ 0 \in Nat /\ FALSE \in BOOLEAN
      OBVIOUS
    <3> QED BY <2>3, <3>1, MasterTypes, ApiAfter, Zenon
  <2> QED BY <2>2, <2>4 DEF MasterInv, CallsOK, ApiOK, Master!Open, Master!Callers
<1>3. CASE /\ ~Master!Open
           /\ Master!Become(c, [call EXCEPT !.at = "waiting",
                                            !.left = Master!MinInterval - api.since])
           /\ api' = [api EXCEPT !.broken = FALSE, !.leaks = 0]
  <2>1. PICK next : next = [call EXCEPT !.at = "waiting", !.left = Master!MinInterval - api.since]
    OBVIOUS
  <2>2. IsCall(next)
    BY <2>1 DEF IsCall, Master!MinInterval, MasterInv, CallsOK, ApiOK
  <2>3. CallsOK(calls')
    BY <1>3, <2>1, <2>2, CallChanged
  <2>4. /\ ApiOK(api')
        /\ api'.broken = FALSE
    BY <1>3 DEF MasterInv, CallsOK, ApiOK
  <2> QED BY <2>3, <2>4 DEF MasterInv, CallsOK, ApiOK, Master!Open, Master!Callers
<1> QED BY <1>1, <1>2, <1>3, Zenon DEF Master!Enter

\* A call ends, or goes to its backoff: the breaker stays as it is.
LEMMA EndsOrBacksOff ==
  ASSUME FinitelyMany, MasterInv, NEW c \in Master!Callers, NEW call, IsCall(call),
         call.at # "waiting", Master!Become(c, call),
         api'.broken = api.broken, api'.cool = api.cool, api'.leaks = api.leaks,
         ApiOK(api')
  PROVE  MasterInv'
<1>1. /\ CallsOK(calls')
      /\ Cardinality(Asleep) \in Nat /\ Cardinality(Asleep') \in Nat
      /\ Cardinality(Master!Callers) \in Nat /\ Cardinality(Asleep') <= Cardinality(Asleep)
  BY CallChanged
<1> QED BY <1>1 DEF MasterInv, CallsOK, ApiOK, Master!Open, Master!Callers

LEMMA AnalyzeStep ==
  ASSUME FinitelyMany, MasterInv, NEW c \in Commentators, Master!AnalyzeMove(c)
  PROVE  MasterInv'
<1>1. PICK k \in Keys : Master!Enter(c, Master!New(k))
  BY Zenon DEF Master!AnalyzeMove
<1>2. IsCall(Master!New(k)) /\ Master!New(k).at = "idle"
  BY DEF Master!New, Master!Idle, IsCall
<1>3. c \in Master!Callers /\ calls[c].at # "waiting"
  BY DEF Master!Callers, Master!AnalyzeMove
<1> QED BY <1>1, <1>2, <1>3, Enters

LEMMA CallStep ==
  ASSUME FinitelyMany, MasterInv, NEW c \in Others, Master!CallGemini(c)
  PROVE  MasterInv'
<1>1. Master!Enter(c, Master!New(None))
  BY DEF Master!CallGemini
<1>2. IsCall(Master!New(None)) /\ Master!New(None).at = "idle"
  BY DEF Master!New, Master!Idle, IsCall
<1>3. c \in Master!Callers /\ calls[c].at # "waiting"
  BY DEF Master!Callers, Master!CallGemini
<1> QED BY <1>1, <1>2, <1>3, Enters

LEMMA WaitOverStep ==
  ASSUME FinitelyMany, MasterInv, NEW c \in Master!Callers, Master!WaitOver(c)
  PROVE  MasterInv'
<1>1. PICK call : call = Master!Sent(calls[c])
  OBVIOUS
<1>2. IsCall(call) /\ call.at = "sent"
  BY <1>1, MasterTypes DEF Master!Sent, IsCall
<1>3. Master!Become(c, call) /\ calls[c].at = "waiting"
  BY <1>1, Zenon DEF Master!WaitOver, Master!SendNow
<1>4. /\ CallsOK(calls')
      /\ Cardinality(Asleep) \in Nat /\ Cardinality(Asleep') \in Nat
      /\ Cardinality(Master!Callers) \in Nat /\ Cardinality(Asleep') + 1 = Cardinality(Asleep)
  BY <1>2, <1>3, CallChanged
<1>5. PICK n \in Nat : n = IF Master!Open THEN api.leaks + 1 ELSE api.leaks
  BY MasterTypes
<1>6. api' = [api EXCEPT !.since = 0, !.broken = api.broken, !.cool = api.cool, !.leaks = n]
  <2>1. api' = [api EXCEPT !.since = 0, !.leaks = n]
    BY <1>5, Zenon DEF Master!WaitOver, Master!SendNow
  <2> QED BY <2>1, MasterTypes
<1>7. /\ ApiOK(api')
      /\ api'.broken = api.broken /\ api'.cool = api.cool /\ api'.leaks = n
  <2>1. 0 \in Int
    OBVIOUS
  <2> QED BY <1>6, <2>1, MasterTypes, ApiAfter, Zenon
<1>8. Master!Open' => Master!Open
  BY <1>7 DEF Master!Open
<1>9. Master!Open' => api'.leaks + Cardinality(Asleep') < Cardinality(Master!Callers)
  BY <1>4, <1>5, <1>7, <1>8, MasterTypes DEF MasterInv, CallsOK, ApiOK
<1> QED BY <1>4, <1>7, <1>9 DEF MasterInv, CallsOK, ApiOK, Master!Callers

LEMMA BackoffOverStep ==
  ASSUME FinitelyMany, MasterInv, NEW c \in Master!Callers, Master!BackoffOver(c)
  PROVE  MasterInv'
<1>1. IsCall(calls[c]) /\ calls[c].at # "waiting" /\ Master!Enter(c, calls[c])
  BY MasterTypes DEF Master!BackoffOver, Master!Retry
<1> QED BY <1>1, Enters

LEMMA AnsweredStep ==
  ASSUME FinitelyMany, MasterInv, NEW c \in Master!Callers,
         Master!Answered(c) \/ Master!FallsBack(c)
  PROVE  MasterInv'
<1>1. PICK cache : api' = [api EXCEPT !.cache = cache]
  <2>1. CASE Master!Answered(c)
    BY <2>1, Zenon DEF Master!Answered
  <2>2. CASE Master!FallsBack(c)
    BY <2>2 DEF Master!FallsBack, MasterInv, CallsOK, ApiOK
  <2> QED BY <2>1, <2>2
<1>2. Master!Become(c, Master!Idle)
  BY Zenon DEF Master!Answered, Master!FallsBack
<1>3. /\ api'.broken = api.broken /\ api'.cool = api.cool /\ api'.leaks = api.leaks
      /\ ApiOK(api')
  BY <1>1 DEF MasterInv, CallsOK, ApiOK
<1> QED BY <1>2, <1>3, MasterTypes, EndsOrBacksOff

LEMMA RetryableStep ==
  ASSUME FinitelyMany, MasterInv, NEW c \in Master!Callers, Master!RetryableError(c)
  PROVE  MasterInv'
<1>1. PICK delay, left : delay = Master!Delay(calls[c]) /\ left = Master!Left(calls[c])
  OBVIOUS
<1>2. PICK call : call = [calls[c] EXCEPT !.at = "backoff", !.left = delay, !.retries = left]
  OBVIOUS
<1>3. Master!Become(c, call) /\ api' = api
  BY <1>1, <1>2, Zenon DEF Master!RetryableError
<1>4. IsCall(call) /\ call.at = "backoff"
  BY <1>2, MasterTypes DEF IsCall
<1>5. ApiOK(api')
  BY <1>3 DEF MasterInv, CallsOK, ApiOK
<1> QED BY <1>3, <1>4, <1>5, EndsOrBacksOff

LEMMA QuotaStep ==
  ASSUME FinitelyMany, MasterInv, NEW c \in Master!Callers, Master!QuotaError(c)
  PROVE  MasterInv'
<1>1. Master!Become(c, Master!Idle)
  BY DEF Master!QuotaError
<1>2. /\ CallsOK(calls')
      /\ Cardinality(Asleep) \in Nat /\ Cardinality(Asleep') \in Nat
      /\ Cardinality(Master!Callers) \in Nat /\ Cardinality(Asleep') <= Cardinality(Asleep)
      /\ Cardinality(Asleep') < Cardinality(Master!Callers)
  BY <1>1, MasterTypes, CallChanged
<1>3. PICK n \in Nat : n = IF Master!Open THEN api.leaks ELSE 0
  BY MasterTypes
<1>4. api' = [api EXCEPT !.broken = TRUE, !.cool = Cooldown, !.leaks = n]
  BY <1>3, Zenon DEF Master!QuotaError
<1>5. /\ ApiOK(api')
      /\ api'.leaks = n
  BY <1>4 DEF MasterInv, CallsOK, ApiOK, FinitelyMany
<1>6. api'.leaks + Cardinality(Asleep') < Cardinality(Master!Callers)
  BY <1>2, <1>3, <1>5, MasterTypes DEF MasterInv, CallsOK, ApiOK
<1> QED BY <1>2, <1>5, <1>6 DEF MasterInv, CallsOK, ApiOK, Master!Callers

LEMMA MasterTick == ASSUME FinitelyMany, MasterInv, Master!Tick PROVE MasterInv'
<1>1. calls' = [c \in Master!Callers |-> [calls[c] EXCEPT !.left = Master!Less(@)]]
  BY DEF Master!Tick
<1>2. ASSUME NEW c \in Master!Callers
      PROVE  IsCall(calls'[c]) /\ calls'[c].at = calls[c].at
  <2>1. IsCall(calls[c])
    BY MasterTypes
  <2>2. PICK left : left = Master!Less(calls[c].left)
    OBVIOUS
  <2>3. calls'[c] = [calls[c] EXCEPT !.left = left]
    BY <1>1, <2>2, Zenon
  <2> QED BY <2>1, <2>3 DEF IsCall
<1>3. CallsOK(calls')
  BY <1>1, <1>2, Zenon DEF CallsOK
<1>4. Asleep' = Asleep
  BY <1>2 DEF Asleep, Master!Callers
<1>5. PICK s \in Int, n \in Nat : /\ s = Master!Older(api.since) /\ n = Master!Less(api.cool)
                                  /\ n > 0 => api.cool > 0
  <2>1. Master!Older(api.since) \in Int /\ Master!Less(api.cool) \in Nat
    BY MasterTypes DEF Master!Older, Master!Less, Master!MinInterval
  <2>2. Master!Less(api.cool) > 0 => api.cool > 0
    BY MasterTypes DEF Master!Less
  <2> QED BY <2>1, <2>2
<1>51. api' = [api EXCEPT !.since = s, !.cool = n]
  BY <1>5, Zenon DEF Master!Tick
<1>6. /\ ApiOK(api')
      /\ api'.leaks = api.leaks /\ api'.broken = api.broken /\ api'.cool = n
  BY <1>51 DEF MasterInv, CallsOK, ApiOK
<1>7. Master!Open' => Master!Open
  BY <1>5, <1>6 DEF Master!Open
<1> QED BY <1>3, <1>4, <1>6, <1>7 DEF MasterInv, CallsOK, ApiOK, Master!Callers

LEMMA MasterBegins == FinitelyMany /\ Master!Init => MasterInv
<1> SUFFICES ASSUME FinitelyMany, Master!Init PROVE MasterInv
  OBVIOUS
<1>1. ~api.broken
  BY DEF Master!Init
<1> QED BY <1>1 DEF Master!Init, MasterInv, CallsOK, ApiOK, IsCall, Master!Idle,
     Master!MinInterval, Master!Open

LEMMA MasterStep == ASSUME FinitelyMany, MasterInv, [Master!Next]_(Master!vars) PROVE MasterInv'
<1>1. CASE UNCHANGED Master!vars
  BY <1>1 DEF Master!vars, MasterInv, CallsOK, ApiOK, Master!Open, Asleep, Master!Callers
<1>2. CASE Master!Next
  <2>1. ASSUME NEW c \in Master!Callers, Master!Proceeds(c) PROVE MasterInv'
    BY <2>1, WaitOverStep, BackoffOverStep, AnsweredStep, RetryableStep, QuotaStep, Zenon
       DEF Master!Proceeds
  <2> QED BY <1>2, <2>1, AnalyzeStep, CallStep, MasterTick, Zenon DEF Master!Next
<1> QED BY <1>1, <1>2

\* The circuit breaker of gemini.ts, once open, lets out fewer requests than there are
\* calls: those that were asleep in callGemini, one each.
THEOREM BreakerAlwaysHolds == FinitelyMany => (Master!Spec => []BreakerHolds)
<1> SUFFICES ASSUME FinitelyMany PROVE Master!Spec => []BreakerHolds
  OBVIOUS
<1>1. Master!Init => MasterInv
  BY MasterBegins
<1>2. MasterInv /\ [Master!Next]_(Master!vars) => MasterInv'
  BY MasterStep
<1>3. ASSUME MasterInv PROVE BreakerHolds
  <2>1. Asleep \subseteq Master!Callers
    BY DEF Asleep
  <2>2. Cardinality(Asleep) \in Nat /\ Cardinality(Master!Callers) \in Nat
    BY <2>1, FS_Subset, FS_CardinalityType DEF FinitelyMany
  <2>3. api.leaks \in Nat
    BY <1>3, MasterTypes
  <2>4. Master!Open => api.leaks + Cardinality(Asleep) < Cardinality(Master!Callers)
    BY <1>3 DEF MasterInv
  <2>5. Master!Cardinality(Master!Callers) = Cardinality(Master!Callers)
    BY DEF Master!Cardinality, Cardinality
  <2>6. Master!Open => api.leaks < Cardinality(Master!Callers)
    BY <2>2, <2>3, <2>4
  <2> QED BY <2>5, <2>6 DEF BreakerHolds, Master!BreakerHolds
<1> QED BY <1>1, <1>2, <1>3, PTL DEF Master!Spec

------------------------------------------------------------------------------
\* THE WORKER.

Requests ==
  [action : {"calculate"}, id : Nat, joueurIa : {Ai!Tutor, Ai!Machine}, clearTT : BOOLEAN,
   useMCTS : BOOLEAN]

Messages == Requests \cup [action : {"learn"}]

Tasks ==
  [who : {Ai!Tutor, Ai!Machine}, kind : {"deepening", "tree", "single"}, board : Int,
   depth : Nat, id : Nat, active : BOOLEAN]

\* A request that uses the table, of the tutor, or of the machine beginning anew.
Searches(m) == m.action = "calculate" /\ ~m.useMCTS
Tutors(m) == Searches(m) /\ m.joueurIa = Ai!Tutor
Renews(m) == Searches(m) /\ m.joueurIa = Ai!Machine /\ m.clearTT

\* The table is the machine's when the first n messages have been handled: what the
\* tutor has put there, or will, the machine empties after it.
MachinesAfter(n) ==
  /\ Ai!Tutor \in worker.table => \E k \in 1..n : Renews(worker.queue[k])
  /\ \A j \in 1..n : Tutors(worker.queue[j]) =>
       \E k \in 1..n : j < k /\ Renews(worker.queue[k])

\* A request that does not empty the table is the machine's, which finds there its own.
InTurn ==
  \A n \in 1..Len(worker.queue) :
    LET m == worker.queue[n]
    IN Searches(m) /\ ~m.clearTT => m.joueurIa = Ai!Machine /\ MachinesAfter(n - 1)

\* One task goes on at a time; the machine's loop, once begun, finds the table its own.
OneGoesOn ==
  /\ \A a, b \in desk.tasks : a.active /\ b.active => a = b
  /\ \A t \in desk.tasks :
       /\ t.kind = "deepening" => t.who = Ai!Machine
       /\ t.active /\ t.kind = "deepening" /\ t.depth > 0 => MachinesAfter(Len(worker.queue))

AiInv ==
  /\ desk \in [board : Int, tasks : SUBSET Tasks, callbacks : SUBSET Nat, msgId : Nat]
  /\ worker.queue \in Seq(Messages) /\ DOMAIN worker = {"queue", "replies", "table", "mixed"}
  /\ worker.table \subseteq {Ai!Tutor, Ai!Machine}
  /\ ~worker.mixed /\ InTurn /\ OneGoesOn

USE DEF Ai!Tutor, Ai!Machine

\* Messages.
LEMMA RequestFields ==
  ASSUME NEW m \in Requests
  PROVE  /\ m.action = "calculate" /\ m.joueurIa \in {0, 1} /\ m.clearTT \in BOOLEAN
         /\ m.useMCTS \in BOOLEAN /\ m.id \in Nat
BY DEF Requests

LEMMA MessageKinds ==
  ASSUME NEW m \in Messages
  PROVE  (m.action = "learn" /\ ~Searches(m)) \/ m \in Requests
BY DEF Messages, Searches

LEMMA QueueTail ==
  ASSUME NEW q \in Seq(Messages), q # <<>>
  PROVE  /\ Head(q) \in Messages /\ Head(q) = q[1] /\ Tail(q) \in Seq(Messages)
         /\ Len(q) \in Nat /\ Len(q) >= 1 /\ Len(Tail(q)) = Len(q) - 1
         /\ \A i \in 1..Len(Tail(q)) : Tail(q)[i] = q[i + 1]
OBVIOUS

LEMMA QueueAppend ==
  ASSUME NEW q \in Seq(Messages), NEW m \in Messages
  PROVE  /\ Append(q, m) \in Seq(Messages) /\ Len(Append(q, m)) = Len(q) + 1
         /\ Len(q) \in Nat /\ \A i \in 1..Len(q) : Append(q, m)[i] = q[i]
         /\ Append(q, m)[Len(q) + 1] = m
OBVIOUS

\* A message is added to the queue.
LEMMA AppendKeeps ==
  ASSUME worker.queue \in Seq(Messages), NEW m \in Messages,
         worker'.queue = Append(worker.queue, m), worker'.table = worker.table
  PROVE  /\ \A n \in 0..Len(worker.queue) : MachinesAfter(n)' <=> MachinesAfter(n)
         /\ Len(worker'.queue) = Len(worker.queue) + 1 /\ Len(worker.queue) \in Nat
         /\ worker'.queue \in Seq(Messages)
         /\ \A i \in 1..Len(worker.queue) : worker'.queue[i] = worker.queue[i]
         /\ worker'.queue[Len(worker.queue) + 1] = m
         /\ \A n : n = Len(worker.queue) + 1 /\ Renews(m) => MachinesAfter(n)'
         /\ \A n : n = Len(worker.queue) + 1 /\ MachinesAfter(Len(worker.queue)) /\ ~Tutors(m) =>
              MachinesAfter(n)'
<1>1. /\ Len(worker'.queue) = Len(worker.queue) + 1 /\ Len(worker.queue) \in Nat
      /\ worker'.queue \in Seq(Messages)
      /\ \A i \in 1..Len(worker.queue) : worker'.queue[i] = worker.queue[i]
      /\ worker'.queue[Len(worker.queue) + 1] = m
  BY QueueAppend
<1>0. PICK len : len = Len(worker.queue)
  OBVIOUS
<1>2. ASSUME NEW n \in 0..Len(worker.queue)
      PROVE  MachinesAfter(n)' <=> MachinesAfter(n)
  <2>1. \A i \in 1..n : i \in 1..Len(worker.queue)
    BY <1>1
  <2>2. \A i \in 1..n : worker'.queue[i] = worker.queue[i]
    BY <1>1, <2>1
  <2> QED BY <2>2, Zenon DEF MachinesAfter
<1>3. ASSUME Renews(m), NEW n, n = Len(worker.queue) + 1
      PROVE  MachinesAfter(n)'
  <2>1. n \in 1..n /\ Renews(worker'.queue[n])
    BY <1>1, <1>3
  <2>2. ASSUME NEW j \in 1..n, Tutors(worker'.queue[j])
        PROVE  \E k \in 1..n : j < k /\ Renews(worker'.queue[k])
    <3>1. j # n
      BY <1>1, <1>3, <2>2 DEF Tutors, Renews
    <3>2. j < n
      BY <1>1, <1>3, <3>1
    <3> QED BY <2>1, <3>2, Zenon
  <2> QED BY <2>1, <2>2, Zenon DEF MachinesAfter
<1>4. ASSUME MachinesAfter(Len(worker.queue)), ~Tutors(m), NEW n, n = Len(worker.queue) + 1
      PROVE  MachinesAfter(n)'
  <2>1. \A i \in 1..len : i \in 1..n /\ worker'.queue[i] = worker.queue[i]
    BY <1>0, <1>1, <1>4
  <2>2. MachinesAfter(len)
    BY <1>0, <1>4, Zenon
  <2>3. Ai!Tutor \in worker'.table => \E k \in 1..n : Renews(worker'.queue[k])
    BY <2>1, <2>2, Zenon DEF MachinesAfter
  <2>4. ASSUME NEW j \in 1..n, Tutors(worker'.queue[j])
        PROVE  \E k \in 1..n : j < k /\ Renews(worker'.queue[k])
    <3>1. j \in 1..len
      BY <1>0, <1>1, <1>4, <2>4
    <3> QED BY <2>1, <2>2, <2>4, <3>1, Zenon DEF MachinesAfter
  <2> QED BY <2>3, <2>4, Zenon DEF MachinesAfter
<1> QED BY <1>1, <1>2, <1>3, <1>4, Zenon

\* Then what is asked in turn is still, if the message added is.
LEMMA AppendInTurn ==
  ASSUME InTurn, worker.queue \in Seq(Messages), NEW m \in Messages,
         worker'.queue = Append(worker.queue, m), worker'.table = worker.table,
         Searches(m) /\ ~m.clearTT =>
           m.joueurIa = Ai!Machine /\ MachinesAfter(Len(worker.queue))
  PROVE  InTurn'
<1> DEFINE len == Len(worker.queue)
<1>1. /\ Len(worker'.queue) = len + 1 /\ len \in Nat
      /\ \A i \in 1..len : worker'.queue[i] = worker.queue[i]
      /\ worker'.queue[len + 1] = m
      /\ \A n \in 0..len : MachinesAfter(n)' <=> MachinesAfter(n)
  BY AppendKeeps
<1> HIDE DEF len
<1>2. ASSUME NEW n \in 1..Len(worker'.queue), Searches(worker'.queue[n]), ~worker'.queue[n].clearTT
      PROVE  worker'.queue[n].joueurIa = Ai!Machine /\ MachinesAfter(n - 1)'
  <2>1. CASE n \in 1..len
    <3>1. worker'.queue[n] = worker.queue[n] /\ n - 1 \in 0..len
      BY <1>1, <2>1
    <3>2. worker.queue[n].joueurIa = Ai!Machine /\ MachinesAfter(n - 1)
      BY <1>2, <2>1, <3>1, Zenon DEF InTurn, len
    <3> QED BY <1>1, <3>1, <3>2, Zenon
  <2>2. CASE n = len + 1
    <3>1. n - 1 = len /\ len \in 0..len
      BY <1>1, <2>2
    <3>2. m.joueurIa = Ai!Machine /\ MachinesAfter(len)
      BY <1>1, <1>2, <2>2, Zenon DEF len
    <3> QED BY <1>1, <2>2, <3>1, <3>2, Zenon
  <2> QED BY <1>1, <1>2, <2>1, <2>2
<1> QED BY <1>2 DEF InTurn

\* The first message is handled.
LEMMA TailKeeps ==
  ASSUME worker.queue \in Seq(Messages), worker.queue # <<>>,
         worker'.queue = Tail(worker.queue),
         Ai!Tutor \in worker'.table =>
           \/ Ai!Tutor \in worker.table /\ ~Renews(Head(worker.queue))
           \/ Tutors(Head(worker.queue))
  PROVE  /\ \A n \in 0..Len(worker'.queue) : MachinesAfter(n + 1) => MachinesAfter(n)'
         /\ worker'.queue \in Seq(Messages)
         /\ Len(worker'.queue) = Len(worker.queue) - 1 /\ Len(worker.queue) \in Nat
         /\ \A i \in 1..Len(worker'.queue) : worker'.queue[i] = worker.queue[i + 1]
<1>1. /\ worker'.queue \in Seq(Messages) /\ Head(worker.queue) = worker.queue[1]
      /\ Len(worker'.queue) = Len(worker.queue) - 1 /\ Len(worker.queue) \in Nat
      /\ Len(worker.queue) >= 1
      /\ \A i \in 1..Len(worker'.queue) : worker'.queue[i] = worker.queue[i + 1]
  BY QueueTail
<1>2. ASSUME NEW n \in 0..Len(worker'.queue), MachinesAfter(n + 1)
      PROVE  MachinesAfter(n)'
  <2>1. ASSUME NEW k \in 1..(n + 1), k # 1
        PROVE  k - 1 \in 1..n /\ worker'.queue[k - 1] = worker.queue[k]
    <3>1. k - 1 \in 1..n /\ k - 1 \in 1..Len(worker'.queue) /\ (k - 1) + 1 = k
      BY <1>1, <1>2, <2>1
    <3> QED BY <1>1, <3>1
  <2>2. ASSUME Ai!Tutor \in worker'.table
        PROVE  \E k \in 1..n : Renews(worker'.queue[k])
    <3>1. \E k \in 1..(n + 1) : k # 1 /\ Renews(worker.queue[k])
      <4>1. CASE Ai!Tutor \in worker.table /\ ~Renews(Head(worker.queue))
        <5>1. PICK k \in 1..(n + 1) : Renews(worker.queue[k])
          BY <1>2, <4>1, Zenon DEF MachinesAfter
        <5> QED BY <1>1, <4>1, <5>1, Zenon
      <4>2. CASE Tutors(Head(worker.queue))
        <5>1. 1 \in 1..(n + 1)
          BY <1>1, <1>2
        <5>2. PICK k \in 1..(n + 1) : 1 < k /\ Renews(worker.queue[k])
          BY <1>1, <1>2, <4>2, <5>1, Zenon DEF MachinesAfter
        <5> QED BY <5>2
      <4> QED BY <2>2, <4>1, <4>2
    <3> QED BY <2>1, <3>1, Zenon
  <2>3. ASSUME NEW j \in 1..n, Tutors(worker'.queue[j])
        PROVE  \E k \in 1..n : j < k /\ Renews(worker'.queue[k])
    <3>1. j + 1 \in 1..(n + 1) /\ worker'.queue[j] = worker.queue[j + 1] /\ j \in Nat
      BY <1>1, <1>2, <2>3
    <3>2. PICK k \in 1..(n + 1) : j + 1 < k /\ Renews(worker.queue[k])
      BY <1>2, <2>3, <3>1, Zenon DEF MachinesAfter
    <3>3. k # 1 /\ j < k - 1
      BY <3>1, <3>2
    <3> QED BY <2>1, <3>2, <3>3, Zenon
  <2> QED BY <2>2, <2>3, Zenon DEF MachinesAfter
<1> QED BY <1>1, <1>2

\* When the first message is asked in turn, so are those behind it.
LEMMA TailInTurn ==
  ASSUME InTurn, worker.queue \in Seq(Messages), worker.queue # <<>>,
         worker'.queue = Tail(worker.queue),
         Ai!Tutor \in worker'.table =>
           \/ Ai!Tutor \in worker.table /\ ~Renews(Head(worker.queue))
           \/ Tutors(Head(worker.queue))
  PROVE  InTurn'
<1>1. /\ \A n \in 0..Len(worker'.queue) : MachinesAfter(n + 1) => MachinesAfter(n)'
      /\ Len(worker'.queue) = Len(worker.queue) - 1 /\ Len(worker.queue) \in Nat
      /\ \A i \in 1..Len(worker'.queue) : worker'.queue[i] = worker.queue[i + 1]
  BY TailKeeps
<1>2. ASSUME NEW n \in 1..Len(worker'.queue), Searches(worker'.queue[n]), ~worker'.queue[n].clearTT
      PROVE  worker'.queue[n].joueurIa = Ai!Machine /\ MachinesAfter(n - 1)'
  <2>1. /\ worker'.queue[n] = worker.queue[n + 1] /\ n + 1 \in 1..Len(worker.queue)
        /\ n - 1 \in 0..Len(worker'.queue) /\ (n + 1) - 1 = (n - 1) + 1
    BY <1>1
  <2>2. worker.queue[n + 1].joueurIa = Ai!Machine /\ MachinesAfter((n + 1) - 1)
    BY <1>2, <2>1, Zenon DEF InTurn
  <2>3. MachinesAfter((n - 1) + 1)
    BY <2>1, <2>2, Zenon
  <2> QED BY <1>1, <2>1, <2>2, <2>3, Zenon
<1> QED BY <1>2 DEF InTurn

LEMMA TaskFields ==
  ASSUME NEW t \in Tasks
  PROVE  /\ t.who \in {Ai!Tutor, Ai!Machine} /\ t.depth \in Nat /\ t.id \in Nat
         /\ t.kind \in {"deepening", "tree", "single"}
         /\ t.active \in BOOLEAN
         /\ \A id \in Nat :
              LET u == [t EXCEPT !.id = id]
              IN /\ u \in Tasks /\ u.kind = t.kind /\ u.who = t.who /\ u.active = t.active
                 /\ u.depth = t.depth
         /\ \A board \in Int :
              LET u == [t EXCEPT !.board = board]
              IN /\ u \in Tasks /\ u.kind = t.kind /\ u.who = t.who /\ u.active = t.active
                 /\ u.depth = t.depth
         /\ LET u == [t EXCEPT !.active = FALSE]
            IN u \in Tasks /\ u.kind = t.kind /\ u.who = t.who /\ ~u.active
BY DEF Tasks

LEMMA AiFields ==
  ASSUME AiInv
  PROVE  /\ desk.board \in Int /\ desk.tasks \subseteq Tasks /\ desk.callbacks \subseteq Nat
         /\ desk.msgId \in Nat
         /\ DOMAIN worker = {"queue", "replies", "table", "mixed"}
         /\ worker.queue \in Seq(Messages) /\ worker.table \subseteq {Ai!Tutor, Ai!Machine}
         /\ ~worker.mixed /\ InTurn /\ OneGoesOn
BY DEF AiInv

LEMMA BoardChangesStep == ASSUME AiInv, Ai!BoardChanges PROVE AiInv'
<1>1. worker' = worker
  BY DEF Ai!BoardChanges
<1>2. \A n : MachinesAfter(n)' <=> MachinesAfter(n)
  BY <1>1, Zenon DEF MachinesAfter
<1>3. InTurn'
  BY <1>1, <1>2, AiFields, Zenon DEF InTurn
<1>4. PICK new \in {{}, {Ai!Task(Ai!Machine, "deepening")}, {Ai!Task(Ai!Machine, "tree")},
                    {Ai!Task(Ai!Tutor, "single")}} :
        desk' = [desk EXCEPT !.board = @ + 1, !.tasks = Ai!Undone(@) \cup
                   {[t EXCEPT !.board = desk.board + 1] : t \in new}]
  BY Zenon DEF Ai!BoardChanges
<1>5. PICK begun : begun = {[t EXCEPT !.board = desk.board + 1] : t \in new}
  OBVIOUS
<1>61. PICK board \in Int : board = desk.board + 1
  BY AiFields
<1>62. PICK tasks : tasks = Ai!Undone(desk.tasks) \cup begun
  OBVIOUS
<1>6. board = desk.board + 1 /\ tasks = Ai!Undone(desk.tasks) \cup begun
  BY <1>61, <1>62
<1>7. desk' = [desk EXCEPT !.board = board, !.tasks = tasks]
  BY <1>4, <1>5, <1>6, Zenon
<1>8. \A t \in begun : t \in Tasks /\ t.depth = 0 /\ (t.kind = "deepening" => t.who = Ai!Machine)
  <2>1. ASSUME NEW who \in {Ai!Tutor, Ai!Machine}, NEW kind \in {"deepening", "tree", "single"}
        PROVE  /\ Ai!Task(who, kind) \in Tasks /\ Ai!Task(who, kind).depth = 0
               /\ Ai!Task(who, kind).kind = kind /\ Ai!Task(who, kind).who = who
    BY AiFields DEF Ai!Task, Tasks
  <2>2. \A t \in new : t \in Tasks /\ t.depth = 0 /\ (t.kind = "deepening" => t.who = Ai!Machine)
    BY <1>4, <2>1
  <2>3. ASSUME NEW t \in begun
        PROVE  t \in Tasks /\ t.depth = 0 /\ (t.kind = "deepening" => t.who = Ai!Machine)
    <3>1. PICK u \in new : t = [u EXCEPT !.board = board]
      BY <1>5, <1>6, <2>3
    <3>2. u \in Tasks /\ u.depth = 0 /\ (u.kind = "deepening" => u.who = Ai!Machine)
      BY <2>2, <3>1
    <3>3. t \in Tasks /\ t.kind = u.kind /\ t.who = u.who /\ t.depth = u.depth
      BY <3>1, <3>2, TaskFields
    <3> QED BY <3>2, <3>3
  <2> QED BY <2>3
<1>9. \A a, b \in begun : a = b
  BY <1>4, <1>5
<1>10. ASSUME NEW t \in Ai!Undone(desk.tasks)
       PROVE  t \in Tasks /\ ~t.active /\ (t.kind = "deepening" => t.who = Ai!Machine)
  <2>1. PICK u \in desk.tasks : t = [u EXCEPT !.active = FALSE]
    BY <1>10 DEF Ai!Undone
  <2> QED BY <2>1, AiFields, TaskFields, Zenon DEF OneGoesOn
<1>11. tasks \subseteq Tasks /\ tasks = Ai!Undone(desk.tasks) \cup begun
  BY <1>6, <1>8, <1>10
<1>12. /\ desk' \in [board : Int, tasks : SUBSET Tasks, callbacks : SUBSET Nat, msgId : Nat]
       /\ desk'.tasks = tasks
  BY <1>7, <1>11, AiFields DEF AiInv
<1>13. OneGoesOn'
  <2>1. \A t \in tasks : t \in begun \/ t \in Ai!Undone(desk.tasks)
    BY <1>11
  <2>2. \A a, b \in tasks : a.active /\ b.active => a = b
    BY <1>9, <1>10, <2>1, Zenon
  <2>3. ASSUME NEW t \in tasks
        PROVE  /\ t.kind = "deepening" => t.who = Ai!Machine
               /\ ~(t.active /\ t.depth > 0)
    <3>1. CASE t \in begun
      BY <1>8, <3>1
    <3>2. CASE t \in Ai!Undone(desk.tasks)
      BY <1>10, <3>2
    <3> QED BY <2>1, <3>1, <3>2
  <2> QED BY <1>12, <2>2, <2>3, Zenon DEF OneGoesOn
<1> QED BY <1>1, <1>3, <1>12, <1>13, AiFields, Zenon DEF AiInv

\* The queue may go on growing, with what is not the tutor's, while the loop waits.
LEMMA LearnStep == ASSUME AiInv, Ai!NotifyPlayerMoveToAI PROVE AiInv'
<1>1. PICK m : m = [action |-> "learn"]
  OBVIOUS
<1>2. m \in Messages /\ ~Searches(m) /\ ~Tutors(m)
  BY <1>1 DEF Messages, Searches, Tutors
<1>3. worker' = [worker EXCEPT !.queue = Append(worker.queue, m)] /\ desk' = desk
  BY <1>1, Zenon DEF Ai!NotifyPlayerMoveToAI
<1>4. /\ worker'.queue = Append(worker.queue, m) /\ worker'.table = worker.table
      /\ worker'.mixed = worker.mixed
      /\ DOMAIN worker' = {"queue", "replies", "table", "mixed"}
  BY <1>3, AiFields, Zenon
<1>5. InTurn'
  BY <1>2, <1>4, AiFields, AppendInTurn
<1>6. /\ Len(worker'.queue) = Len(worker.queue) + 1 /\ worker'.queue \in Seq(Messages)
      /\ \A n : n = Len(worker.queue) + 1 /\ MachinesAfter(Len(worker.queue)) => MachinesAfter(n)'
  BY <1>2, <1>4, AiFields, AppendKeeps
<1>7. OneGoesOn'
  BY <1>3, <1>6, AiFields, Zenon DEF OneGoesOn
<1> QED BY <1>3, <1>4, <1>5, <1>6, <1>7, AiFields, Zenon DEF AiInv

\* A task goes on to its request m, and is t2 then.
LEMMA RequestStep ==
  ASSUME AiInv, NEW t \in desk.tasks, t.active, NEW t2 \in Tasks,
         t2.kind = t.kind, t2.who = t.who, t2.active = t.active, t2.depth = t.depth + 1,
         NEW m \in Requests, m.joueurIa = t.who, m.useMCTS = (t.kind = "tree"),
         m.clearTT = (t.depth = 0 /\ t.kind # "tree"),
         t.depth = 0 \/ t.kind = "deepening",
         desk'.tasks = (desk.tasks \ {t}) \cup {t2},
         desk' \in [board : Int, tasks : SUBSET Tasks, callbacks : SUBSET Nat, msgId : Nat],
         worker' = [worker EXCEPT !.queue = Append(worker.queue, m)]
  PROVE  AiInv'
<1>0. t \in Tasks /\ t.depth \in Nat /\ t.kind \in {"deepening", "tree", "single"}
  BY AiFields, TaskFields
<1>1. m \in Messages /\ m.action = "calculate"
  BY RequestFields DEF Messages
<1>2. /\ worker'.queue = Append(worker.queue, m) /\ worker'.table = worker.table
      /\ worker'.mixed = worker.mixed
      /\ DOMAIN worker' = {"queue", "replies", "table", "mixed"}
  BY AiFields, Zenon
<1>3. Searches(m) /\ ~m.clearTT =>
        t.kind = "deepening" /\ t.depth > 0 /\ m.joueurIa = Ai!Machine
          /\ MachinesAfter(Len(worker.queue))
  <2>1. SUFFICES ASSUME Searches(m), ~m.clearTT
                 PROVE  t.kind = "deepening" /\ t.depth > 0 /\ m.joueurIa = Ai!Machine
                          /\ MachinesAfter(Len(worker.queue))
    OBVIOUS
  <2>2. t.kind # "tree" /\ t.depth # 0
    BY <2>1, Zenon DEF Searches
  <2>3. t.kind = "deepening" /\ t.depth > 0
    BY <1>0, <2>2
  <2>4. t.who = Ai!Machine /\ MachinesAfter(Len(worker.queue))
    BY <2>3, AiFields DEF OneGoesOn
  <2> QED BY <2>3, <2>4
<1>4. InTurn'
  BY <1>1, <1>2, <1>3, AiFields, AppendInTurn, Zenon
<1>5. /\ Len(worker'.queue) = Len(worker.queue) + 1 /\ worker'.queue \in Seq(Messages)
      /\ \A n : n = Len(worker.queue) + 1 /\ Renews(m) => MachinesAfter(n)'
      /\ \A n : n = Len(worker.queue) + 1 /\ MachinesAfter(Len(worker.queue)) /\ ~Tutors(m) =>
           MachinesAfter(n)'
  BY <1>1, <1>2, AiFields, AppendKeeps, Zenon
<1>6. t2.kind = "deepening" => MachinesAfter(Len(worker.queue))'
  <2>1. SUFFICES ASSUME t.kind = "deepening" PROVE MachinesAfter(Len(worker.queue))'
    OBVIOUS
  <2>2. t.who = Ai!Machine
    BY <2>1, AiFields DEF OneGoesOn
  <2>3. CASE t.depth = 0
    <3>1. Renews(m)
      BY <1>1, <2>1, <2>2, <2>3 DEF Renews, Searches
    <3> QED BY <1>5, <3>1, Zenon
  <2>4. CASE t.depth > 0
    <3>1. MachinesAfter(Len(worker.queue))
      BY <2>1, <2>4, AiFields DEF OneGoesOn
    <3>2. ~Tutors(m)
      BY <2>2 DEF Tutors
    <3> QED BY <1>5, <3>1, <3>2, Zenon
  <2> QED BY <1>0, <2>3, <2>4
<1>7. OneGoesOn'
  <2>1. \A u \in desk'.tasks : u.active => u = t2
    BY AiFields DEF OneGoesOn
  <2>2. \A u \in desk'.tasks : u.kind = "deepening" => u.who = Ai!Machine
    BY AiFields DEF OneGoesOn
  <2> QED BY <1>6, <2>1, <2>2, Zenon DEF OneGoesOn
<1> QED BY <1>2, <1>4, <1>5, <1>7, AiFields, Zenon DEF AiInv

\* A task that is none of those going on is dropped, or kept as t2.
LEMMA TaskEnds ==
  ASSUME AiInv, NEW t \in desk.tasks, NEW more \in SUBSET Tasks,
         \A u \in more : u.kind = t.kind /\ u.who = t.who /\ u.active = t.active
                         /\ u.depth = t.depth,
         \A u, v \in more : u = v,
         desk'.tasks = (desk.tasks \ {t}) \cup more
  PROVE  /\ desk'.tasks \subseteq Tasks
         /\ \A a, b \in desk'.tasks : a.active /\ b.active => a = b
         /\ \A u \in desk'.tasks :
              /\ u.kind = "deepening" => u.who = Ai!Machine
              /\ u.active /\ u.kind = "deepening" /\ u.depth > 0 =>
                   MachinesAfter(Len(worker.queue))
<1>1. \A u \in desk'.tasks : (u \in desk.tasks /\ u # t) \/ u \in more
  OBVIOUS
<1>2. \A a, b \in desk.tasks : a.active /\ b.active => a = b
  BY AiFields DEF OneGoesOn
<1>3. \A a, b \in desk'.tasks : a.active /\ b.active => a = b
  BY <1>1, <1>2, Zenon
<1>4. \A u \in desk.tasks :
        /\ u.kind = "deepening" => u.who = Ai!Machine
        /\ u.active /\ u.kind = "deepening" /\ u.depth > 0 => MachinesAfter(Len(worker.queue))
  BY AiFields DEF OneGoesOn
<1>5. \A u \in desk'.tasks :
        /\ u.kind = "deepening" => u.who = Ai!Machine
        /\ u.active /\ u.kind = "deepening" /\ u.depth > 0 => MachinesAfter(Len(worker.queue))
  BY <1>1, <1>4, Zenon
<1> QED BY <1>3, <1>5, AiFields

LEMMA AsksStep == ASSUME AiInv, Ai!Asks PROVE AiInv'
<1>1. PICK t \in desk.tasks : Ai!GetBestMove(t)
  BY Zenon DEF Ai!Asks
<1>2. /\ t \in Tasks /\ t.depth \in Nat /\ t.active \in BOOLEAN
      /\ t.who \in {Ai!Tutor, Ai!Machine} /\ t.kind \in {"deepening", "tree", "single"}
  BY AiFields, TaskFields
<1>3. CASE t.active
  <2>1. PICK id \in Nat : id = desk.msgId + 1
    BY AiFields
  <2>2. PICK depth \in Nat : depth = t.depth + 1
    BY <1>2
  <2>3. PICK t2 : t2 = [t EXCEPT !.id = id, !.depth = depth]
    OBVIOUS
  <2>4. t2 \in Tasks /\ t2.kind = t.kind /\ t2.who = t.who /\ t2.active = t.active
        /\ t2.depth = t.depth + 1
    BY <1>2, <2>2, <2>3 DEF Tasks
  <2>5. PICK clear \in BOOLEAN : clear = (t.depth = 0 /\ t.kind # "tree")
    <3>1. (t.depth = 0 /\ t.kind # "tree") \in BOOLEAN
      OBVIOUS
    <3> QED BY <3>1, Zenon
  <2>6. PICK tree \in BOOLEAN : tree = (t.kind = "tree")
    <3>1. (t.kind = "tree") \in BOOLEAN
      OBVIOUS
    <3> QED BY <3>1, Zenon
  <2>7. PICK m : m = [action |-> "calculate", id |-> id, joueurIa |-> t.who,
                      clearTT |-> clear, useMCTS |-> tree]
    OBVIOUS
  <2>8. /\ m \in Requests /\ m.joueurIa = t.who /\ m.clearTT = clear /\ m.useMCTS = tree
    BY <1>2, <2>7 DEF Requests
  <2>9. worker' = [worker EXCEPT !.queue = Append(worker.queue, m)]
    BY <1>1, <1>3, <2>1, <2>5, <2>6, <2>7, Zenon DEF Ai!GetBestMove, Ai!GoesOn
  <2>10. desk' = [desk EXCEPT !.msgId = id, !.callbacks = @ \cup {id},
                              !.tasks = (@ \ {t}) \cup {t2}]
    BY <1>1, <1>3, <2>1, <2>2, <2>3, Zenon DEF Ai!GetBestMove, Ai!GoesOn
  <2>11. /\ desk'.tasks = (desk.tasks \ {t}) \cup {t2}
         /\ desk' \in [board : Int, tasks : SUBSET Tasks, callbacks : SUBSET Nat, msgId : Nat]
    BY <2>4, <2>10, AiFields DEF AiInv
  <2>12. t.depth = 0 \/ t.kind = "deepening"
    BY <1>1 DEF Ai!GetBestMove, Ai!GoesDeeper
  <2>13. m.useMCTS = (t.kind = "tree") /\ m.clearTT = (t.depth = 0 /\ t.kind # "tree")
    BY <2>5, <2>6, <2>8, Zenon
  <2> QED BY <1>3, <2>4, <2>8, <2>9, <2>11, <2>12, <2>13, RequestStep, Zenon
<1>4. CASE ~t.active
  <2>1. desk' = [desk EXCEPT !.tasks = @ \ {t}] /\ worker' = worker
    BY <1>1, <1>4, Zenon DEF Ai!GetBestMove, Ai!GoesOn
  <2>0. PICK more \in SUBSET Tasks : more = {}
    OBVIOUS
  <2>2. /\ desk'.tasks = (desk.tasks \ {t}) \cup more
        /\ \A u \in more : FALSE
    BY <2>0, <2>1, AiFields DEF AiInv
  <2>3. /\ desk'.tasks \subseteq Tasks
        /\ \A a, b \in desk'.tasks : a.active /\ b.active => a = b
        /\ \A u \in desk'.tasks :
             /\ u.kind = "deepening" => u.who = Ai!Machine
             /\ u.active /\ u.kind = "deepening" /\ u.depth > 0 =>
                  MachinesAfter(Len(worker.queue))
    BY <2>2, TaskEnds, Zenon
  <2>4. desk' \in [board : Int, tasks : SUBSET Tasks, callbacks : SUBSET Nat, msgId : Nat]
    BY <2>1, AiFields DEF AiInv
  <2>5. OneGoesOn' /\ InTurn'
    BY <2>1, <2>3, AiFields, Zenon DEF OneGoesOn, InTurn, MachinesAfter
  <2> QED BY <2>1, <2>4, <2>5, AiFields, Zenon DEF AiInv
<1> QED BY <1>3, <1>4

LEMMA AnswerStep == ASSUME AiInv, Ai!OnAnswer PROVE AiInv'
<1>0. PICK t \in desk.tasks : \E id :
        desk' = [desk EXCEPT !.callbacks = @ \ {id},
                   !.tasks = (@ \ {t}) \cup
                     (IF Ai!GoesDeeper(t) THEN {[t EXCEPT !.id = 0]} ELSE {})]
  BY DEF Ai!OnAnswer, Ai!CallerOf
<1>1. PICK id :
        desk' = [desk EXCEPT !.callbacks = @ \ {id},
                   !.tasks = (@ \ {t}) \cup
                     (IF Ai!GoesDeeper(t) THEN {[t EXCEPT !.id = 0]} ELSE {})]
  BY <1>0, Zenon
<1>2. worker' = [worker EXCEPT !.replies = Tail(@)]
  BY DEF Ai!OnAnswer
<1>3. /\ worker'.queue = worker.queue /\ worker'.table = worker.table
      /\ worker'.mixed = worker.mixed /\ DOMAIN worker' = {"queue", "replies", "table", "mixed"}
  BY <1>2, AiFields, Zenon
<1>4. PICK more : more = IF Ai!GoesDeeper(t) THEN {[t EXCEPT !.id = 0]} ELSE {}
  OBVIOUS
<1>5. /\ \A u \in more : /\ u \in Tasks /\ u.kind = t.kind /\ u.who = t.who
                         /\ u.active = t.active /\ u.depth = t.depth
      /\ \A u, v \in more : u = v
  <2>1. t \in Tasks /\ 0 \in Nat
    BY AiFields
  <2>2. LET u == [t EXCEPT !.id = 0]
        IN /\ u \in Tasks /\ u.kind = t.kind /\ u.who = t.who /\ u.active = t.active
           /\ u.depth = t.depth
    BY <2>1, TaskFields, Zenon
  <2>3. more \subseteq {[t EXCEPT !.id = 0]}
    BY <1>4
  <2> QED BY <2>2, <2>3
<1>6. desk' = [desk EXCEPT !.callbacks = @ \ {id}, !.tasks = (@ \ {t}) \cup more]
  BY <1>1, <1>4, Zenon
<1>7. desk'.tasks = (desk.tasks \ {t}) \cup more
  BY <1>6 DEF AiInv
<1>8. /\ desk'.tasks \subseteq Tasks
      /\ \A a, b \in desk'.tasks : a.active /\ b.active => a = b
      /\ \A u \in desk'.tasks :
           /\ u.kind = "deepening" => u.who = Ai!Machine
           /\ u.active /\ u.kind = "deepening" /\ u.depth > 0 => MachinesAfter(Len(worker.queue))
  <2>1. more \in SUBSET Tasks
    BY <1>5
  <2> QED BY <1>5, <1>7, <2>1, TaskEnds, Zenon
<1>9. desk' \in [board : Int, tasks : SUBSET Tasks, callbacks : SUBSET Nat, msgId : Nat]
  BY <1>5, <1>6 DEF AiInv
<1>10. \A n : MachinesAfter(n)' <=> MachinesAfter(n)
  BY <1>3, Zenon DEF MachinesAfter
<1>11. InTurn' /\ OneGoesOn'
  BY <1>3, <1>8, <1>10, AiFields, Zenon DEF OneGoesOn, InTurn
<1> QED BY <1>3, <1>9, <1>11, AiFields, Zenon DEF AiInv

\* A request is handled: the table it finds is its own, and what it leaves there too.
LEMMA OnMessageStep == ASSUME AiInv, Ai!OnMessage PROVE AiInv'
<1>1. PICK m : m = Head(worker.queue)
  OBVIOUS
<1>2. worker.queue # <<>> /\ desk' = desk
  BY DEF Ai!OnMessage
<1>3. /\ m \in Messages /\ m = worker.queue[1] /\ 1 \in 1..Len(worker.queue)
  BY <1>1, <1>2, AiFields, QueueTail
<1>4. /\ worker'.queue = Tail(worker.queue) /\ ~worker'.mixed
      /\ DOMAIN worker' = {"queue", "replies", "table", "mixed"}
      /\ worker'.table \subseteq {Ai!Tutor, Ai!Machine}
      /\ Ai!Tutor \in worker'.table => \/ Ai!Tutor \in worker.table /\ ~Renews(m)
                                       \/ Tutors(m)
  <2>1. CASE m.action = "learn"
    <3>1. worker' = [worker EXCEPT !.queue = Tail(worker.queue)]
      BY <1>1, <2>1, Zenon DEF Ai!OnMessage
    <3>2. ~Renews(m)
      BY <2>1 DEF Renews, Searches
    <3> QED BY <3>1, <3>2, AiFields
  <2>2. CASE m.action # "learn"
    <3>1. m \in Requests /\ m.action = "calculate" /\ m.joueurIa \in {0, 1}
          /\ m.clearTT \in BOOLEAN /\ m.useMCTS \in BOOLEAN
      BY <1>3, <2>2, MessageKinds, RequestFields
    <3>2. worker' = Ai!Calculated(m)
      BY <1>1, <2>2, Zenon DEF Ai!OnMessage
    <3>3. PICK replies : replies = Append(worker.replies, [id |-> m.id])
      OBVIOUS
    <3>4. PICK table : table = IF m.useMCTS THEN Ai!Kept(m) ELSE Ai!Kept(m) \cup {m.joueurIa}
      OBVIOUS
    <3>5. PICK mixed : mixed = (~m.useMCTS /\ Ai!Kept(m) \ {m.joueurIa} # {})
      OBVIOUS
    <3>6. worker' = [worker EXCEPT !.queue = Tail(worker.queue), !.replies = replies,
                                   !.table = table, !.mixed = mixed]
      BY <3>2, <3>3, <3>4, <3>5, Zenon DEF Ai!Calculated
    <3>7. /\ worker'.queue = Tail(worker.queue) /\ worker'.table = table /\ worker'.mixed = mixed
          /\ DOMAIN worker' = {"queue", "replies", "table", "mixed"}
      BY <3>6, AiFields, Zenon
    <3>8. Ai!Kept(m) \subseteq worker.table /\ (m.clearTT => Ai!Kept(m) = {})
          /\ (~m.clearTT => Ai!Kept(m) = worker.table)
      BY DEF Ai!Kept
    <3>9. ~m.useMCTS => Ai!Kept(m) \ {m.joueurIa} = {}
      <4>1. SUFFICES ASSUME ~m.useMCTS, ~m.clearTT PROVE Ai!Kept(m) \ {m.joueurIa} = {}
        BY <3>8
      <4>2. m.joueurIa = Ai!Machine /\ MachinesAfter(1 - 1)
        BY <1>3, <3>1, <4>1, AiFields, Zenon DEF InTurn, Searches
      <4>3. \A k \in 1..(1 - 1) : FALSE
        OBVIOUS
      <4>4. Ai!Tutor \notin worker.table
        BY <4>2, <4>3, Zenon DEF MachinesAfter
      <4> QED BY <3>8, <4>1, <4>2, <4>4, AiFields
    <3>10. ~mixed
      BY <3>5, <3>9, Zenon
    <3>11. table \subseteq {Ai!Tutor, Ai!Machine}
      BY <3>1, <3>4, <3>8, AiFields
    <3>12. Ai!Tutor \in table => \/ Ai!Tutor \in worker.table /\ ~Renews(m)
                                 \/ Tutors(m)
      <4>1. Renews(m) => Ai!Tutor \notin table
        BY <3>4, <3>8 DEF Renews, Searches
      <4>2. Ai!Tutor \in table => Ai!Tutor \in worker.table \/ (~m.useMCTS /\ m.joueurIa = Ai!Tutor)
        BY <3>4, <3>8
      <4> QED BY <3>1, <4>1, <4>2 DEF Tutors, Searches
    <3> QED BY <3>7, <3>10, <3>11, <3>12
  <2> QED BY <2>1, <2>2
<1>5. InTurn'
  BY <1>1, <1>2, <1>4, AiFields, TailInTurn, Zenon
<1>6. /\ \A n \in 0..Len(worker'.queue) : MachinesAfter(n + 1) => MachinesAfter(n)'
      /\ worker'.queue \in Seq(Messages)
      /\ Len(worker'.queue) = Len(worker.queue) - 1 /\ Len(worker.queue) \in Nat
  BY <1>1, <1>2, <1>4, AiFields, TailKeeps, Zenon
<1>7. Len(worker'.queue) + 1 = Len(worker.queue) /\ Len(worker'.queue) \in 0..Len(worker'.queue)
  BY <1>3, <1>6
<1>8. MachinesAfter(Len(worker.queue)) => MachinesAfter(Len(worker.queue))'
  <2>1. PICK n : n = Len(worker'.queue)
    OBVIOUS
  <2>2. n + 1 = Len(worker.queue) /\ n \in 0..Len(worker'.queue)
    BY <1>7, <2>1
  <2>3. MachinesAfter(Len(worker.queue)) => MachinesAfter(n)'
    BY <1>6, <2>2, Zenon
  <2> QED BY <2>1, <2>3, Zenon
<1>9. OneGoesOn'
  BY <1>2, <1>8, AiFields, Zenon DEF OneGoesOn
<1> QED BY <1>2, <1>4, <1>5, <1>6, <1>9, AiFields, Zenon DEF AiInv

LEMMA AiBegins == Ai!Init => AiInv
<1> SUFFICES ASSUME Ai!Init PROVE AiInv
  OBVIOUS
<1>1. /\ desk.tasks = {} /\ worker.queue = <<>> /\ worker.table = {} /\ ~worker.mixed
      /\ DOMAIN worker = {"queue", "replies", "table", "mixed"}
      /\ desk \in [board : Int, tasks : SUBSET Tasks, callbacks : SUBSET Nat, msgId : Nat]
  BY DEF Ai!Init
<1>2. InTurn /\ OneGoesOn
  BY <1>1 DEF InTurn, OneGoesOn
<1> QED BY <1>1, <1>2 DEF AiInv

LEMMA AiStep == ASSUME AiInv, [Ai!Next]_(Ai!vars) PROVE AiInv'
<1>1. CASE UNCHANGED Ai!vars
  BY <1>1, Zenon DEF Ai!vars, AiInv, InTurn, OneGoesOn, MachinesAfter
<1>2. CASE Ai!Next
  BY <1>2, BoardChangesStep, LearnStep, AsksStep, OnMessageStep, AnswerStep, Zenon DEF Ai!Next
<1> QED BY <1>1, <1>2

\* A search of the worker finds in its transposition table only what was stored for its
\* own player, for any number of positions, depths and messages on their way.
THEOREM TableServesOnePlayer == Ai!Spec => []TableOfOnePlayer
<1>1. AiInv => TableOfOnePlayer
  BY DEF AiInv, TableOfOnePlayer, Ai!TableOfOnePlayer
<1> QED BY <1>1, AiBegins, AiStep, PTL DEF Ai!Spec
==============================================================================
