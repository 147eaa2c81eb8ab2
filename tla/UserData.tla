------------------------------- MODULE UserData --------------------------------
(***************************************************************************)
(* The account on a page of the prototype                                  *)
(* (docs/PoC/Mancala-main/src/hooks/useFirebase.ts, services/firebase.ts): *)
(* signing in and out, and the statistics of a player.                     *)
(*                                                                         *)
(* The statistics are one document of the database: the page listens to    *)
(* it, and records a result by writing what it last knew plus one, after a *)
(* request for the new Elo.  The document is abstracted to the number of   *)
(* results it counts.  A request may fail (the quota, the rules, the       *)
(* network: they differ by a banner, left out) and is answered long after  *)
(* it was sent; signing out always succeeds.  One result is on its way at  *)
(* a time (a bound).                                                       *)
(***************************************************************************)
EXTENDS Integers, Null

CONSTANTS
  Users,       \* The accounts.
  MaxResults   \* Bounds the results of an account.

VARIABLES
  docs,    \* Per account, the results its document counts, if it has one.
  page,    \* The state of useFirebase and its tasks.
  ghost    \* Histories: the results written, and the accounts upset by what one
           \* page cannot answer for, of which nothing is claimed from then on.

vars == <<docs, page, ghost>>

\* A page opens with the session Firebase kept for it, if any.
Init ==
  /\ docs = [u \in Users |-> None]
  /\ \E kept \in Users \cup {None} :
       page = [starting |-> kept, user |-> None, popup |-> FALSE,
               stats |-> None, listens |-> {}, update |-> None, late |-> FALSE]
  /\ ghost = [written |-> [u \in Users |-> 0], upset |-> {}]

Upset(us) == ghost' = [ghost EXCEPT !.upset = @ \cup us,
                         !.written = [u \in Users |-> IF u \in us THEN 0 ELSE @[u]]]

Counted(u) == ghost' = [ghost EXCEPT !.written[u] = IF u \in ghost.upset THEN 0 ELSE @ + 1]

------------------------------------------------------------------------------
\* Signing in and out.

\* Mutant of Unsubscribed: the old listener goes on.
StillListening(us) == us

\* The clean-up of the user's effect.
Unsubscribed(us) == {}

\* setUser, and the effect of a change of user: with one, the page listens to
\* its statistics; with none they are forgotten.  Those of another account are
\* not: they are late, until the next snapshot.
WithUser(p, u) ==
  IF u = None
  THEN [p EXCEPT !.user = u, !.listens = Unsubscribed(@), !.stats = None, !.late = FALSE]
  ELSE [p EXCEPT !.user = u, !.listens = Unsubscribed(@) \cup {u},
                 !.late = @ \/ (p.stats # None /\ p.stats.owner # u)]

\* initAuth resolves, once, with whoever Firebase knows by then.
InitAuth ==
  /\ page.starting # None
  /\ LET ready == [page EXCEPT !.starting = None]
     IN page' = IF page.user = page.starting THEN ready ELSE WithUser(ready, page.starting)
  /\ UNCHANGED <<docs, ghost>>

\* login up to the pop-up; while it is open another call returns at once.  It is
\* offered while nobody is signed in, the kept session on its way or not.
LoginWithGoogle ==
  /\ page.user = None /\ ~page.popup
  /\ page' = [page EXCEPT !.popup = TRUE]
  /\ UNCHANGED <<docs, ghost>>

\* The session initAuth will resolve with, if it has yet to.
NowKept(p, u) == IF p.starting = None THEN None ELSE u

\* The pop-up closes, with an account chosen or not; the session that was kept
\* may have begun meanwhile, and is replaced.
PopupCloses ==
  /\ page.popup
  /\ \/ \E u \in Users :
          page' = WithUser([page EXCEPT !.popup = FALSE, !.starting = NowKept(page, u)], u)
     \/ page' = [page EXCEPT !.popup = FALSE]
  /\ UNCHANGED <<docs, ghost>>

Logout ==
  /\ page.user # None
  /\ page' = WithUser([page EXCEPT !.starting = None], None)
  /\ UNCHANGED <<docs, ghost>>

------------------------------------------------------------------------------
\* The statistics.

Stats(u, count) == [owner |-> u, count |-> count]

\* The listener delivers the document as it is; when there is none the page
\* writes an empty one, if it may.
Snapshot ==
  \E u \in page.listens :
    /\ \/ /\ docs[u] # None
          /\ page' = [page EXCEPT !.stats = Stats(u, docs[u]), !.late = FALSE]
          /\ UNCHANGED docs
       \/ /\ docs[u] = None /\ u = page.user
          /\ docs' = [docs EXCEPT ![u] = 0]
          /\ UNCHANGED page
    /\ UNCHANGED ghost

\* A page that opens without the network and has nothing in its own cache is
\* told that there is no document: it writes an empty one over what there is.
EmptyCache ==
  \E u \in page.listens :
    /\ page.user = u /\ (page.stats # None => page.stats.owner # u)
    /\ docs[u] \notin {None, 0}
    /\ docs' = [docs EXCEPT ![u] = 0]
    /\ Upset({u})
    /\ UNCHANGED page

\* The listener fails and is not started again.
ListenerFails ==
  /\ page.listens # {}
  /\ page' = [page EXCEPT !.listens = {}]
  /\ UNCHANGED <<docs, ghost>>

\* A page hears of its own writes at once, if it listens.
Heard(u, count) ==
  IF u \in page.listens THEN [page EXCEPT !.stats = Stats(u, count), !.late = FALSE] ELSE page

\* resetElo, when it succeeds.  A result on its way brings the old figures back,
\* and a page that does not listen keeps them: both upset the account.
ResetElo ==
  LET u == page.user
  IN /\ u # None /\ docs[u] # None
     /\ docs' = [docs EXCEPT ![u] = 0]
     /\ page' = Heard(u, 0)
     /\ IF page.listens = {} \/ page.update # None THEN Upset({u})
        ELSE ghost' = [ghost EXCEPT !.written[u] = 0]

\* updateUserStats up to its request: the user and the figures of this moment.
\* It upsets the account if they are another's, or outlived a sign-out.
UpdateUserStats ==
  LET u == page.user
      s == page.stats
  IN /\ u # None /\ s # None /\ page.update = None /\ s.count < MaxResults
     /\ page' = [page EXCEPT !.update =
          [uid |-> u, new |-> Stats(s.owner, s.count + 1), sent |-> FALSE]]
     /\ Upset(IF s.owner # u \/ page.late THEN {u} ELSE {})
     /\ UNCHANGED docs

\* Mutant of Target: the result is written for whoever is signed in by then.
WhoeverIsIn == page.user

\* The document an update writes.
Target == page.update.uid

\* The Elo has come, or has not, and the document is written.
StatsWritten ==
  /\ page.update # None /\ ~page.update.sent
  /\ Target # None /\ Target = page.user
  /\ docs' = [docs EXCEPT ![Target] = page.update.new.count]
  /\ page' = [Heard(Target, page.update.new.count) EXCEPT !.update.sent = TRUE]
  /\ Counted(page.update.uid)

\* The write is refused; so it is after the player has signed out, by the rules.
StatsRefused ==
  /\ page.update # None /\ ~page.update.sent
  /\ page' = [page EXCEPT !.update = None]
  /\ UNCHANGED <<docs, ghost>>

\* The write is acknowledged: its figures are shown, whoever is there.  They are
\* late when the page has changed hands since.
StatsShown ==
  LET up == page.update
  IN /\ up # None /\ up.sent
     /\ page' = [page EXCEPT !.stats = Stats(up.uid, up.new.count), !.update = None,
                             !.late = page.user # up.uid]
     /\ Upset(IF up.new.count # docs[up.uid] THEN {up.uid} ELSE {})
     /\ UNCHANGED docs

\* Another device of an account records a result.  It upsets the account if this
\* page is signed in to it or writes to it.
OtherDevice ==
  \E u \in Users :
    /\ docs[u] # None /\ docs[u] < MaxResults
    /\ docs' = [docs EXCEPT ![u] = @ + 1]
    /\ IF page.user = u \/ (page.update # None /\ page.update.uid = u)
       THEN Upset({u}) ELSE Counted(u)
    /\ UNCHANGED page

------------------------------------------------------------------------------
Next ==
  \/ InitAuth \/ LoginWithGoogle \/ PopupCloses \/ Logout
  \/ Snapshot \/ EmptyCache \/ ListenerFails \/ ResetElo
  \/ UpdateUserStats \/ StatsWritten \/ StatsRefused \/ StatsShown
  \/ OtherDevice

Spec == Init /\ [][Next]_vars

------------------------------------------------------------------------------
\* Properties.

\* The figures on a page are those of the account it is signed in to, whatever
\* listeners and requests its former account left behind.  A write acknowledged
\* after the player has signed out breaks it (late), until the next snapshot; so
\* does a pop-up that closes over the session the page had kept.
StatsAreOwn ==
  page.stats # None /\ ~page.late => page.stats.owner = page.user

\* Nothing is lost and nothing counted twice: the account of a player on one
\* page at a time, whose figures that page has heard, counts the results
\* written since it was reset, though requests fail, players sign out with a
\* result on its way, and the listener stops.
AllCounted ==
  \A u \in Users \ ghost.upset : docs[u] # None => docs[u] = ghost.written[u]

\* The figures of an account: on the page its own, in the database all of them.
FiguresTrue == StatsAreOwn /\ AllCounted
===============================================================================
