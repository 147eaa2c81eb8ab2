------------------------------ MODULE SavedGame --------------------------------
(***************************************************************************)
(* The saved game of a page of the prototype                               *)
(* (docs/PoC/Mancala-main/src/hooks/useFirebase.ts): one in the database   *)
(* per account, one in the localStorage of the device, and whether the     *)
(* menu offers to load.  The check begun at a change of user is answered   *)
(* when the player may be gone.                                            *)
(***************************************************************************)
EXTENDS Integers

CONSTANTS
  Users,  \* The accounts.
  None    \* null.

VARIABLES
  cloud,  \* The accounts that have a saved game in the database.
  store   \* The page: its user, what it offers, its checks, its localStorage.

vars == <<cloud, store>>

\* hearsay and shared are histories: a check of a former user has answered, and
\* another device has changed the saved game of the account shown here.
Init ==
  /\ cloud \in SUBSET Users
  /\ \E local \in BOOLEAN :
       store = [user |-> None, hasSave |-> FALSE, checks |-> {}, local |-> local,
                hearsay |-> FALSE, shared |-> FALSE]

\* The user's effect with an account: checkSaves begins.
SignIn ==
  /\ store.user = None
  /\ \E u \in Users : store' = [store EXCEPT !.user = u, !.checks = @ \cup {u}]
  /\ UNCHANGED cloud

\* Mutant of Forgotten: the saved game of the last player is still offered.
Remembered(has) == has

Forgotten(has) == FALSE

\* logout, and the user's effect without an account.
SignOut ==
  /\ store.user # None
  /\ store' = [store EXCEPT !.user = None, !.hasSave = Forgotten(@),
                            !.hearsay = FALSE, !.shared = FALSE]
  /\ UNCHANGED cloud

\* checkSaves answers.
CheckSaves ==
  \E u \in store.checks :
    /\ store' = [store EXCEPT !.checks = @ \ {u},
                   !.hasSave = @ \/ u \in cloud \/ store.local,
                   !.hearsay = @ \/ (u \in cloud /\ u # store.user)]
    /\ UNCHANGED cloud

\* It fails: for the quota it looks on the device, for another reason nowhere.
CheckFails ==
  \E u \in store.checks, quota \in BOOLEAN :
    /\ store' = [store EXCEPT !.checks = @ \ {u}, !.hasSave = @ \/ (quota /\ store.local)]
    /\ UNCHANGED cloud

\* saveGame, when it succeeds: with the account, or on the device without one.
SaveGame ==
  /\ cloud' = cloud \cup ({store.user} \ {None})
  /\ store' = [store EXCEPT !.hasSave = TRUE, !.local = @ \/ store.user = None]

\* deleteSave: the account's, and then the device's too, whoever saved it.
DeleteSave ==
  /\ store.hasSave
  /\ cloud' = cloud \ {store.user}
  /\ store' = [store EXCEPT !.hasSave = FALSE, !.local = FALSE]

\* Another device saves or deletes.
OtherDevice ==
  \E u \in Users :
    /\ cloud' = IF u \in cloud THEN cloud \ {u} ELSE cloud \cup {u}
    /\ store' = [store EXCEPT !.shared = @ \/ store.user = u]

Next ==
  \/ SignIn \/ SignOut \/ CheckSaves \/ CheckFails \/ SaveGame \/ DeleteSave
  \/ OtherDevice

Spec == Init /\ [][Next]_vars

\* What loadGame finds: the account's saved game, or else the device's.
Loadable == (store.user # None /\ store.user \in cloud) \/ store.local

\* A game is offered for loading only when there is one to load, though the
\* players change and the checks of the ones before are still to come.  It does
\* not hold after such a check (hearsay), nor with another device at work.
SaveOffered == store.hasSave /\ ~store.hearsay /\ ~store.shared => Loadable
===============================================================================
