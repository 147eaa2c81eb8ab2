-------------------------------- MODULE Ranking --------------------------------
(***************************************************************************)
(* The leaderboard and the player's rank on a page of the prototype        *)
(* (docs/PoC/Mancala-main/src/hooks/useFirebase.ts, App.tsx,               *)
(* LeaderboardModal.tsx): each has a cache, and the queries of the rank,   *)
(* which are counted against a quota, are kept apart besides.  A query is  *)
(* answered some time after it was made, when others have been made.       *)
(*                                                                         *)
(* A tick is 5 minutes.  What is known is the time it was read, which is   *)
(* that of the query or that of its answer.                                *)
(***************************************************************************)
EXTENDS Integers

CONSTANTS
  MaxTime,  \* Bounds the clock.
  RankTTL,  \* The ticks of the rank's cache; 6 in the code.
  None

VARIABLES
  clock,
  list,  \* The leaderboard: its cache, its queries, what is shown.
  rank   \* The rank: its cache, its last query, its queries, what is shown.

vars == <<clock, list, rank>>

ListTTL == 1   \* The leaderboard's cache,
Throttle == 1  \* and the least time between queries of the rank.

Entry(at, read) == [at |-> at, read |-> read]
Shown(read, why) == [read |-> read, when |-> clock, why |-> why]

Init ==
  /\ clock = RankTTL
  /\ list = [cache |-> None, asked |-> {}, shown |-> None]
  /\ rank = [cache |-> None, last |-> 0, asked |-> {}, shown |-> None]

Fresh(cache, ttl) == cache # None /\ clock - cache.at < ttl

------------------------------------------------------------------------------
\* getLeaderboard, when the modal opens.  The server has no leaderboard of its own
\* and the page asks the database.
OpenLeaderboard ==
  /\ list' = IF Fresh(list.cache, ListTTL)
               THEN [list EXCEPT !.shown = Shown(list.cache.read, "cache")]
               ELSE [list EXCEPT !.asked = @ \cup {clock}]
  /\ UNCHANGED <<clock, rank>>

\* Mutant of Stamp: a list is as old as its answer.
StampLate(asked) == clock

\* The time a cached list counts from: the call's, not the answer's.
Stamp(asked) == asked

\* The answer replaces whatever was cached meanwhile; an error shows nothing.
LeaderboardAnswers ==
  \E at \in list.asked : \E read \in {at, clock} :
    /\ list' = [list EXCEPT !.asked = @ \ {at}, !.cache = Entry(Stamp(at), read),
                            !.shown = Shown(read, "answer")]
    /\ UNCHANGED <<clock, rank>>

LeaderboardFails ==
  \E at \in list.asked :
    /\ list' = [list EXCEPT !.asked = @ \ {at}, !.shown = None]
    /\ UNCHANGED <<clock, rank>>

------------------------------------------------------------------------------
\* The throttle counts from the call.
Marked(r) == [r EXCEPT !.last = clock]

Known(why) == IF rank.cache = None THEN None ELSE Shown(rank.cache.read, why)

\* getUserRank, at the menu or at the end of a game, and again whenever the
\* player's figures change there: from the cache; or what there is, within the
\* throttle; or a query.
UpdateRank ==
  /\ rank' =
       IF Fresh(rank.cache, RankTTL) THEN [rank EXCEPT !.shown = Known("cache")]
       ELSE IF clock - rank.last < Throttle THEN [rank EXCEPT !.shown = Known("throttled")]
       ELSE [Marked(rank) EXCEPT !.asked = @ \cup {clock}]
  /\ UNCHANGED <<clock, list>>

RankAnswers ==
  \E at \in rank.asked : \E read \in {at, clock} :
    /\ rank' = [rank EXCEPT !.asked = @ \ {at}, !.cache = Entry(at, read),
                            !.shown = Shown(read, "answer")]
    /\ UNCHANGED <<clock, list>>

\* The quota, the network: what was cached is shown, however old.
RankFails ==
  \E at \in rank.asked :
    /\ rank' = [rank EXCEPT !.asked = @ \ {at}, !.shown = Known("failed")]
    /\ UNCHANGED <<clock, list>>

Tick ==
  /\ clock < MaxTime
  /\ clock' = clock + 1
  /\ UNCHANGED <<list, rank>>

Next ==
  \/ OpenLeaderboard \/ LeaderboardAnswers \/ LeaderboardFails
  \/ UpdateRank \/ RankAnswers \/ RankFails \/ Tick

Spec == Init /\ [][Next]_vars

------------------------------------------------------------------------------
\* Properties.

\* What a cache shows is never older than its time to live, although an answer may
\* come late, and out of order, and replace a newer one.
CachesHonest ==
  /\ list.shown # None /\ list.shown.why = "cache" =>
       list.shown.when - list.shown.read < ListTTL
  /\ rank.shown # None /\ rank.shown.why = "cache" =>
       rank.shown.when - rank.shown.read < RankTTL
===============================================================================
