----------------------------- MODULE MCLifecycle -----------------------------
(***************************************************************************)
(* Lifecycle on small instances: which matches are played.                 *)
(***************************************************************************)
EXTENDS Lifecycle

CONSTANTS s1, s2, s3

\* Two connections for the first player, one for the second.
MCOwner == [s \in Sockets |-> IF s = s3 THEN 1 ELSE 0]

Game(opponent, timing, policy) ==
  [opponent |-> opponent, timing |-> timing, policy |-> policy]

AllGames == [opponent : {"HUMAN", "AI"}, timing : {"REALTIME", "CORRESPONDENCE"},
             policy : {"AUTO_RESOLVE", "VOID_REFUND"}]

RealtimeGames == {Game(o, "REALTIME", "AUTO_RESOLVE") : o \in {"HUMAN", "AI"}}
==============================================================================
