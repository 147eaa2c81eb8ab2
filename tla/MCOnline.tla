------------------------------- MODULE MCOnline -------------------------------
(* Bounds for TLC: a host and a guest, one room, rounds of one or two moves. *)
EXTENDS Online

CONSTANTS h, g, r1, none

JustPages == {{h, g}}
MCReals == SUBSET Players

(* The first round ends in a tie, the second with a player who cannot move, and *)
(* the host wins the third, which begins when both have asked for the second.  *)
MCFates == { <<[plies |-> 2, fin |-> 2], [plies |-> 1, fin |-> -1], [plies |-> 1, fin |-> 0]>> }

(* A host's payment that is still under way when the codes are used up could only *)
(* fail: such states are not looked at.                                          *)
NothingLeftToPay == CodeLeft \/ \A c \in Hosts : page[c].task = NoTask

(* A third round is played on between two pages, or two peers, only. *)
ThirdRound == real \in {{h, g}, {}} \/ \A r \in RoomIds : rooms[r].manche < MaxManche
===============================================================================
