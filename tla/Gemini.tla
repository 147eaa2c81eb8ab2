-------------------------------- MODULE Gemini ---------------------------------
(***************************************************************************)
(* The requests a page makes to Gemini                                     *)
(* (docs/PoC/Mancala-main/src/services/gemini.ts): the interval between    *)
(* requests, the retries with their backoff, the circuit breaker, and the  *)
(* cache of the comments on the apprentice's moves.  All calls of a page   *)
(* share them, and a call sleeps between its checks and its request.       *)
(*                                                                         *)
(* A tick is 5 seconds; a timer that is due may still be served late.      *)
(***************************************************************************)
EXTENDS Integers, Sequences, FiniteSets

CONSTANTS
  Commentators,  \* Calls of analyzeMove, any number of which may overlap.
  Others,        \* Calls of analyzeGameHistory and of the chat's moderation.
  Keys,          \* The cache keys: position, move and language.
  CacheSize,     \* 100 in the code.
  Cooldown,      \* The ticks of CIRCUIT_BREAKER_DURATION; 12 in the code.
  None

VARIABLES
  api,    \* What the module keeps between calls.
  calls   \* The calls.

vars == <<api, calls>>

Callers == Commentators \cup Others
MinInterval == 2  \* MIN_REQUEST_INTERVAL.
MaxRetries == 2

\* since is the age of lastRequestTime, cool what is left of the cooldown, both
\* counted no further than they matter.  leaks is a history: the
\* requests sent since the breaker opened.
Idle == [at |-> "idle", left |-> 0, retries |-> 0, key |-> None]

Init ==
  /\ api = [since |-> MinInterval, broken |-> FALSE, cool |-> 0, cache |-> <<>>, leaks |-> 0]
  /\ calls = [c \in Callers |-> Idle]

Open == api.broken /\ api.cool > 0

------------------------------------------------------------------------------
Become(c, call) == calls' = [calls EXCEPT ![c] = call]
Sent(call) == [call EXCEPT !.at = "sent"]

\* callGemini up to its request: the breaker answers at once, or closes; then the
\* interval is waited for.
Enter(c, call) ==
  \/ Open /\ Become(c, Idle) /\ UNCHANGED api
  \/ /\ ~Open /\ api.since >= MinInterval
     /\ Become(c, Sent(call))
     /\ api' = [api EXCEPT !.since = 0, !.broken = FALSE, !.leaks = 0]
  \/ /\ ~Open /\ api.since < MinInterval
     /\ Become(c, [call EXCEPT !.at = "waiting", !.left = MinInterval - api.since])
     /\ api' = [api EXCEPT !.broken = FALSE, !.leaks = 0]

New(key) == [Idle EXCEPT !.retries = MaxRetries, !.key = key]

\* analyzeMove asks when it has no comment on this move and the breaker has not
\* been opened; it does not look at the time.
AnalyzeMove(c) ==
  /\ calls[c].at = "idle" /\ ~api.broken
  /\ \E k \in Keys : (\A i \in DOMAIN api.cache : api.cache[i] # k) /\ Enter(c, New(k))

CallGemini(c) == calls[c].at = "idle" /\ Enter(c, New(None))

\* The interval was waited for: nothing is looked at again.
SendNow(c) ==
  /\ Become(c, Sent(calls[c]))
  /\ api' = [api EXCEPT !.since = 0, !.leaks = IF Open THEN @ + 1 ELSE @]

WaitOver(c) == calls[c].at = "waiting" /\ calls[c].left = 0 /\ SendNow(c)

\* Mutant of Retry: the request goes out again without the checks.
RetryAtOnce(c) == SendNow(c)

\* The recursive call.
Retry(c) == Enter(c, calls[c])

BackoffOver(c) == calls[c].at = "backoff" /\ calls[c].left = 0 /\ Retry(c)

\* The cache keeps the last comments.
Cached(key) ==
  IF key = None \/ (\E i \in DOMAIN api.cache : api.cache[i] = key) THEN api.cache
  ELSE IF Len(api.cache) = CacheSize THEN Append(Tail(api.cache), key)
  ELSE Append(api.cache, key)

Answered(c) ==
  /\ calls[c].at = "sent"
  /\ Become(c, Idle)
  /\ api' = [api EXCEPT !.cache = Cached(calls[c].key)]

\* An empty answer or an error that is not retried: the fallback.
FallsBack(c) ==
  /\ calls[c].at = "sent"
  /\ Become(c, Idle)
  /\ UNCHANGED api

Left(call) == call.retries - 1

\* The backoff: 5 seconds, then 10.
Delay(call) == 2 ^ (MaxRetries - call.retries)

RetryableError(c) ==
  /\ calls[c].at = "sent" /\ calls[c].retries > 0
  /\ Become(c, [calls[c] EXCEPT !.at = "backoff", !.left = Delay(calls[c]),
                                !.retries = Left(calls[c])])
  /\ UNCHANGED api

\* The quota once too often: the breaker opens, or stays open for longer.
QuotaError(c) ==
  /\ calls[c].at = "sent" /\ calls[c].retries = 0
  /\ Become(c, Idle)
  /\ api' = [api EXCEPT !.broken = TRUE, !.cool = Cooldown, !.leaks = IF Open THEN @ ELSE 0]

Less(n) == IF n = 0 THEN 0 ELSE n - 1
Older(n) == IF n = MinInterval THEN n ELSE n + 1

Tick ==
  /\ api' = [api EXCEPT !.since = Older(@), !.cool = Less(@)]
  /\ calls' = [c \in Callers |-> [calls[c] EXCEPT !.left = Less(@)]]

------------------------------------------------------------------------------
\* What a call does by itself, once made.
Proceeds(c) ==
  \/ WaitOver(c) \/ BackoffOver(c)
  \/ Answered(c) \/ FallsBack(c) \/ RetryableError(c) \/ QuotaError(c)

Next ==
  \/ \E c \in Commentators : AnalyzeMove(c)
  \/ \E c \in Others : CallGemini(c)
  \/ \E c \in Callers : Proceeds(c)
  \/ Tick

Spec == Init /\ [][Next]_vars

------------------------------------------------------------------------------
\* Properties.

\* An open breaker lets out no more than the calls that were asleep when it
\* opened, one request each: it stops the retries and the new calls.
BreakerHolds == Open => api.leaks < Cardinality(Callers)
===============================================================================
