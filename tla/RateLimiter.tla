----------------------------- MODULE RateLimiter -----------------------------
(***************************************************************************)
(* RedisRateLimiter.consume (src/infrastructure/redis/redis-client.ts):    *)
(* one counter in Redis for each key, counted up by a script that also     *)
(* gives a new counter its time to live.  Nothing else writes a counter;   *)
(* Redis drops it when its time is over.                                   *)
(*                                                                         *)
(* Time advances by units, of which Window[k] make a window of key k.  A   *)
(* count beyond Limit[k] + 1 says nothing new and is not counted further.  *)
(***************************************************************************)
EXTENDS Integers

CONSTANTS
  Keys,    \* what is limited: a client address, a player
  Limit,   \* calls a window of the key admits
  Window,  \* units of time its counter lives
  Resends  \* how often a script whose reply was lost may be sent again

ASSUME LimitsAssumption ==
  /\ Limit \in [Keys -> Nat \ {0}]
  /\ Window \in [Keys -> Nat \ {0}]
  /\ Resends \in Nat

VARIABLES
  counter,  \* the counter of a key and the time it has left; count 0: none
  admitted  \* admitted[k][n]: the calls of k admitted in this unit and the n before it

limiterVars == <<counter, admitted>>

NoCounter == [count |-> 0, ttl |-> 0]

\* How far back admitted looks: over the length of a window.
Units(k) == 0..(Window[k] - 1)

LimiterInit ==
  /\ counter = [k \in Keys |-> NoCounter]
  /\ admitted = [k \in Keys |-> [n \in Units(k) |-> 0]]

\* A count, or the most that is told apart.
Capped(n, most) == IF n > most THEN most ELSE n

\* Slip: a new counter is counted and not given a time to live.
CountedForEver(k, times) ==
  [count |-> Capped(counter[k].count + times, Limit[k] + 1), ttl |-> counter[k].ttl]

\* Slip: every call renews the time to live.
CountedRenewing(k, times) ==
  [count |-> Capped(counter[k].count + times, Limit[k] + 1), ttl |-> Window[k]]

\* The counter once the script has run so many times: INCR, and EXPIRE if that
\* made the counter 1.
Counted(k, times) ==
  [count |-> Capped(counter[k].count + times, Limit[k] + 1),
   ttl   |-> IF counter[k].count = 0 THEN Window[k] ELSE counter[k].ttl]

\* Slip: the count is compared as it was before the call.
AllowedOneMore(k, times) == counter[k].count <= Limit[k]

\* consume: the last run's count is the answer.  ioredis sends a script again
\* whose connection broke before the reply, so one call may be counted twice.
Allowed(k, times) == Counted(k, times).count <= Limit[k]

Consume(k, times) ==
  /\ counter' = [counter EXCEPT ![k] = Counted(k, times)]
  /\ admitted' = IF Allowed(k, times)
                 THEN [admitted EXCEPT ![k] = [n \in Units(k) |-> @[n] + 1]] ELSE admitted

\* A unit of time passes for every counter.
LimiterElapse ==
  /\ counter' = [k \in Keys |->
                   IF counter[k].ttl <= 1 THEN NoCounter ELSE [counter[k] EXCEPT !.ttl = @ - 1]]
  /\ admitted' = [k \in Keys |-> [n \in Units(k) |-> IF n = 0 THEN 0 ELSE admitted[k][n - 1]]]

-----------------------------------------------------------------------------
(* Properties *)

\* A counter is missing or has a limited time to live: none stays for ever.
LimiterTypeOK ==
  /\ counter \in [Keys -> [count : Nat, ttl : Nat]]
  /\ \A k \in Keys : /\ counter[k].ttl <= Window[k]
                     /\ counter[k].count = 0 <=> counter[k].ttl = 0
  /\ DOMAIN admitted = Keys /\ \A k \in Keys : admitted[k] \in [Units(k) -> Nat]

\* Whenever one looks back over the length of a window, wherever the counters'
\* own windows began and ended, no key was admitted more than twice its limit.
AdmittedPerWindow ==
  \A k \in Keys : admitted[k][Window[k] - 1] <= 2 * Limit[k]

\* Nobody is locked out: however a client keeps calling while it is refused, its
\* counter admits a call again and again.
LetInAgain == \A k \in Keys : []<>Allowed(k, 1)
=============================================================================
