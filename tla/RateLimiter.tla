----------------------------- MODULE RateLimiter -----------------------------
(***************************************************************************)
(* FixedWindowLimiter (rate_limit.py) and the middleware that asks it      *)
(* (main.py).  The middleware calls allow without awaiting, so a call is   *)
(* one step of the event loop; the clock is time.monotonic, in seconds.    *)
(***************************************************************************)
EXTENDS FiniteSets, Integers, SequencesExt

CONSTANTS
  Clients,
  Limit,        \* settings.rate_limit_per_minute
  Window,       \* 60 seconds
  MaximumKeys,  \* the constructor's maximum_keys
  MaxTime       \* bound: where the clock stops

ASSUME LimiterAssumption ==
  /\ Limit \in Nat \ {0} /\ Window \in Nat \ {0}
  /\ MaximumKeys \in Nat /\ MaxTime \in Nat

VARIABLES now, requests, answer

limiterVars == <<now, requests, answer>>

LimiterInit ==
  /\ now = 0
  /\ requests = <<>>
  /\ answer \in [client : Clients, status : {200}]

Cutoff == now - Window

\* Mutant: a request leaves the window a second late.
StillCounts(t) == t >= Cutoff

\* The while loop drops times up to and including the cutoff.
Counts(t) == t > Cutoff

\* len(requests) >= limit
Full(times) == Len(times) >= Limit

\* popleft while the oldest time does not count.
Trimmed(times) ==
  LET counting == {i \in DOMAIN times : Counts(times[i])} IN
  IF counting = {} THEN <<>>
  ELSE SubSeq(times, CHOOSE i \in counting : \A j \in counting : i <= j, Len(times))

TimesOf(c) == IF c \in DOMAIN requests THEN requests[c] ELSE <<>>

With(c, times) == [k \in DOMAIN requests \cup {c} |-> IF k = c THEN times ELSE requests[k]]

\* Mutant: a client is dropped only when nothing at all is stored of it.
AnyStored(times) == times # <<>>

\* A client is kept if its newest request counts.
Keep(times) == times # <<>> /\ Last(times) > Cutoff

Pruned(log) ==
  IF Cardinality(DOMAIN log) > MaximumKeys
  THEN [k \in {k \in DOMAIN log : Keep(log[k])} |-> log[k]]
  ELSE log

\* allow: a refused request leaves the trimmed times behind.
Allow(c) ==
  LET times == Trimmed(TimesOf(c)) IN
  \/ /\ Full(times)
     /\ requests' = With(c, times)
     /\ answer' = [client |-> c, status |-> 429]
     /\ UNCHANGED now
  \/ /\ ~Full(times)
     /\ requests' = Pruned(With(c, Append(times, now)))
     /\ answer' = [client |-> c, status |-> 200]
     /\ UNCHANGED now

\* A declared body beyond the limit is refused before the limiter is asked; paths that end in
\* /health do not ask it.
NotAsked(c) ==
  /\ \E status \in {200, 413} : answer' = [client |-> c, status |-> status]
  /\ UNCHANGED <<now, requests>>

Tick ==
  /\ now < MaxTime
  /\ now' = now + 1
  /\ UNCHANGED <<requests, answer>>

LimiterNext == Tick \/ \E c \in Clients : Allow(c) \/ NotAsked(c)

LimiterSpec == LimiterInit /\ [][LimiterNext]_limiterVars

-----------------------------------------------------------------------------
(* Properties                                                               *)

\* Whatever is trimmed, pruned and forgotten, every request is answered as the sliding window
\* answers it: no client exceeds its limit, none is refused below it, and a refused client is
\* served again as soon as a served request leaves the window.
Promise == INSTANCE SlidingWindow WITH
  recent <- [c \in Clients |-> Trimmed(TimesOf(c))]

ImplementsSlidingWindow == Promise!Spec

\* Inductive: what is stored of a client came in this order, none of it later than now.
LimiterInv ==
  /\ now \in Nat
  /\ DOMAIN requests \subseteq Clients /\ requests \in [DOMAIN requests -> Seq(0..now)]
  /\ \A c \in DOMAIN requests :
       \A i, j \in DOMAIN requests[c] : i <= j => requests[c][i] <= requests[c][j]

\* The map of clients outgrows maximum_keys only by clients that count: a call that adds one
\* leaves nobody behind whose last request has left the window.
GrowsByActiveClientsOnly ==
  [][DOMAIN requests' # DOMAIN requests /\ Cardinality(DOMAIN requests') > MaximumKeys
     => \A c \in DOMAIN requests' : Last(requests'[c]) > Cutoff]_limiterVars
=============================================================================
