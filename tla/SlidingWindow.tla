---------------------------- MODULE SlidingWindow ----------------------------
(***************************************************************************)
(* What the rate limiter promises its clients: a request is served exactly *)
(* when fewer than Limit requests of the client were served in the last    *)
(* Window seconds.  Requests that are too large, and health checks, are    *)
(* not counted.                                                            *)
(***************************************************************************)
EXTENDS Naturals, Sequences

CONSTANTS Clients, Limit, Window

VARIABLES
  now,
  recent,  \* for each client, when its counted requests of the last Window seconds came
  answer   \* the last answer: to whom, and its status

vars == <<now, recent, answer>>

Init ==
  /\ now = 0
  /\ recent = [c \in Clients |-> <<>>]
  /\ answer \in [client : Clients, status : {200}]

Serve(c) ==
  /\ Len(recent[c]) < Limit
  /\ recent' = [recent EXCEPT ![c] = Append(@, now)]
  /\ answer' = [client |-> c, status |-> 200]
  /\ UNCHANGED now

Refuse(c) ==
  /\ Len(recent[c]) >= Limit
  /\ answer' = [client |-> c, status |-> 429]
  /\ UNCHANGED <<now, recent>>

Exempt(c) ==
  /\ \E status \in {200, 413} : answer' = [client |-> c, status |-> status]
  /\ UNCHANGED <<now, recent>>

\* The first of the requests are out of the window at t, and the rest is still in it.
StillRecent(times, rest, t) ==
  \E left \in 0..Len(times) :
    /\ \A i \in DOMAIN times : i <= left <=> times[i] + Window <= t
    /\ rest = SubSeq(times, left + 1, Len(times))

Advance ==
  /\ now' = now + 1
  /\ recent' \in [Clients -> Seq(0..now)]
  /\ \A c \in Clients : StillRecent(recent[c], recent'[c], now')
  /\ UNCHANGED answer

Next == Advance \/ \E c \in Clients : Serve(c) \/ Refuse(c) \/ Exempt(c)

Spec == Init /\ [][Next]_vars
=============================================================================
