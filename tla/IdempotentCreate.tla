--------------------------- MODULE IdempotentCreate ---------------------------
(***************************************************************************)
(* What the clients of a creating POST with an Idempotency-Key are         *)
(* promised: a key is bound to one request and one resource, once and for  *)
(* ever, no resource has two keys, and every answer is justified by the    *)
(* binding.  POST /repositories and POST /repositories/{id}/analyses       *)
(* implement it, each with its own table.                                  *)
(***************************************************************************)
CONSTANTS Keys, Bodies, Resources, NoResource, Clients

VARIABLES
  binding,  \* of each key: the body it was used with, and the resource or NoResource
  answer    \* the last request of each client, and what it was told

vars == <<binding, answer>>

Bound(k) == binding[k].resource # NoResource

Init ==
  /\ \A k \in Keys : ~Bound(k)
  /\ \A c \in Clients : answer[c].outcome = "none"

\* The resource is created, with the key that will name it.
Bind(k, body, r) ==
  /\ ~Bound(k)
  /\ \A j \in Keys : binding[j].resource # r
  /\ binding' = [binding EXCEPT ![k] = [body |-> body, resource |-> r]]
  /\ UNCHANGED answer

\* "none" while the request is handled; "refused" promises nothing.
Justified(k, body, outcome, r) ==
  \/ /\ outcome = "accepted" /\ r \in Resources
     /\ binding[k] = [body |-> body, resource |-> r]
  \/ /\ outcome = "conflict" /\ r = NoResource
     /\ Bound(k) /\ binding[k].body # body
  \/ outcome \in {"none", "refused"} /\ r = NoResource

Tell(c, k, body, outcome, r) ==
  /\ Justified(k, body, outcome, r)
  /\ answer' = [answer EXCEPT ![c] =
                  [key |-> k, body |-> body, outcome |-> outcome, resource |-> r]]
  /\ UNCHANGED binding

Next ==
  \/ \E k \in Keys, body \in Bodies, r \in Resources : Bind(k, body, r)
  \/ \E c \in Clients, k \in Keys, body \in Bodies, r \in Resources \cup {NoResource},
        outcome \in {"none", "accepted", "conflict", "refused"} : Tell(c, k, body, outcome, r)

Spec == Init /\ [][Next]_vars
=============================================================================
