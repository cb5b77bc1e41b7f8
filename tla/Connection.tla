------------------------------ MODULE Connection ------------------------------
(***************************************************************************)
(* The credential of a private repository: administrators put and revoke   *)
(* it (routes/repositories.py), analysis threads load it and fetch with it *)
(* (services/structural_analysis.py), and each revocation queues a job     *)
(* that deletes the repository's mirror (queue.py).                        *)
(*                                                                         *)
(* A handler reads the row in one step and commits in another.  The mirror *)
(* is fetched and deleted in one step each: MirrorLock has their detail.   *)
(***************************************************************************)
EXTENDS Naturals

CONSTANTS
  Admins,          \* concurrent requests of owners and admins
  Threads,         \* concurrent analysis threads
  Backend,         \* settings.job_backend
  MaxPuts,         \* bound: envelopes encrypted
  MaxRevocations,  \* bound: DELETEs that load a connection
  Faults           \* subset of {"request", "provider", "disk"}

ASSUME ConnectionAssumption ==
  /\ Backend \in {"inline", "arq", "manual"}
  /\ MaxPuts \in Nat /\ MaxRevocations \in Nat
  /\ Faults \subseteq {"request", "provider", "disk"}

VARIABLES
  connection,  \* the repository's row of repository_connections
  request,     \* what each administrator's request is doing
  thread,      \* what each analysis thread is doing
  mirror,      \* TRUE: the worker has a mirror of the repository
  deletion,    \* deletions to be executed, and whether arq keeps a result of the last
  puts, revocations

vars == <<connection, request, thread, mirror, deletion, puts, revocations>>

\* Every encryption draws a nonce, so no two envelopes are equal; 0 is the erased one, "".
Envelope == 0..MaxPuts

Row == [present : BOOLEAN, envelope : Envelope, revoked : BOOLEAN]

NoRow == [present |-> FALSE, envelope |-> 0, revoked |-> FALSE]

Request == [pc : {"idle", "put", "revoke", "enqueue"}, row : Row, envelope : Envelope]

Thread == [pc : {"idle", "fetch"}, envelope : Envelope]

Idle == [pc |-> "idle", row |-> NoRow, envelope |-> 0]

Resting == [pc |-> "idle", envelope |-> 0]

\* arq has at most one job with the id of a deletion.
Pending == IF Backend = "inline" THEN Nat ELSE 0..1

TypeOK ==
  /\ connection \in Row
  /\ request \in [Admins -> Request]
  /\ thread \in [Threads -> Thread]
  /\ mirror \in BOOLEAN
  /\ deletion \in [pending : Pending, result : BOOLEAN]
  /\ puts \in Envelope /\ revocations \in Nat

Init ==
  /\ connection = NoRow
  /\ request = [a \in Admins |-> Idle]
  /\ thread = [t \in Threads |-> Resting]
  /\ mirror = FALSE
  /\ deletion = [pending |-> 0, result |-> FALSE]
  /\ puts = 0 /\ revocations = 0

-----------------------------------------------------------------------------
(* Administrators                                                           *)

\* The UPDATE of a flushed row names a column only if its value differs from the loaded one.
Column(committed, loaded, assigned) == IF assigned = loaded THEN committed ELSE assigned

Flush(loaded, assigned) ==
  connection' = [present  |-> TRUE,
                 envelope |-> Column(connection.envelope, loaded.envelope, assigned.envelope),
                 revoked  |-> Column(connection.revoked, loaded.revoked, assigned.revoked)]

\* The token is encrypted, then the row is looked up, revoked or not.
LoadForPut(a) ==
  /\ request[a].pc = "idle" /\ puts < MaxPuts
  /\ puts' = puts + 1
  /\ request' = [request EXCEPT ![a] = [pc |-> "put", row |-> connection, envelope |-> puts + 1]]
  /\ UNCHANGED <<connection, thread, mirror, deletion, revocations>>

\* uq_repository_connection refuses a second row of the repository.
CommitPut(a) ==
  LET loaded == request[a].row IN
  /\ request[a].pc = "put"
  /\ \/ /\ ~loaded.present /\ connection.present
        /\ UNCHANGED connection
     \/ /\ ~loaded.present /\ ~connection.present
        /\ connection' = [present |-> TRUE, envelope |-> request[a].envelope, revoked |-> FALSE]
     \/ /\ loaded.present
        /\ Flush(loaded, [envelope |-> request[a].envelope, revoked |-> FALSE])
  /\ request' = [request EXCEPT ![a] = Idle]
  /\ UNCHANGED <<thread, mirror, deletion, puts, revocations>>

\* Mutant: revoked_at is not assigned.
EraseOnly == [envelope |-> 0, revoked |-> FALSE]

\* What revocation assigns to the row it loaded.
Revoked == [envelope |-> 0, revoked |-> TRUE]

\* Only a connection that is not revoked is found; otherwise the answer is 404.
LoadForRevoke(a) ==
  /\ request[a].pc = "idle" /\ revocations < MaxRevocations
  /\ connection.present /\ ~connection.revoked
  /\ revocations' = revocations + 1
  /\ request' = [request EXCEPT ![a] = [pc |-> "revoke", row |-> connection, envelope |-> 0]]
  /\ UNCHANGED <<connection, thread, mirror, deletion, puts>>

\* Mutant: the envelope is not erased.
CommitRevokeOnly(a) ==
  /\ request[a].pc = "revoke"
  /\ Flush(request[a].row, [envelope |-> request[a].row.envelope, revoked |-> TRUE])
  /\ request' = [request EXCEPT ![a] = [Idle EXCEPT !.pc = "enqueue"]]
  /\ UNCHANGED <<thread, mirror, deletion, puts, revocations>>

CommitRevoke(a) ==
  /\ request[a].pc = "revoke"
  /\ Flush(request[a].row, Revoked)
  /\ request' = [request EXCEPT ![a] = [Idle EXCEPT !.pc = "enqueue"]]
  /\ UNCHANGED <<thread, mirror, deletion, puts, revocations>>

\* enqueue_mirror_deletion: arq refuses a job id that is queued, or whose result it keeps.
Enqueued ==
  CASE Backend = "inline" -> [deletion EXCEPT !.pending = @ + 1]
    [] Backend = "arq" /\ deletion.pending = 0 /\ ~deletion.result ->
         [deletion EXCEPT !.pending = 1]
    [] OTHER -> deletion

EnqueueDeletion(a) ==
  /\ request[a].pc = "enqueue"
  /\ deletion' = Enqueued
  /\ request' = [request EXCEPT ![a] = Idle]
  /\ UNCHANGED <<connection, thread, mirror, puts, revocations>>

\* The API process ends, or Redis cannot be reached, at any point of a request.
RequestDies(a) ==
  /\ "request" \in Faults /\ request[a].pc # "idle"
  /\ request' = [request EXCEPT ![a] = Idle]
  /\ UNCHANGED <<connection, thread, mirror, deletion, puts, revocations>>

-----------------------------------------------------------------------------
(* The worker                                                               *)

\* A run loads the connection that is not revoked, if there is one.
LoadCredential(t) ==
  /\ thread[t].pc = "idle"
  /\ thread' = [thread EXCEPT ![t] = [pc |-> "fetch", envelope |->
       IF connection.present /\ ~connection.revoked THEN connection.envelope ELSE 0]]
  /\ UNCHANGED <<connection, request, mirror, deletion, puts, revocations>>

\* The envelope is decrypted and the repository cloned or fetched with its token.
Fetch(t) ==
  /\ thread[t].pc = "fetch" /\ thread[t].envelope # 0
  /\ mirror' = TRUE
  /\ thread' = [thread EXCEPT ![t] = Resting]
  /\ UNCHANGED <<connection, request, deletion, puts, revocations>>

\* GitHub refuses a private repository to a run without a token, and may refuse a token.
FetchRefused(t) ==
  /\ thread[t].pc = "fetch"
  /\ thread[t].envelope = 0 \/ "provider" \in Faults
  /\ thread' = [thread EXCEPT ![t] = Resting]
  /\ UNCHANGED <<connection, request, mirror, deletion, puts, revocations>>

Executed == [pending |-> deletion.pending - 1, result |-> Backend = "arq"]

DeleteMirror ==
  /\ deletion.pending > 0
  /\ mirror' = FALSE
  /\ deletion' = Executed
  /\ UNCHANGED <<connection, request, thread, puts, revocations>>

\* rmtree raises: arq does not retry a job that raised, a background task is only logged.
DeletionFails ==
  /\ "disk" \in Faults /\ deletion.pending > 0 /\ mirror
  /\ deletion' = Executed
  /\ UNCHANGED <<connection, request, thread, mirror, puts, revocations>>

\* arq keeps the result of a job for an hour.
ResultExpires ==
  /\ deletion.result
  /\ deletion' = [deletion EXCEPT !.result = FALSE]
  /\ UNCHANGED <<connection, request, thread, mirror, puts, revocations>>

Admin(a) ==
  \/ LoadForPut(a) \/ CommitPut(a)
  \/ LoadForRevoke(a) \/ CommitRevoke(a) \/ EnqueueDeletion(a)
  \/ RequestDies(a)

Next ==
  \/ \E a \in Admins : Admin(a)
  \/ \E t \in Threads : LoadCredential(t) \/ Fetch(t) \/ FetchRefused(t)
  \/ DeleteMirror \/ DeletionFails \/ ResultExpires

Spec == Init /\ [][Next]_vars

\* A handler that committed runs on, and the queue is polled.
Fairness ==
  /\ \A a \in Admins : WF_vars(CommitPut(a) \/ CommitRevoke(a) \/ EnqueueDeletion(a))
  /\ \A t \in Threads : WF_vars(Fetch(t) \/ FetchRefused(t))
  /\ WF_vars(DeleteMirror)

FairSpec == Spec /\ Fairness

-----------------------------------------------------------------------------
(* Properties                                                               *)

\* A connection that is shown as connected has an envelope to decrypt, whatever puts and
\* revocations overlapped: no run of a connected repository fails on an erased credential.
ConnectedHasEnvelope ==
  connection.present /\ ~connection.revoked => connection.envelope # 0

\* PILOT.md 26: "Revocation erases ciphertext".
RevokedIsErased == connection.revoked => connection.envelope = 0

\* No request loaded the row of one that commits.
OneAtATime == \A a, b \in Admins : request[a].pc # "idle" /\ request[b].pc # "idle" => a = b

\* As long as requests do not overlap, a revoked connection keeps no ciphertext, however often
\* it is put and revoked and whichever requests die before they commit.
SequentialRevocationErases == []OneAtATime => []RevokedIsErased

\* SECURITY.md 23: "Disconnect/revoke must stop future fetches".
RevokedNeverFetches ==
  [][\A t \in Threads : Fetch(t) => ~connection.revoked]_vars

Holding(t) == thread[t].pc = "fetch" /\ thread[t].envelope # 0

\* PILOT.md 45: "the worker mirror disappears".  Asked only of revocations that no run
\* overtook: when the deletion is about to be queued, no thread holds a credential.
QuietRevocationDeletesMirror ==
  (/\ \E a \in Admins : request[a].pc = "enqueue"
   /\ connection.revoked
   /\ \A t \in Threads : ~Holding(t)) ~> (~mirror \/ ~connection.revoked)

\* The inductive invariant: envelopes are drawn upwards, so the one a put is about to write
\* differs from every one it may have loaded; a revocation works on a row that was connected.
ConnectionInv ==
  /\ ConnectedHasEnvelope
  /\ connection.envelope <= puts
  /\ \A a \in Admins :
       /\ request[a].pc = "put" =>
            request[a].row.envelope < request[a].envelope /\ request[a].envelope <= puts
       /\ request[a].pc = "revoke" => request[a].row.envelope # 0 /\ ~request[a].row.revoked
=============================================================================
