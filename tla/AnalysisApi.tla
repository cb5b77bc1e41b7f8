----------------------------- MODULE AnalysisApi -----------------------------
(***************************************************************************)
(* POST /repositories/{id}/analyses (routes/analyses.py create_analysis)   *)
(* with its idempotency record (idempotency.py) and its enqueue (queue.py).*)
(* Requests run concurrently; each is a lookup, one commit, one enqueue.   *)
(* A request slot is reused: a client may send the same key again.         *)
(***************************************************************************)
EXTENDS AnalysisStore

CONSTANTS
  Requests,   \* BOUND: the requests in flight at once
  NoKey,      \* no Idempotency-Key yet
  Simulate,   \* the values of simulate_failure that clients send
  Backend,    \* settings.job_backend
  Faults      \* the failures of the environment that may happen

ASSUME ApiAssumption ==
  /\ NoKey \notin Keys
  /\ Simulate \subseteq BOOLEAN
  /\ Backend \in {"manual", "inline", "arq"}

VARIABLES
  req,  \* the handler of each request slot
  job   \* the job of each run in arq's queue or among the background tasks

apiVars == <<req, job>>

JobState == {"none", "queued", "running", "finished"}

\* outcome: what the last response of the slot told the client.
Request == [pc: {"idle", "insert", "enqueue", "answered"},
            key: Keys \cup {NoKey}, simulate: BOOLEAN, run: Runs \cup {NoRun},
            outcome: {"none", "accepted", "conflict", "error"}]

ApiInit ==
  /\ req = [q \in Requests |-> [pc |-> "idle", key |-> NoKey, simulate |-> FALSE,
                               run |-> NoRun, outcome |-> "none"]]
  /\ job = [r \in Runs |-> "none"]

ApiTypeOK ==
  /\ req \in [Requests -> Request]
  /\ job \in [Runs -> JobState]

Answer(q, outcome, r) ==
  req' = [req EXCEPT ![q] = [@ EXCEPT !.pc = "answered", !.outcome = outcome, !.run = r]]

\* Mutant: the fingerprint of the recorded request is not compared.
FindByKeyOnly(k, sim) == IF idem[k] = NoRecord THEN "absent" ELSE "found"

FindIdempotentResource(k, sim) ==
  IF idem[k] = NoRecord THEN "absent" ELSE IF idem[k].simulate # sim THEN "conflict" ELSE "found"

\* The request arrives and looks its key up; a replay returns the recorded run as it is.
ReceiveCreate(q, k, sim) ==
  /\ req[q].pc \in {"idle", "answered"}
  /\ LET known == FindIdempotentResource(k, sim) IN
     req' = [req EXCEPT ![q] =
               [pc      |-> IF known = "absent" THEN "insert" ELSE "answered",
                key     |-> k,
                simulate |-> sim,
                run     |-> IF known = "found" THEN idem[k].run ELSE NoRun,
                outcome |-> IF known = "absent" THEN "none"
                            ELSE IF known = "found" THEN "accepted" ELSE "conflict"]]
  /\ UNCHANGED <<storeVars, job>>

NewRun(sim) == [NoRow EXCEPT !.state = "QUEUED", !.simulate = sim]

IdempotencyTaken(k) == idem[k] # NoRecord

\* db.commit(): the run and its idempotency record, or IntegrityError on the unique
\* scope (workspace, endpoint, key), which no handler catches.
CommitCreate(q) ==
  /\ req[q].pc = "insert"
  /\ \/ /\ ~IdempotencyTaken(req[q].key)
        /\ \E r \in {x \in Runs : run[x] = NoRow} :
             /\ run' = [run EXCEPT ![r] = NewRun(req[q].simulate)]
             /\ idem' = [idem EXCEPT ![req[q].key] = [run |-> r, simulate |-> req[q].simulate]]
             /\ req' = [req EXCEPT ![q] = [@ EXCEPT !.pc = "enqueue", !.run = r]]
     \/ /\ IdempotencyTaken(req[q].key)
        /\ Answer(q, "error", NoRun)
        /\ UNCHANGED <<run, idem>>
  /\ UNCHANGED <<snapshot, evidence, stored, refHead, job>>

\* await enqueue_analysis: the run id is arq's job id and is new, so it is never refused.
Enqueue(q) ==
  /\ req[q].pc = "enqueue"
  /\ Answer(q, "accepted", req[q].run)
  /\ job' = [job EXCEPT ![req[q].run] = IF Backend = "manual" THEN @ ELSE "queued"]
  /\ UNCHANGED storeVars

\* The API process dies, or create_pool raises after the commit: no response names the run.
RequestDies(q) ==
  /\ "request" \in Faults
  /\ req[q].pc \in {"insert", "enqueue"}
  /\ Answer(q, "error", NoRun)
  /\ UNCHANGED <<storeVars, job>>
=============================================================================
