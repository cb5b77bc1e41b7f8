---------------------------- MODULE AnalysisSystem ----------------------------
(***************************************************************************)
(* The analysis pipeline: the API accepts runs, the queue delivers them,   *)
(* executions publish snapshots.  This module composes the three and       *)
(* states what their users rely on.                                        *)
(***************************************************************************)
EXTENDS AnalysisWorker

Init == StoreInit /\ ApiInit /\ WorkerInit

Api(q) ==
  /\ \/ \E k \in Keys, sim \in Simulate : ReceiveCreate(q, k, sim)
     \/ CommitCreate(q)
     \/ Enqueue(q)
     \/ RequestDies(q)
  /\ UNCHANGED workerVars

Worker(e) ==
  \/ \E r \in Runs : Deliver(e, r)
  \/ Execute(e)
  \/ AttemptFails(e)
  \/ Escape(e)
  \/ Crash(e)
  \/ Detach(e)

Next ==
  \/ \E q \in Requests : Api(q)
  \/ \E e \in Execs : Worker(e)
  \/ \E r \in Runs : GiveUp(r)
  \/ Push

Spec == Init /\ [][Next]_vars

\* A handler that received its request runs on, the workers poll the queue, and a thread
\* that is not killed takes its next step: each is scheduled by a loop of its own.
Fairness ==
  /\ \A q \in Requests : WF_vars((CommitCreate(q) \/ Enqueue(q)) /\ UNCHANGED workerVars)
  /\ \A e \in Execs : WF_vars(Execute(e))
  /\ \A e \in Execs, r \in Runs : SF_vars(Deliver(e, r))
  /\ \A r \in Runs : WF_vars(GiveUp(r))

FairSpec == Spec /\ Fairness

TypeOK == StoreTypeOK /\ ApiTypeOK /\ WorkerTypeOK

-----------------------------------------------------------------------------
(* Safety                                                                   *)

\* A run whose row says SUCCEEDED, and every run that names a commit, points at a snapshot
\* that is published, whatever executions of other attempts wrote to the row meanwhile
\* (structural_analysis.py 530 and 566 assign snapshot_sha in the publishing transactions).
SucceededRunIsPublished ==
  \A r \in Runs :
    /\ run[r].sha # 0 => Published(run[r].sha)
    /\ run[r].state = "SUCCEEDED" => run[r].sha # 0

\* Every citation of a published snapshot, and its commit's whole cited history, was stored as
\* a commit row: the history commits at line 540 before the graph does at line 580.
CitedCommitsAreStored ==
  \A c \in Commits : Published(c) => evidence[c] # {} /\ evidence[c] \subseteq stored

\* The run and its idempotency record are one commit (analyses.py 105): a run exists iff
\* exactly one key names it, with the request it was created for.
OneKeyPerRun ==
  \A r \in Runs : run[r].state # "ABSENT" <=>
    \E k \in Keys : /\ idem[k] = [run |-> r, simulate |-> run[r].simulate]
                    /\ \A j \in Keys \ {k} : idem[j].run # r

\* TESTING_STRATEGY.md 22: whatever requests raced, every accepted answer for a key names the
\* one run recorded for it, and for the same request.
AcceptedAnswersAgree ==
  \A q \in Requests : req[q].outcome = "accepted" =>
    idem[req[q].key] = [run |-> req[q].run, simulate |-> req[q].simulate]

\* TESTING_STRATEGY.md 22 as the promise to clients: keys are bound once and for ever, no run
\* has two keys, and runs and conflicts are answered as the bindings say, whatever requests
\* race, die and come again.
Create == INSTANCE IdempotentCreate WITH
  Bodies     <- BOOLEAN,
  Resources  <- Runs,
  NoResource <- NoRun,
  Clients    <- Requests,
  binding    <- [k \in Keys |-> [body |-> idem[k].simulate, resource |-> idem[k].run]],
  answer     <- [q \in Requests |->
    [key |-> req[q].key, body |-> req[q].simulate,
     outcome |-> IF req[q].outcome = "error" THEN "refused" ELSE req[q].outcome,
     resource |-> IF req[q].outcome = "accepted" THEN req[q].run ELSE NoRun]]

ImplementsIdempotentCreate == Create!Spec

\* TESTING_STRATEGY.md 21: no step changes the publisher or the cited changes of a snapshot
\* that is published, reanalyses of the same commit included.
PublishedSnapshotIsImmutable ==
  [][\A c \in Commits : Published(c) => snapshot'[c] = snapshot[c] /\ evidence'[c] = evidence[c]]_vars

\* A terminal run stays as it is: state, error, progress and snapshot.
TerminalRunIsFinal ==
  [][\A r \in Runs : Terminal(run[r]) => run'[r] = run[r]]_vars

\* A run recorded as FAILED says "No graph snapshot was published": none was by this run.
FailedRunPublishedNothing ==
  \A r \in Runs : run[r].state = "FAILED" => \A c \in Commits : snapshot[c] # r

\* The commits a snapshot cites are its own commit or ancestors of it.
EvidenceIsOfThePinnedCommit ==
  \A c \in Commits : evidence[c] \subseteq 1..c

\* With nothing but pushes around, a run that asked for no failure does not fail.
UndisturbedRunSucceeds ==
  \A r \in Runs : run[r].state = "FAILED" => run[r].simulate

\* While no attempt outlives its delivery ("detach" \notin Faults), the pipeline implements
\* the ledger that its readers see.
Ledger == INSTANCE RunLedger WITH
  status    <- [r \in Runs |-> run[r].state],
  result    <- [r \in Runs |-> run[r].sha],
  publisher <- snapshot,
  NoCommit  <- 0

ImplementsLedger == Ledger!Spec

-----------------------------------------------------------------------------
(* The inductive invariant                                                  *)

\* The phases of an execution record x in which src, hist and the stored history are set.
Sourced(x) ==
  \/ x.pc \in {"refs", "history", "rows", "commits", "attach", "reuse", "load", "publish"}
  \/ x.pc \in {"mark", "markCommit"} /\ x.mark # 10

Mined(x) == Sourced(x) /\ x.pc \notin {"refs", "history"}

Recorded(x) ==
  \/ x.pc \in {"load", "publish"}
  \/ x.pc \in {"mark", "markCommit"} /\ x.mark \notin {10, 40}

ExecutionInv(x) ==
  /\ x.pc # "idle" => run[x.run].state # "ABSENT"
  /\ x.pc \in {"source", "refs", "history"} => mirror # 0
  /\ Sourced(x) => x.src # 0
  /\ Mined(x) => x.hist # 0
  /\ Recorded(x) => History(x.hist) \subseteq stored
  /\ x.pc = "reuse" => Published(x.src)
  /\ x.row.sha # 0 => x.run \in Runs /\ run[x.run].sha # 0

RequestInv(q) ==
  /\ req[q].pc = "insert" => req[q].key \in Keys
  /\ req[q].pc = "enqueue" \/ req[q].outcome = "accepted" =>
       /\ req[q].key \in Keys /\ req[q].run \in Runs
       /\ idem[req[q].key] = [run |-> req[q].run, simulate |-> req[q].simulate]

RecordInv ==
  /\ \A k \in Keys : idem[k].run \in Runs \/ idem[k] = NoRecord
  /\ \A k \in Keys : idem[k].run \in Runs =>
       /\ run[idem[k].run].state # "ABSENT"
       /\ run[idem[k].run].simulate = idem[k].simulate
       /\ \A j \in Keys \ {k} : idem[j].run # idem[k].run
  /\ \A r \in Runs : run[r].state # "ABSENT" => \E k \in Keys : idem[k].run = r

\* What every step of the pipeline preserves, whoever takes it: the phases of the executions
\* are backed by what is stored, the requests by the records, the jobs by the runs.
PipelineInv ==
  /\ SucceededRunIsPublished
  /\ CitedCommitsAreStored
  /\ RecordInv
  /\ \A q \in Requests : RequestInv(q)
  /\ \A r \in Runs : job[r] # "none" => run[r].state # "ABSENT"
  /\ \A e \in Execs : ExecutionInv(exec[e])

\* The phases in which the run of an execution record x has begun, and those in which a session
\* has loaded its row.
Begun(x) ==
  \/ x.pc \notin {"idle", "start", "mark", "markCommit", "fakeStart", "exit"}
  \/ x.pc \in {"mark", "markCommit"} /\ x.mark # 10

Loaded(x) == x.pc \in {"markCommit", "reuse", "publish", "failCommit", "fakeStart", "fakeFinish"}

AttemptInv(x) ==
  x.pc # "idle" =>
    /\ x.owner /\ job[x.run] = "running"
    /\ x.pc \notin {"start", "exit"} => ~Terminal(run[x.run])
    /\ Begun(x) => run[x.run].state = "RUNNING"
    /\ Loaded(x) => x.row = run[x.run]

\* What makes the ledger true while no attempt outlives its delivery: a run is executed by one
\* attempt, which finds its row as it left it, and is queued once; who published succeeded.
LedgerInv ==
  /\ \A e \in Execs : AttemptInv(exec[e])
  /\ \A e \in Execs : \A f \in Execs \ {e} :
       exec[e].pc # "idle" /\ exec[f].pc # "idle" => exec[e].run # exec[f].run
  /\ \A q \in Requests : req[q].pc = "enqueue" =>
       /\ job[req[q].run] = "none"
       /\ \A p \in Requests \ {q} : req[p].pc = "enqueue" => req[p].run # req[q].run
  /\ \A c \in Commits : Published(c) => run[snapshot[c]].state = "SUCCEEDED"

\* What makes evidence be of its commit while executions follow one another: the branch of the
\* mirror stays where the execution pinned it.
PinnedInv ==
  /\ EvidenceIsOfThePinnedCommit
  /\ \A e \in Execs : /\ Sourced(exec[e]) => exec[e].src = mirror
                      /\ Mined(exec[e]) => exec[e].hist = mirror

\* What makes analyses succeed then: nobody stores or publishes between what an execution looks
\* up and what it inserts.
UndisturbedInv ==
  /\ UndisturbedRunSucceeds
  /\ \A e \in Execs :
       LET x == exec[e] IN
       /\ x.pc \notin {"fail", "failCommit"}
       /\ x.pc \in {"fakeStart", "fakeLoad", "fakeFinish"} => run[x.run].simulate
       /\ x.pc \in {"commits", "attach", "reuse"} => x.knownRef = refHead
       /\ x.pc \in {"attach", "reuse"} => x.known = stored
       /\ Recorded(x) => ~Published(x.src)

-----------------------------------------------------------------------------
(* Liveness                                                                 *)

\* Every accepted run ends in a terminal state for good: threads that outlived their jobs may
\* take it back to RUNNING (structural_analysis.py 98, 566), but not again and again, and the
\* last of them leaves it terminal.
EveryRunSettles ==
  \A r \in Runs : run[r].state = "QUEUED" ~> []Terminal(run[r])

\* ARCHITECTURE.md 63: "idempotency key resumes/restarts un-published run".  A client that
\* keeps sending its key is told of the run; the run it is told of must get somewhere.
ClientRetries ==
  \A q \in Requests, k \in Keys, sim \in Simulate :
    WF_vars(ReceiveCreate(q, k, sim) /\ UNCHANGED workerVars)

RetrySpec == FairSpec /\ ClientRetries

ReplayResumesRun ==
  \A r \in Runs :
    (\E q \in Requests : req[q].outcome = "accepted" /\ req[q].run = r) ~> Terminal(run[r])
=============================================================================
