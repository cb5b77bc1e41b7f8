---------------------------- MODULE AnalysisWorker ----------------------------
(***************************************************************************)
(* Executions of run_analysis (services/structural_analysis.py and         *)
(* services/analysis.py) in worker threads (worker.py), the arq queue that *)
(* delivers them at least once, and the bare mirror they read.             *)
(*                                                                         *)
(* Every database session of the code is a load step and a commit step, so *)
(* that what another session commits in between is seen or overwritten     *)
(* exactly as Flush says.  Git reads are steps of their own: the mirror is *)
(* locked only while it is fetched.                                        *)
(***************************************************************************)
EXTENDS AnalysisApi

CONSTANTS
  Execs,    \* BOUND: the executions alive at once; WorkerSettings.max_jobs of each worker
  MaxTries  \* arq's max_tries

ASSUME WorkerAssumption == MaxTries \in Nat \ {0}

VARIABLES
  exec,    \* the executions
  tries,   \* deliveries of each job so far
  remote,  \* the head of the branch on GitHub
  mirror   \* the head of the branch in the bare mirror, 0 before the first clone

workerVars == <<exec, tries, remote, mirror>>
vars == <<storeVars, apiVars, workerVars>>

Phase == {"idle", "start", "mark", "markCommit", "fetch", "source", "refs", "history", "rows",
          "commits", "attach", "reuse", "load", "publish", "fail", "failCommit",
          "fakeStart", "fakeLoad", "fakeFinish", "exit"}

\* owner: the worker that runs the thread still holds the job.  src, ref and hist are the
\* heads that read_source_snapshot, list_branch_refs and read_commit_history saw; known and
\* knownRef the rows _persist_history read; row the run as the current session loaded it.
Execution == [pc: Phase, run: Runs \cup {NoRun}, owner: BOOLEAN, mark: {0, 10, 40, 70},
              src: 0..MaxCommit, ref: 0..MaxCommit, hist: 0..MaxCommit,
              known: SUBSET Commits, knownRef: 0..MaxCommit, row: RunRow, error: ErrorCode]

Idle == [pc |-> "idle", run |-> NoRun, owner |-> FALSE, mark |-> 0, src |-> 0, ref |-> 0,
         hist |-> 0, known |-> {}, knownRef |-> 0, row |-> NoRow, error |-> "NONE"]

WorkerInit ==
  /\ exec = [e \in Execs |-> Idle]
  /\ tries = [r \in Runs |-> 0]
  /\ remote = 1
  /\ mirror = 0

WorkerTypeOK ==
  /\ exec \in [Execs -> {x \in Execution : x.pc # "idle" => x.run \in Runs}]
  /\ tries \in [Runs -> 0..MaxTries]
  /\ remote \in Commits
  /\ mirror \in 0..MaxCommit

-----------------------------------------------------------------------------
Become(e, x) == exec' = [exec EXCEPT ![e] = x]

(* The queue.  A background task of the API process is delivered once.      *)

Limit == IF Backend = "arq" THEN MaxTries ELSE 1

Deliver(e, r) ==
  /\ exec[e].pc = "idle"
  /\ job[r] = "queued"
  /\ tries[r] < Limit
  /\ Become(e, [Idle EXCEPT !.pc = "start", !.run = r, !.owner = TRUE])
  /\ job' = [job EXCEPT ![r] = "running"]
  /\ tries' = [tries EXCEPT ![r] = @ + 1]
  /\ UNCHANGED <<storeVars, req, remote, mirror>>

\* arq drops a job whose tries are used up; a lost background task is gone.
GiveUp(r) ==
  /\ job[r] = "queued"
  /\ tries[r] = Limit
  /\ job' = [job EXCEPT ![r] = "finished"]
  /\ UNCHANGED <<storeVars, req, workerVars>>

Release(e, status) ==
  job' = IF exec[e].owner THEN [job EXCEPT ![exec[e].run] = status] ELSE job

\* The thread returns (or raised and arq recorded it): the job is done if it is still ours.
Return(e) ==
  /\ exec[e].pc = "exit"
  /\ Release(e, "finished")
  /\ Become(e, Idle)
  /\ UNCHANGED <<storeVars, req, tries, remote, mirror>>

\* The worker process is killed; arq delivers the job again once its in-progress key expires.
\* "exhaust" kills threads also when their job is not delivered again: those of the last try,
\* and those that outlived their job.
Crash(e) ==
  /\ "crash" \in Faults
  /\ exec[e].pc # "idle"
  /\ "exhaust" \notin Faults => exec[e].owner /\ tries[exec[e].run] < Limit
  /\ Release(e, "queued")
  /\ Become(e, Idle)
  /\ UNCHANGED <<storeVars, req, tries, remote, mirror>>

\* asyncio cancels the task, which cannot stop its thread: at job_timeout arq marks the job
\* finished, at shutdown it leaves the job to be delivered again; the thread runs on.
Detach(e) ==
  /\ "detach" \in Faults
  /\ exec[e].pc # "idle" /\ exec[e].owner
  /\ \E status \in {"finished", "queued"} : Release(e, status)
  /\ Become(e, [exec[e] EXCEPT !.owner = FALSE])
  /\ UNCHANGED <<storeVars, req, tries, remote, mirror>>

\* A commit is pushed to the branch on GitHub.
Push ==
  /\ remote < MaxCommit
  /\ remote' = remote + 1
  /\ UNCHANGED <<storeVars, apiVars, exec, tries, mirror>>
-----------------------------------------------------------------------------
Row(e) == run[exec[e].run]

Goto(e, pc) == Become(e, [exec[e] EXCEPT !.pc = pc])

\* A session loads the run for a later commit.
Load(e, pc) == Become(e, [exec[e] EXCEPT !.pc = pc, !.row = Row(e)])

\* The session commits what was assigned to the loaded row, and is closed.
CommitRow(e, assigned, pc) ==
  /\ run' = [run EXCEPT ![exec[e].run] = Flush(@, exec[e].row, assigned)]
  /\ Become(e, [exec[e] EXCEPT !.pc = pc, !.row = NoRow])

\* Mutant: the exception is swallowed.
RaiseUnrecorded(e, code) ==
  Become(e, [exec[e] EXCEPT !.pc = "exit", !.row = NoRow, !.error = code])

\* The except clauses of run_structural_analysis choose the code that _fail_run records.
Raise(e, code) ==
  Become(e, [exec[e] EXCEPT !.pc = "fail", !.row = NoRow, !.error = code])

readerUnchanged == <<storeVars, apiVars, tries, remote>>

\* run_analysis and the first session of run_structural_analysis or run_fake_analysis.
Start(e) ==
  /\ exec[e].pc = "start"
  /\ \/ Terminal(Row(e)) /\ Goto(e, "exit")
     \/ ~Terminal(Row(e)) /\ Row(e).simulate /\ Load(e, "fakeStart")
     \/ /\ ~Terminal(Row(e)) /\ ~Row(e).simulate
        /\ Become(e, [exec[e] EXCEPT !.pc = "mark", !.mark = 10])
  /\ UNCHANGED <<readerUnchanged, mirror>>

\* Mutant: the history session is skipped.
AfterMarkSkippingHistory(m) == IF m = 10 THEN "fetch" ELSE "load"

AfterMark(m) == IF m = 10 THEN "fetch" ELSE IF m = 40 THEN "rows" ELSE "load"

\* _set_progress: nothing for a run it finds terminal.
SetProgressLoad(e) ==
  /\ exec[e].pc = "mark"
  /\ IF Terminal(Row(e)) THEN Goto(e, AfterMark(exec[e].mark)) ELSE Load(e, "markCommit")
  /\ UNCHANGED <<readerUnchanged, mirror>>

SetProgressCommit(e) ==
  /\ exec[e].pc = "markCommit"
  /\ CommitRow(e, [exec[e].row EXCEPT !.state = "RUNNING", !.progress = exec[e].mark],
               AfterMark(exec[e].mark))
  /\ UNCHANGED <<idem, snapshot, evidence, stored, refHead, apiVars, tries, remote, mirror>>

\* sync_github_repository: clone or fetch the branch under the mirror's lock.
SyncMirror(e) ==
  /\ exec[e].pc = "fetch"
  /\ mirror' = remote
  /\ Goto(e, "source")
  /\ UNCHANGED readerUnchanged

\* read_source_snapshot pins the commit the branch resolves to now.
ReadSourceSnapshot(e) ==
  /\ exec[e].pc = "source"
  /\ Become(e, [exec[e] EXCEPT !.pc = "refs", !.src = mirror])
  /\ UNCHANGED <<readerUnchanged, mirror>>

ListBranchRefs(e) ==
  /\ exec[e].pc = "refs"
  /\ Become(e, [exec[e] EXCEPT !.pc = "history", !.ref = mirror])
  /\ UNCHANGED <<readerUnchanged, mirror>>

\* Mutant: the history is read from GitHub, not from the mirror.
ReadRemoteHistory(e) ==
  /\ exec[e].pc = "history"
  /\ Become(e, [exec[e] EXCEPT !.pc = "mark", !.mark = 40, !.hist = remote])
  /\ UNCHANGED <<readerUnchanged, mirror>>

\* read_commit_history is given the branch, not the pinned commit: it resolves it again.
\* The evolution of the snapshot is mined from these commits.
ReadCommitHistory(e) ==
  /\ exec[e].pc = "history"
  /\ Become(e, [exec[e] EXCEPT !.pc = "mark", !.mark = 40, !.hist = mirror])
  /\ UNCHANGED <<readerUnchanged, mirror>>
-----------------------------------------------------------------------------
Cited(e) == History(exec[e].hist)

\* The second session opens: _persist_history reads the branch refs that are stored, and then
\* which of the commits are; another execution may commit in between.
ReadRefRows(e) ==
  /\ exec[e].pc = "rows"
  /\ Become(e, [exec[e] EXCEPT !.pc = "commits", !.knownRef = refHead])
  /\ UNCHANGED <<readerUnchanged, mirror>>

ReadCommitRows(e) ==
  /\ exec[e].pc = "commits"
  /\ Become(e, [exec[e] EXCEPT !.pc = "attach", !.known = stored])
  /\ UNCHANGED <<readerUnchanged, mirror>>

\* uq_repository_commit or uq_repository_branch refuses a row inserted since it was looked up.
HistoryConflict(e) ==
  \/ (Cited(e) \ exec[e].known) \cap stored # {}
  \/ exec[e].knownRef = 0 /\ refHead # 0

\* Mutant: only the head of the branch is stored.
PersistHeadOnly(e) ==
  /\ stored' = stored \cup {exec[e].hist}
  /\ refHead' = Column(refHead, exec[e].knownRef, exec[e].ref)

PersistHistory(e) ==
  /\ stored' = stored \cup Cited(e)
  /\ refHead' = Column(refHead, exec[e].knownRef, exec[e].ref)

\* The session finds no published snapshot of the pinned commit and commits the history, or
\* finds one and loads the run.
Attach(e) ==
  /\ exec[e].pc = "attach"
  /\ \/ /\ Published(exec[e].src)
        /\ Load(e, "reuse")
        /\ UNCHANGED <<stored, refHead>>
     \/ /\ ~Published(exec[e].src) /\ HistoryConflict(e)
        /\ Raise(e, "ANALYSIS_FAILED")
        /\ UNCHANGED <<stored, refHead>>
     \/ /\ ~Published(exec[e].src) /\ ~HistoryConflict(e)
        /\ PersistHistory(e)
        /\ Become(e, [exec[e] EXCEPT !.pc = "mark", !.mark = 70])
  /\ UNCHANGED <<run, idem, snapshot, evidence, apiVars, tries, remote, mirror>>

\* Mutant: _persist_evolution never returns early.
NeverPersisted(c) == FALSE

\* _persist_evolution returns early only if the snapshot has module candidates, which need an
\* analyzable file; otherwise it inserts the file changes again, whose ids the snapshot fixes.
EvolutionPersisted(c) == c \in Analyzable

EvolutionConflict(e) ==
  ~EvolutionPersisted(exec[e].src) /\ Cited(e) \cap evidence[exec[e].src] # {}

\* Mutant: snapshot_sha is not assigned.
SucceededWithoutSha(e) == [exec[e].row EXCEPT !.state = "SUCCEEDED", !.progress = 100]

Succeeded(e) == [exec[e].row EXCEPT !.state = "SUCCEEDED", !.progress = 100, !.sha = exec[e].src]

\* The session commits history, evolution and the run of a reused snapshot together.
CommitReuse(e) ==
  LET src == exec[e].src IN
  /\ exec[e].pc = "reuse"
  /\ \/ /\ ~HistoryConflict(e) /\ ~EvolutionConflict(e)
        /\ PersistHistory(e)
        /\ evidence' = [evidence EXCEPT ![src] = IF EvolutionPersisted(src) THEN @ ELSE @ \cup Cited(e)]
        /\ CommitRow(e, Succeeded(e), "exit")
     \/ /\ HistoryConflict(e) \/ EvolutionConflict(e)
        /\ Raise(e, "ANALYSIS_FAILED")
        /\ UNCHANGED <<run, evidence, stored, refHead>>
  /\ UNCHANGED <<idem, snapshot, apiVars, tries, remote, mirror>>

\* The third session opens and loads the run; then the graph is inserted.
PublishLoad(e) ==
  /\ exec[e].pc = "load"
  /\ Load(e, "publish")
  /\ UNCHANGED <<readerUnchanged, mirror>>

\* Mutant: the table lacks its unique constraint and the id is drawn.
NoConflict(c) == FALSE

\* uq_repository_snapshot_commit, and the snapshot's stable id, admit one snapshot per commit.
SnapshotConflict(c) == Published(c)

\* _persist_graph, _persist_evolution and the run in one commit.
PublishCommit(e) ==
  LET src == exec[e].src IN
  /\ exec[e].pc = "publish"
  /\ \/ /\ ~SnapshotConflict(src)
        /\ snapshot' = [snapshot EXCEPT ![src] = exec[e].run]
        /\ evidence' = [evidence EXCEPT ![src] = Cited(e)]
        /\ CommitRow(e, Succeeded(e), "exit")
     \/ /\ SnapshotConflict(src)
        /\ Raise(e, "ANALYSIS_FAILED")
        /\ UNCHANGED <<run, snapshot, evidence>>
  /\ UNCHANGED <<idem, stored, refHead, apiVars, tries, remote, mirror>>
-----------------------------------------------------------------------------
\* What each step inside the try block can raise when its surroundings fail.  The first progress
\* mark is set before the block.
RaisedIn(x) ==
  CASE x.pc = "fetch" -> {"CREDENTIAL_UNAVAILABLE", "GIT_OPERATION_FAILED", "ANALYSIS_FAILED"}
    [] x.pc \in {"source", "refs", "history"} ->
         {"REPOSITORY_LIMIT_EXCEEDED", "GIT_OPERATION_FAILED", "ANALYSIS_FAILED"}
    [] x.pc \in {"mark", "markCommit"} /\ x.mark # 10 -> {"ANALYSIS_FAILED"}
    [] x.pc \in {"rows", "commits", "attach", "reuse", "load", "publish"} -> {"ANALYSIS_FAILED"}
    [] OTHER -> {}

AttemptFails(e) ==
  /\ "attempt" \in Faults
  /\ \E code \in RaisedIn(exec[e]) : Raise(e, code)
  /\ UNCHANGED <<readerUnchanged, mirror>>

\* _fail_run overwrites whatever state it loads.
FailLoad(e) ==
  /\ exec[e].pc = "fail"
  /\ Load(e, "failCommit")
  /\ UNCHANGED <<readerUnchanged, mirror>>

FailCommit(e) ==
  /\ exec[e].pc = "failCommit"
  /\ CommitRow(e, [exec[e].row EXCEPT !.state = "FAILED", !.error = exec[e].error], "exit")
  /\ UNCHANGED <<idem, snapshot, evidence, stored, refHead, apiVars, tries, remote, mirror>>

\* run_fake_analysis commits the start, sleeps, and records the simulated failure.
FakeStart(e) ==
  /\ exec[e].pc = "fakeStart"
  /\ CommitRow(e, [exec[e].row EXCEPT !.state = "RUNNING", !.progress = 25], "fakeLoad")
  /\ UNCHANGED <<idem, snapshot, evidence, stored, refHead, apiVars, tries, remote, mirror>>

FakeLoad(e) ==
  /\ exec[e].pc = "fakeLoad"
  /\ Load(e, "fakeFinish")
  /\ UNCHANGED <<readerUnchanged, mirror>>

FakeFinish(e) ==
  /\ exec[e].pc = "fakeFinish"
  /\ CommitRow(e, [exec[e].row EXCEPT !.state = "FAILED", !.progress = 100,
                                      !.error = "SIMULATED_FAILURE"], "exit")
  /\ UNCHANGED <<idem, snapshot, evidence, stored, refHead, apiVars, tries, remote, mirror>>

\* A step outside the try block, or _fail_run itself, raises: the run keeps its state.
Escape(e) ==
  /\ "escape" \in Faults
  /\ exec[e].pc \in {"start", "mark", "markCommit", "fail", "failCommit",
                     "fakeStart", "fakeLoad", "fakeFinish"}
  /\ exec[e].pc \in {"mark", "markCommit"} => exec[e].mark = 10
  /\ Become(e, [exec[e] EXCEPT !.pc = "exit", !.row = NoRow])
  /\ UNCHANGED <<readerUnchanged, mirror>>

Execute(e) ==
  \/ Start(e) \/ SetProgressLoad(e) \/ SetProgressCommit(e)
  \/ SyncMirror(e) \/ ReadSourceSnapshot(e) \/ ListBranchRefs(e) \/ ReadCommitHistory(e)
  \/ ReadRefRows(e) \/ ReadCommitRows(e) \/ Attach(e) \/ CommitReuse(e)
  \/ PublishLoad(e) \/ PublishCommit(e)
  \/ FailLoad(e) \/ FailCommit(e) \/ FakeStart(e) \/ FakeLoad(e) \/ FakeFinish(e)
  \/ Return(e)
=============================================================================
