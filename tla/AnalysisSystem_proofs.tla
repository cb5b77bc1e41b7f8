------------------------ MODULE AnalysisSystem_proofs ------------------------
(***************************************************************************)
(* Proofs about the analysis pipeline, for every set of runs, keys,        *)
(* requests and executions and every combination of faults.  After its     *)
(* types, PipelineInv is shown to be inductive, and what follows from it:  *)
(* whatever attempts, zombies, retries and failures meet, a succeeded run  *)
(* points at a published snapshot whose citations are stored, every        *)
(* accepted answer names the one run of its key, and POST analyses         *)
(* implements the idempotent create.  Then the ledger of runs and          *)
(* snapshots, which holds while no attempt outlives its delivery, and what *)
(* a pipeline keeps whose executions follow one another.                   *)
(***************************************************************************)
EXTENDS AnalysisSystem, TLAPS

USE StoreAssumption, ApiAssumption, WorkerAssumption

-----------------------------------------------------------------------------
(* Types                                                                    *)

Active == {x \in Execution : x.pc # "idle" => x.run \in Runs}

\* Flushing a typed row over a typed stored row gives a typed row.
LEMMA FlushType ==
  ASSUME NEW committed \in RunRow, NEW loaded \in RunRow, NEW assigned \in RunRow
  PROVE  Flush(committed, loaded, assigned) \in RunRow
BY DEF Flush, Column, RunRow

\* The row _set_progress assigns (structural_analysis.py:83-84) is typed.
LEMMA AssignProgressType ==
  ASSUME NEW row \in RunRow, NEW progress \in 0..100
  PROVE  [row EXCEPT !.state = "RUNNING", !.progress = progress] \in RunRow
BY DEF RunRow, State

\* The row _fail_run assigns is typed.
LEMMA AssignFailureType ==
  ASSUME NEW row \in RunRow, NEW error \in ErrorCode
  PROVE  [row EXCEPT !.state = "FAILED", !.error = error] \in RunRow
BY DEF RunRow, State, ErrorCode

\* The row a simulated failure of run_fake_analysis assigns is typed.
LEMMA AssignSimulatedFailureType ==
  ASSUME NEW row \in RunRow
  PROVE  [row EXCEPT !.state = "FAILED", !.progress = 100, !.error = "SIMULATED_FAILURE"] \in RunRow
<1>1. ASSUME NEW state \in State, NEW progress \in 0..100, NEW error \in ErrorCode
      PROVE  [row EXCEPT !.state = state, !.progress = progress, !.error = error] \in RunRow
  BY DEF RunRow
<1>2. "FAILED" \in State /\ 100 \in 0..100 /\ "SIMULATED_FAILURE" \in ErrorCode
  BY DEF State, ErrorCode
<1> QED BY <1>1, <1>2

\* The row a publishing or reusing session assigns is typed.
LEMMA AssignSuccessType ==
  ASSUME NEW row \in RunRow, NEW sha \in 0..MaxCommit
  PROVE  [row EXCEPT !.state = "SUCCEEDED", !.progress = 100, !.sha = sha] \in RunRow
<1>1. ASSUME NEW state \in State, NEW progress \in 0..100
      PROVE  [row EXCEPT !.state = state, !.progress = progress, !.sha = sha] \in RunRow
  BY DEF RunRow
<1>2. "SUCCEEDED" \in State /\ 100 \in 0..100
  BY DEF State
<1> QED BY <1>1, <1>2

\* The history of a commit consists of commits.
LEMMA HistoryType ==
  ASSUME NEW h \in 0..MaxCommit
  PROVE  History(h) \subseteq Commits
BY DEF History, Commits

\* The values that stand for "no row", "no execution" and "no record" are typed.
LEMMA NullTypes == NoRow \in RunRow /\ Idle \in Active /\ NoRecord \in IdempotencyRecord
BY DEF NoRow, RunRow, Idle, Execution, NoRecord, IdempotencyRecord, State, ErrorCode, Phase,
       Commits, Active

\* The fields of an active execution have their types.
LEMMA ActiveFields ==
  ASSUME NEW x \in Active
  PROVE  /\ x.row \in RunRow /\ x.error \in ErrorCode /\ x.mark \in {0, 10, 40, 70}
         /\ x.src \in 0..MaxCommit /\ x.ref \in 0..MaxCommit /\ x.hist \in 0..MaxCommit
         /\ x.known \in SUBSET Commits /\ x.knownRef \in 0..MaxCommit
         /\ x.pc # "idle" => x.run \in Runs
BY DEF Active, Execution

\* Replacing one execution by a typed one keeps exec typed.
LEMMA BecomeType ==
  ASSUME TypeOK, NEW e \in Execs, NEW x \in Active, Become(e, x)
  PROVE  exec' \in [Execs -> Active]
BY DEF Become, TypeOK, WorkerTypeOK, Active

\* An active execution that moves on, and one that loads a row, stay typed.
LEMMA GotoType ==
  ASSUME TypeOK, NEW e \in Execs, exec[e].pc # "idle", NEW pc \in Phase,
         Goto(e, pc) \/ Load(e, pc)
  PROVE  exec' \in [Execs -> Active]
<1>1. exec[e] \in Active /\ run[exec[e].run] \in RunRow
  BY DEF TypeOK, StoreTypeOK, WorkerTypeOK, Active
<1>2. [exec[e] EXCEPT !.pc = pc] \in Active
  BY <1>1 DEF Active, Execution
<1>3. [exec[e] EXCEPT !.pc = pc, !.row = Row(e)] \in Active
  BY <1>1 DEF Active, Execution, Row
<1> QED BY <1>2, <1>3, BecomeType DEF Goto, Load

\* Committing the loaded row keeps the runs typed.
LEMMA CommitRowType ==
  ASSUME TypeOK, NEW e \in Execs, exec[e].pc # "idle",
         NEW assigned \in RunRow, NEW pc \in Phase, CommitRow(e, assigned, pc)
  PROVE  run' \in [Runs -> RunRow] /\ exec' \in [Execs -> Active]
<1>1. exec[e] \in Active /\ exec[e].row \in RunRow
  BY ActiveFields DEF TypeOK, WorkerTypeOK, Active
<1>2. exec[e].run \in Runs /\ run[exec[e].run] \in RunRow
  BY <1>1 DEF TypeOK, StoreTypeOK, Active
<1>3. Flush(run[exec[e].run], exec[e].row, assigned) \in RunRow
  BY <1>1, <1>2, FlushType
<1>4. run' \in [Runs -> RunRow]
  BY <1>3 DEF CommitRow, TypeOK, StoreTypeOK
<1>5. [exec[e] EXCEPT !.pc = pc, !.row = NoRow] \in Active
  BY <1>1, NullTypes DEF Active, Execution
<1> QED BY <1>4, <1>5, BecomeType DEF CommitRow

\* An exception on its way to the except clauses keeps the executions typed.
LEMMA RaiseType ==
  ASSUME TypeOK, NEW e \in Execs, exec[e].pc # "idle", NEW code \in ErrorCode, Raise(e, code)
  PROVE  exec' \in [Execs -> Active]
<1>1. exec[e] \in Active
  BY DEF TypeOK, WorkerTypeOK, Active
<1>2. [exec[e] EXCEPT !.pc = "fail", !.row = NoRow, !.error = code] \in Active
  BY <1>1, NullTypes DEF Active, Execution, Phase
<1> QED BY <1>2, BecomeType DEF Raise

\* The end of a delivery keeps the jobs typed.
LEMMA ReleaseType ==
  ASSUME TypeOK, NEW e \in Execs, NEW status \in JobState, Release(e, status)
  PROVE  job' \in [Runs -> JobState]
BY DEF Release, TypeOK, ApiTypeOK

\* The parts of TypeOK that a step of an execution leaves alone follow from its frame.
LEMMA TypeFromParts ==
  ASSUME TypeOK, run' \in [Runs -> RunRow], exec' \in [Execs -> Active],
         evidence' \in [Commits -> SUBSET Commits], snapshot' \in [Commits -> Runs \cup {NoRun}],
         stored' \in SUBSET Commits, refHead' \in 0..MaxCommit, mirror' \in 0..MaxCommit,
         UNCHANGED <<idem, apiVars, tries, remote>>
  PROVE  TypeOK'
BY DEF TypeOK, StoreTypeOK, ApiTypeOK, WorkerTypeOK, apiVars, Active

\* Every step of the API process (routes/analyses.py) keeps TypeOK.
LEMMA ApiStepType ==
  ASSUME TypeOK, NEW q \in Requests, Api(q)
  PROVE  TypeOK'
<1>1. ASSUME NEW k \in Keys, NEW sim \in Simulate, ReceiveCreate(q, k, sim), UNCHANGED workerVars
      PROVE  TypeOK'
  <2>1. idem[k].run \in Runs \cup {NoRun} /\ sim \in BOOLEAN
    BY <1>1 DEF TypeOK, StoreTypeOK, IdempotencyRecord
  <2>2. req' \in [Requests -> Request]
    BY <1>1, <2>1 DEF ReceiveCreate, TypeOK, ApiTypeOK, Request
  <2> QED BY <1>1, <2>2 DEF ReceiveCreate, TypeOK, StoreTypeOK, ApiTypeOK, WorkerTypeOK,
                            storeVars, workerVars
<1>2. ASSUME CommitCreate(q), UNCHANGED workerVars PROVE TypeOK'
  <2>1. req[q] \in Request
    BY DEF TypeOK, ApiTypeOK
  <2>2. NewRun(req[q].simulate) \in RunRow
    BY <2>1, NullTypes DEF NewRun, Request, RunRow, State
  <2>3. \A r \in Runs : [run |-> r, simulate |-> req[q].simulate] \in IdempotencyRecord
    BY <2>1 DEF Request, IdempotencyRecord
  <2>4. run' \in [Runs -> RunRow]
    BY <1>2, <2>2 DEF CommitCreate, TypeOK, StoreTypeOK
  <2>5. idem' \in [Keys -> IdempotencyRecord]
    BY <1>2, <2>3 DEF CommitCreate, TypeOK, StoreTypeOK
  <2>6. req' \in [Requests -> Request]
    <3>1. \A r \in Runs : [req[q] EXCEPT !.pc = "enqueue", !.run = r] \in Request
      BY <2>1 DEF Request
    <3>2. [req[q] EXCEPT !.pc = "answered", !.outcome = "error", !.run = NoRun] \in Request
      BY <2>1 DEF Request
    <3> QED BY <1>2, <3>1, <3>2 DEF CommitCreate, Answer, TypeOK, ApiTypeOK
  <2> QED BY <1>2, <2>4, <2>5, <2>6 DEF CommitCreate, TypeOK, StoreTypeOK, ApiTypeOK,
                                        WorkerTypeOK, workerVars
<1>3. ASSUME Enqueue(q), UNCHANGED workerVars PROVE TypeOK'
  <2>1. req' \in [Requests -> Request]
    BY <1>3 DEF Enqueue, Answer, TypeOK, ApiTypeOK, Request
  <2>2. job' \in [Runs -> JobState]
    BY <1>3 DEF Enqueue, TypeOK, ApiTypeOK, JobState
  <2> QED BY <1>3, <2>1, <2>2 DEF Enqueue, TypeOK, StoreTypeOK, ApiTypeOK, WorkerTypeOK,
                                  storeVars, workerVars
<1>4. ASSUME RequestDies(q), UNCHANGED workerVars PROVE TypeOK'
  <2>1. req' \in [Requests -> Request]
    BY <1>4 DEF RequestDies, Answer, TypeOK, ApiTypeOK, Request
  <2> QED BY <1>4, <2>1 DEF RequestDies, TypeOK, StoreTypeOK, ApiTypeOK, WorkerTypeOK,
                            storeVars, workerVars
<1> QED BY <1>1, <1>2, <1>3, <1>4 DEF Api

\* Every step of an analysis thread (structural_analysis.py, analysis.py) keeps TypeOK.
LEMMA ExecuteStepType ==
  ASSUME TypeOK, NEW e \in Execs, Execute(e)
  PROVE  TypeOK'
<1> DEFINE x == exec[e]
<1>0. /\ x \in Active /\ x.row \in RunRow /\ x.error \in ErrorCode
      /\ x.mark \in {0, 10, 40, 70} /\ x.hist \in 0..MaxCommit /\ x.src \in 0..MaxCommit
      /\ x.ref \in 0..MaxCommit /\ Cited(e) \subseteq Commits
  BY ActiveFields, HistoryType DEF TypeOK, WorkerTypeOK, Active, Cited
<1>a. /\ run \in [Runs -> RunRow] /\ snapshot \in [Commits -> Runs \cup {NoRun}]
      /\ evidence \in [Commits -> SUBSET Commits] /\ stored \in SUBSET Commits
      /\ refHead \in 0..MaxCommit /\ mirror \in 0..MaxCommit /\ remote \in Commits
  BY DEF TypeOK, StoreTypeOK, WorkerTypeOK
<1>b. AfterMark(x.mark) \in Phase
  BY DEF AfterMark, Phase
<1>r. ASSUME x.pc # "idle" PROVE x.run \in Runs /\ run[x.run] \in RunRow
  BY <1>0, <1>a, <1>r DEF Active
<1>1. CASE Start(e)
  <2>1. x.pc # "idle" /\ UNCHANGED <<readerUnchanged, mirror>>
    BY <1>1 DEF Start
  <2>2. [x EXCEPT !.pc = "mark", !.mark = 10] \in Active
    BY <1>0, <2>1 DEF Active, Execution, Phase
  <2>3. exec' \in [Execs -> Active]
    BY <1>1, <2>1, <2>2, GotoType, BecomeType DEF Start, Phase
  <2> QED BY <1>a, <2>1, <2>3, TypeFromParts DEF readerUnchanged, storeVars, apiVars
<1>2. CASE SetProgressLoad(e)
  <2>1. x.pc # "idle" /\ UNCHANGED <<readerUnchanged, mirror>>
    BY <1>2 DEF SetProgressLoad
  <2>2. exec' \in [Execs -> Active]
    BY <1>2, <1>b, <2>1, GotoType DEF SetProgressLoad, Phase
  <2> QED BY <1>a, <2>1, <2>2, TypeFromParts DEF readerUnchanged, storeVars, apiVars
<1>3. CASE SetProgressCommit(e)
  <2>1. [x.row EXCEPT !.state = "RUNNING", !.progress = x.mark] \in RunRow
    <3>1. x.row \in RunRow /\ x.mark \in 0..100
      BY <1>0
    <3> QED BY <3>1, AssignProgressType
  <2>2. run' \in [Runs -> RunRow] /\ exec' \in [Execs -> Active]
    BY <1>3, <1>b, <2>1, CommitRowType DEF SetProgressCommit
  <2> QED BY <1>3, <1>a, <2>2, TypeFromParts DEF SetProgressCommit
<1>4. CASE SyncMirror(e)
  <2>1. x.pc # "idle" /\ UNCHANGED readerUnchanged /\ mirror' \in 0..MaxCommit
    BY <1>4, <1>a DEF SyncMirror, Commits
  <2>2. exec' \in [Execs -> Active]
    BY <1>4, <2>1, GotoType DEF SyncMirror, Phase
  <2> QED BY <1>a, <2>1, <2>2, TypeFromParts DEF readerUnchanged, storeVars, apiVars
<1>5. CASE ReadSourceSnapshot(e)
  <2>1. [x EXCEPT !.pc = "refs", !.src = mirror] \in Active
    BY <1>0, <1>a, <1>5 DEF Active, Execution, Phase, ReadSourceSnapshot
  <2>2. exec' \in [Execs -> Active]
    BY <1>5, <2>1, BecomeType DEF ReadSourceSnapshot
  <2> QED BY <1>5, <1>a, <2>2, TypeFromParts DEF ReadSourceSnapshot, readerUnchanged, storeVars, apiVars
<1>6. CASE ListBranchRefs(e)
  <2>1. [x EXCEPT !.pc = "history", !.ref = mirror] \in Active
    BY <1>0, <1>a, <1>6 DEF Active, Execution, Phase, ListBranchRefs
  <2>2. exec' \in [Execs -> Active]
    BY <1>6, <2>1, BecomeType DEF ListBranchRefs
  <2> QED BY <1>6, <1>a, <2>2, TypeFromParts DEF ListBranchRefs, readerUnchanged, storeVars, apiVars
<1>7. CASE ReadCommitHistory(e)
  <2>1. [x EXCEPT !.pc = "mark", !.mark = 40, !.hist = mirror] \in Active
    BY <1>0, <1>a, <1>7 DEF Active, Execution, Phase, ReadCommitHistory
  <2>2. exec' \in [Execs -> Active]
    BY <1>7, <2>1, BecomeType DEF ReadCommitHistory
  <2> QED BY <1>7, <1>a, <2>2, TypeFromParts DEF ReadCommitHistory, readerUnchanged, storeVars, apiVars
<1>8. CASE ReadRefRows(e)
  <2>1. [x EXCEPT !.pc = "commits", !.knownRef = refHead] \in Active
    BY <1>0, <1>a, <1>8 DEF Active, Execution, Phase, ReadRefRows
  <2>2. exec' \in [Execs -> Active]
    BY <1>8, <2>1, BecomeType DEF ReadRefRows
  <2> QED BY <1>8, <1>a, <2>2, TypeFromParts DEF ReadRefRows, readerUnchanged, storeVars, apiVars
<1>8b. CASE ReadCommitRows(e)
  <2>1. [x EXCEPT !.pc = "attach", !.known = stored] \in Active
    BY <1>0, <1>a, <1>8b DEF Active, Execution, Phase, ReadCommitRows
  <2>2. exec' \in [Execs -> Active]
    BY <1>8b, <2>1, BecomeType DEF ReadCommitRows
  <2> QED BY <1>8b, <1>a, <2>2, TypeFromParts DEF ReadCommitRows, readerUnchanged, storeVars, apiVars
<1>h. ASSUME PersistHistory(e) PROVE stored' \in SUBSET Commits /\ refHead' \in 0..MaxCommit
  BY <1>0, <1>a, <1>h DEF PersistHistory, Column
<1>9. CASE Attach(e)
  <2>1. x.pc # "idle" /\ stored' \in SUBSET Commits /\ refHead' \in 0..MaxCommit
    BY <1>9, <1>a, <1>h DEF Attach
  <2>2. [x EXCEPT !.pc = "mark", !.mark = 70] \in Active
    BY <1>0, <2>1 DEF Active, Execution, Phase
  <2>3. exec' \in [Execs -> Active]
    BY <1>9, <2>1, <2>2, GotoType, RaiseType, BecomeType DEF Attach, Phase, ErrorCode
  <2> QED BY <1>9, <1>a, <2>1, <2>3, TypeFromParts DEF Attach
<1>s. Succeeded(e) \in RunRow
  BY <1>0, AssignSuccessType DEF Succeeded
<1>10. CASE CommitReuse(e)
  <2>1. x.pc # "idle" /\ stored' \in SUBSET Commits /\ refHead' \in 0..MaxCommit
    BY <1>10, <1>a, <1>h DEF CommitReuse
  <2>2. evidence' \in [Commits -> SUBSET Commits]
    BY <1>10, <1>0, <1>a DEF CommitReuse
  <2>3. run' \in [Runs -> RunRow] /\ exec' \in [Execs -> Active]
    BY <1>10, <1>a, <1>s, <2>1, CommitRowType, RaiseType DEF CommitReuse, Phase, ErrorCode
  <2> QED BY <1>10, <1>a, <2>1, <2>2, <2>3, TypeFromParts DEF CommitReuse
<1>11. CASE PublishLoad(e)
  <2>1. x.pc # "idle" /\ UNCHANGED <<readerUnchanged, mirror>>
    BY <1>11 DEF PublishLoad
  <2>2. exec' \in [Execs -> Active]
    BY <1>11, <2>1, GotoType DEF PublishLoad, Phase
  <2> QED BY <1>a, <2>1, <2>2, TypeFromParts DEF readerUnchanged, storeVars, apiVars
<1>12. CASE PublishCommit(e)
  <2>1. x.pc # "idle"
    BY <1>12 DEF PublishCommit
  <2>2. snapshot' \in [Commits -> Runs \cup {NoRun}] /\ evidence' \in [Commits -> SUBSET Commits]
    BY <1>12, <1>0, <1>a, <1>r, <2>1 DEF PublishCommit
  <2>3. run' \in [Runs -> RunRow] /\ exec' \in [Execs -> Active]
    BY <1>12, <1>a, <1>s, <2>1, CommitRowType, RaiseType DEF PublishCommit, Phase, ErrorCode
  <2> QED BY <1>12, <1>a, <2>2, <2>3, TypeFromParts DEF PublishCommit
<1>13. CASE FailLoad(e)
  <2>1. x.pc # "idle" /\ UNCHANGED <<readerUnchanged, mirror>>
    BY <1>13 DEF FailLoad
  <2>2. exec' \in [Execs -> Active]
    BY <1>13, <2>1, GotoType DEF FailLoad, Phase
  <2> QED BY <1>a, <2>1, <2>2, TypeFromParts DEF readerUnchanged, storeVars, apiVars
<1>14. CASE FailCommit(e)
  <2>1. [x.row EXCEPT !.state = "FAILED", !.error = x.error] \in RunRow
    BY <1>0, AssignFailureType
  <2>2. run' \in [Runs -> RunRow] /\ exec' \in [Execs -> Active]
    BY <1>14, <2>1, CommitRowType DEF FailCommit, Phase
  <2> QED BY <1>14, <1>a, <2>2, TypeFromParts DEF FailCommit
<1>15. CASE FakeStart(e)
  <2>1. [x.row EXCEPT !.state = "RUNNING", !.progress = 25] \in RunRow
    <3>1. x.row \in RunRow /\ 25 \in 0..100
      BY <1>0
    <3> QED BY <3>1, AssignProgressType
  <2>2. run' \in [Runs -> RunRow] /\ exec' \in [Execs -> Active]
    BY <1>15, <2>1, CommitRowType DEF FakeStart, Phase
  <2> QED BY <1>15, <1>a, <2>2, TypeFromParts DEF FakeStart
<1>16. CASE FakeLoad(e)
  <2>1. x.pc # "idle" /\ UNCHANGED <<readerUnchanged, mirror>>
    BY <1>16 DEF FakeLoad
  <2>2. exec' \in [Execs -> Active]
    BY <1>16, <2>1, GotoType DEF FakeLoad, Phase
  <2> QED BY <1>a, <2>1, <2>2, TypeFromParts DEF readerUnchanged, storeVars, apiVars
<1>17. CASE FakeFinish(e)
  <2>1. [x.row EXCEPT !.state = "FAILED", !.progress = 100, !.error = "SIMULATED_FAILURE"] \in RunRow
    BY <1>0, AssignSimulatedFailureType
  <2>2. run' \in [Runs -> RunRow] /\ exec' \in [Execs -> Active]
    BY <1>17, <2>1, CommitRowType DEF FakeFinish, Phase
  <2> QED BY <1>17, <1>a, <2>2, TypeFromParts DEF FakeFinish
<1>18. CASE Return(e)
  <2>1. job' \in [Runs -> JobState]
    BY <1>18, ReleaseType DEF Return, JobState
  <2>2. exec' \in [Execs -> Active]
    BY <1>18, NullTypes, BecomeType DEF Return
  <2> QED BY <1>18, <2>1, <2>2 DEF Return, TypeOK, StoreTypeOK, ApiTypeOK, WorkerTypeOK,
                                   storeVars, Active
<1> QED BY <1>1, <1>2, <1>3, <1>4, <1>5, <1>6, <1>7, <1>8, <1>8b, <1>9, <1>10, <1>11, <1>12, <1>13,
           <1>14, <1>15, <1>16, <1>17, <1>18 DEF Execute

\* Every step of the worker process and of GitHub keeps TypeOK.
LEMMA WorkerStepType ==
  ASSUME TypeOK, NEW e \in Execs, Worker(e)
  PROVE  TypeOK'
<1>0. exec[e] \in Active
  BY DEF TypeOK, WorkerTypeOK, Active
<1>1. ASSUME NEW r \in Runs, Deliver(e, r) PROVE TypeOK'
  <2>1. [Idle EXCEPT !.pc = "start", !.run = r, !.owner = TRUE] \in Active
    BY NullTypes DEF Active, Execution, Phase
  <2>2. exec' \in [Execs -> Active]
    BY <1>1, <2>1, BecomeType DEF Deliver
  <2>3. Limit \in 1..MaxTries /\ tries[r] \in Nat
    BY DEF Limit, TypeOK, WorkerTypeOK
  <2>4. tries' \in [Runs -> 0..MaxTries] /\ job' \in [Runs -> JobState]
    BY <1>1, <2>3 DEF Deliver, TypeOK, WorkerTypeOK, ApiTypeOK, JobState
  <2> QED BY <1>1, <2>2, <2>4 DEF Deliver, TypeOK, StoreTypeOK, ApiTypeOK, WorkerTypeOK,
                                  storeVars, Active
<1>2. CASE Execute(e)
  BY <1>2, ExecuteStepType
<1>3. CASE AttemptFails(e)
  <2>1. PICK code \in RaisedIn(exec[e]) : Raise(e, code)
    BY <1>3 DEF AttemptFails
  <2>2. code \in ErrorCode /\ exec[e].pc # "idle"
    BY <2>1 DEF RaisedIn, ErrorCode
  <2>3. exec' \in [Execs -> Active]
    BY <2>1, <2>2, RaiseType
  <2> QED BY <1>3, <2>3 DEF AttemptFails, readerUnchanged, storeVars, apiVars, TypeOK,
                            StoreTypeOK, ApiTypeOK, WorkerTypeOK, Active
<1>4. CASE Escape(e)
  <2>1. [exec[e] EXCEPT !.pc = "exit", !.row = NoRow] \in Active
    BY <1>0, <1>4, NullTypes DEF Escape, Active, Execution, Phase
  <2>2. exec' \in [Execs -> Active]
    BY <1>4, <2>1, BecomeType DEF Escape
  <2> QED BY <1>4, <2>2 DEF Escape, readerUnchanged, storeVars, apiVars, TypeOK,
                            StoreTypeOK, ApiTypeOK, WorkerTypeOK, Active
<1>5. CASE Crash(e)
  <2>1. job' \in [Runs -> JobState] /\ exec' \in [Execs -> Active]
    BY <1>5, ReleaseType, NullTypes, BecomeType DEF Crash, JobState
  <2> QED BY <1>5, <2>1 DEF Crash, storeVars, TypeOK, StoreTypeOK, ApiTypeOK, WorkerTypeOK, Active
<1>6. CASE Detach(e)
  <2>1. [exec[e] EXCEPT !.owner = FALSE] \in Active
    BY <1>0 DEF Active, Execution
  <2>2. job' \in [Runs -> JobState] /\ exec' \in [Execs -> Active]
    BY <1>6, <2>1, ReleaseType, BecomeType DEF Detach, JobState
  <2> QED BY <1>6, <2>2 DEF Detach, storeVars, TypeOK, StoreTypeOK, ApiTypeOK, WorkerTypeOK, Active
<1> QED BY <1>1, <1>2, <1>3, <1>4, <1>5, <1>6 DEF Worker

\* Every variable keeps its type in every behaviour of the pipeline.
THEOREM TypeCorrect == Spec => []TypeOK
<1>1. Init => TypeOK
  <2> SUFFICES ASSUME Init PROVE TypeOK
    OBVIOUS
  <2>1. StoreTypeOK
    BY NullTypes DEF Init, StoreInit, StoreTypeOK
  <2>2. ApiTypeOK
    BY DEF Init, ApiInit, ApiTypeOK, Request, JobState
  <2>3. WorkerTypeOK
    BY NullTypes DEF Init, WorkerInit, WorkerTypeOK, Commits, Active
  <2> QED BY <2>1, <2>2, <2>3 DEF TypeOK
<1>2. TypeOK /\ [Next]_vars => TypeOK'
  <2> SUFFICES ASSUME TypeOK, [Next]_vars PROVE TypeOK'
    OBVIOUS
  <2>1. ASSUME NEW q \in Requests, Api(q) PROVE TypeOK'
    BY <2>1, ApiStepType
  <2>2. ASSUME NEW e \in Execs, Worker(e) PROVE TypeOK'
    BY <2>2, WorkerStepType
  <2>3. ASSUME NEW r \in Runs, GiveUp(r) PROVE TypeOK'
    BY <2>3 DEF GiveUp, TypeOK, StoreTypeOK, ApiTypeOK, WorkerTypeOK, storeVars, workerVars, JobState
  <2>4. CASE Push
    BY <2>4 DEF Push, TypeOK, StoreTypeOK, ApiTypeOK, WorkerTypeOK, storeVars, apiVars, Commits
  <2>5. CASE UNCHANGED vars
    BY <2>5 DEF vars, storeVars, apiVars, workerVars, TypeOK, StoreTypeOK, ApiTypeOK, WorkerTypeOK
  <2> QED BY <2>1, <2>2, <2>3, <2>4, <2>5 DEF Next
<1> QED BY <1>1, <1>2, PTL DEF Spec

-----------------------------------------------------------------------------
(* What only grows                                                          *)

\* The rows of the pipeline appear and are filled in; they never disappear or change owner.
Grows ==
  /\ \A c \in Commits : Published(c) => Published(c)'
  /\ stored \subseteq stored'
  /\ \A r \in Runs : /\ run[r].state # "ABSENT" => run'[r].state # "ABSENT"
                     /\ run[r].sha # 0 => run'[r].sha # 0
  /\ mirror # 0 => mirror' # 0

\* No run appears or disappears and none changes the failure it was asked to simulate.
SameRuns ==
  \A r \in Runs : /\ run'[r].state = "ABSENT" <=> run[r].state = "ABSENT"
                  /\ run'[r].simulate = run[r].simulate

\* The parts of PipelineInv that speak of executions, requests and jobs.
ExecutionsInv == \A e \in Execs : ExecutionInv(exec[e])
RequestsInv == \A q \in Requests : RequestInv(q)
JobsInv == \A r \in Runs : job[r] # "none" => run[r].state # "ABSENT"

\* A non-empty history has commits to cite.
LEMMA HistoryNonEmpty ==
  ASSUME NEW h \in 0..MaxCommit, h # 0
  PROVE  History(h) # {}
<1>1. h \in History(h)
  BY DEF History
<1> QED BY <1>1

\* An execution that a step leaves alone keeps its invariant if the step only lets rows grow.
LEMMA ExecutionInvFrame ==
  ASSUME TypeOK, Grows, NEW e \in Execs, exec'[e] = exec[e], ExecutionInv(exec[e])
  PROVE  ExecutionInv(exec[e])'
<1> DEFINE x == exec[e]
<1>1. x \in Active /\ x.src \in 0..MaxCommit
  BY ActiveFields DEF TypeOK, WorkerTypeOK, Active
<1>2. x.pc # "idle" => x.run \in Runs
  BY <1>1 DEF Active
<1>3. (Sourced(exec[e])' <=> Sourced(x)) /\ (Mined(exec[e])' <=> Mined(x))
      /\ (Recorded(exec[e])' <=> Recorded(x))
  BY DEF Sourced, Mined, Recorded
<1>4. x.pc = "reuse" => Sourced(x)
  BY DEF Sourced
<1> HIDE DEF x
<1>5. exec'[e] = x /\ exec[e] = x
  BY DEF x
<1>6. x.src # 0 => x.src \in Commits
  BY <1>1 DEF Commits
<1> QED BY <1>2, <1>3, <1>4, <1>5, <1>6 DEF ExecutionInv, Grows, History

\* A step of one execution keeps the invariant of all if it establishes its own.
LEMMA ExecutionsFrame ==
  ASSUME TypeOK, Grows, ExecutionsInv, NEW e \in Execs, NEW x, Become(e, x),
         ExecutionInv(exec[e])'
  PROVE  ExecutionsInv'
<1>1. \A f \in Execs \ {e} : exec'[f] = exec[f]
  BY DEF Become, TypeOK, WorkerTypeOK
<1> QED BY <1>1, ExecutionInvFrame DEF ExecutionsInv

\* A step that keeps the records and the set of runs keeps what records and requests say.
LEMMA RecordsFrame ==
  ASSUME TypeOK, RecordInv, RequestsInv, SameRuns, UNCHANGED <<idem, req>>
  PROVE  RecordInv' /\ RequestsInv'
<1>1. RecordInv'
  BY DEF RecordInv, SameRuns
<1>2. RequestsInv'
  BY DEF RequestsInv, RequestInv
<1> QED BY <1>1, <1>2

\* What the tables promise survives a step that leaves the tables alone.
LEMMA RowsFrame ==
  ASSUME TypeOK, PipelineInv, UNCHANGED storeVars
  PROVE  SucceededRunIsPublished' /\ CitedCommitsAreStored' /\ SameRuns
BY DEF PipelineInv, storeVars, SucceededRunIsPublished, CitedCommitsAreStored, Published, SameRuns

-----------------------------------------------------------------------------
(* The commit of a run row                                                  *)

\* Whatever was committed since the row was loaded, the flush leaves the run in existence and
\* with a snapshot if it had one; a commit that assigns no snapshot and no success adds none.
LEMMA CommitRowGrows ==
  ASSUME TypeOK, NEW e \in Execs, exec[e].run \in Runs, NEW assigned \in RunRow, NEW pc,
         run[exec[e].run].state # "ABSENT", assigned.state # "ABSENT",
         assigned.sha = exec[e].row.sha \/ assigned.sha # 0,
         CommitRow(e, assigned, pc)
  PROVE  /\ SameRuns
         /\ \A r \in Runs : run[r].sha # 0 => run'[r].sha # 0
<1> DEFINE r0 == exec[e].run
<1>1. run' = [run EXCEPT ![r0] = Flush(run[r0], exec[e].row, assigned)]
  BY DEF CommitRow
<1>2. \A r \in Runs : run'[r] = IF r = r0 THEN Flush(run[r0], exec[e].row, assigned) ELSE run[r]
  BY <1>1 DEF TypeOK, StoreTypeOK
<1> QED BY <1>2 DEF Flush, Column, SameRuns

\* A commit that assigns neither success nor a snapshot makes no unpublished run succeeded.
LEMMA CommitRowKeeps ==
  ASSUME TypeOK, SucceededRunIsPublished, NEW e \in Execs, exec[e].run \in Runs,
         NEW assigned \in RunRow, NEW pc,
         assigned.sha = exec[e].row.sha, assigned.state # "SUCCEEDED",
         CommitRow(e, assigned, pc), UNCHANGED snapshot
  PROVE  SucceededRunIsPublished'
<1> DEFINE r0 == exec[e].run
<1>1. \A r \in Runs : run'[r] = IF r = r0 THEN Flush(run[r0], exec[e].row, assigned) ELSE run[r]
  BY DEF CommitRow, TypeOK, StoreTypeOK
<1>2. \A r \in Runs : /\ run'[r].sha = run[r].sha
                      /\ run'[r].state = "SUCCEEDED" => run[r].state = "SUCCEEDED"
  BY <1>1 DEF Flush, Column
<1> QED BY <1>2 DEF SucceededRunIsPublished, Published

\* A successful commit names the commit it published or found published; if a stale load hides
\* the column, the committed value is a published commit already.
LEMMA CommitRowSucceeds ==
  ASSUME TypeOK, SucceededRunIsPublished, NEW e \in Execs, exec[e].run \in Runs,
         exec[e].row.sha # 0 => run[exec[e].run].sha # 0, exec[e].src # 0,
         exec[e].src \in Commits, NEW pc, CommitRow(e, Succeeded(e), pc),
         exec[e].row \in RunRow,
         snapshot'[exec[e].src] # NoRun, \A c \in Commits : Published(c) => Published(c)'
  PROVE  SucceededRunIsPublished'
<1> DEFINE r0 == exec[e].run
           a == Succeeded(e)
           row == exec[e].row
           src == exec[e].src
<1>0. a.state = "SUCCEEDED" /\ a.sha = src
  BY DEF Succeeded, RunRow
<1>1. \A r \in Runs : run'[r] = IF r = r0 THEN Flush(run[r0], row, a) ELSE run[r]
  BY DEF CommitRow, TypeOK, StoreTypeOK
<1>2. run'[r0].sha = IF src = row.sha THEN run[r0].sha ELSE src
  BY <1>0, <1>1 DEF Flush, Column
<1>3. \A r \in Runs : run[r].sha \in 0..MaxCommit
  BY DEF TypeOK, StoreTypeOK, RunRow
<1>4. run'[r0].sha # 0 /\ snapshot'[run'[r0].sha] # NoRun
  BY <1>2, <1>3 DEF SucceededRunIsPublished, Commits, Published
<1>5. \A r \in Runs \ {r0} : run'[r] = run[r]
  BY <1>1
<1>6. \A r \in Runs \ {r0} : run[r].sha # 0 => snapshot'[run[r].sha] # NoRun
  BY <1>3 DEF SucceededRunIsPublished, Commits, Published
<1> QED BY <1>4, <1>5, <1>6 DEF SucceededRunIsPublished, Published

-----------------------------------------------------------------------------
(* The steps of an execution                                                *)

\* What a step of execution e owes, given that it lets rows only grow.
LEMMA StepInv ==
  ASSUME TypeOK, PipelineInv, Grows, SameRuns, UNCHANGED <<idem, req>>,
         JobsInv', SucceededRunIsPublished', CitedCommitsAreStored',
         NEW e \in Execs, NEW x, Become(e, x), ExecutionInv(exec[e])'
  PROVE  PipelineInv'
<1>1. ExecutionsInv'
  BY ExecutionsFrame DEF PipelineInv, ExecutionsInv
<1>2. RecordInv' /\ RequestsInv'
  BY RecordsFrame DEF PipelineInv, RequestsInv
<1> QED BY <1>1, <1>2 DEF PipelineInv, ExecutionsInv, RequestsInv, JobsInv

\* A step that reads, or changes the mirror only.
LEMMA ReaderStepInv ==
  ASSUME TypeOK, PipelineInv, UNCHANGED <<storeVars, req, job>>, mirror # 0 => mirror' # 0,
         NEW e \in Execs, NEW x, Become(e, x), ExecutionInv(exec[e])'
  PROVE  PipelineInv'
<1>1. SucceededRunIsPublished' /\ CitedCommitsAreStored' /\ SameRuns
  BY RowsFrame
<1>2. Grows
  BY DEF Grows, storeVars, Published
<1>3. JobsInv'
  BY DEF JobsInv, PipelineInv, storeVars
<1> QED BY <1>1, <1>2, <1>3, StepInv DEF storeVars

\* The commit of an attempt that neither publishes nor succeeds.
LEMMA RowStepInv ==
  ASSUME TypeOK, PipelineInv, NEW e \in Execs, exec[e].pc # "idle",
         NEW assigned \in RunRow, NEW pc, CommitRow(e, assigned, pc),
         assigned.sha = exec[e].row.sha, assigned.state \in {"RUNNING", "FAILED"},
         UNCHANGED <<idem, snapshot, evidence, stored, refHead, apiVars, mirror>>,
         ExecutionInv(exec[e])'
  PROVE  PipelineInv'
<1>1. exec[e].run \in Runs /\ run[exec[e].run].state # "ABSENT"
  BY DEF TypeOK, WorkerTypeOK, PipelineInv, ExecutionInv
<1>2. SameRuns /\ (\A r \in Runs : run[r].sha # 0 => run'[r].sha # 0)
  BY <1>1, CommitRowGrows
<1>3. Grows
  BY <1>2 DEF Grows, SameRuns, Published
<1>4. SucceededRunIsPublished'
  BY <1>1, CommitRowKeeps DEF PipelineInv
<1>5. CitedCommitsAreStored' /\ JobsInv'
  BY <1>2 DEF PipelineInv, CitedCommitsAreStored, Published, JobsInv, SameRuns, apiVars
<1>6. Become(e, [exec[e] EXCEPT !.pc = pc, !.row = NoRow])
  BY DEF CommitRow
<1> QED BY <1>2, <1>3, <1>4, <1>5, <1>6, StepInv DEF apiVars

\* What is known of execution e before its step.
LEMMA ExecutionFacts ==
  ASSUME TypeOK, PipelineInv, NEW e \in Execs
  PROVE  /\ exec[e] \in Active /\ ExecutionInv(exec[e])
         /\ exec[e].pc # "idle" => exec[e].run \in Runs /\ run[exec[e].run] \in RunRow
         /\ \A x : Become(e, x) => exec'[e] = x
<1>1. exec[e] \in Active /\ ExecutionInv(exec[e])
  BY DEF TypeOK, WorkerTypeOK, PipelineInv, Active
<1>2. exec[e].pc # "idle" => exec[e].run \in Runs /\ run[exec[e].run] \in RunRow
  BY <1>1 DEF TypeOK, StoreTypeOK, Active
<1>3. \A x : Become(e, x) => exec'[e] = x
  BY DEF Become, TypeOK, WorkerTypeOK
<1> QED BY <1>1, <1>2, <1>3

\* A failed attempt forgets its row and claims nothing of what it read.
LEMMA RaiseInv ==
  ASSUME TypeOK, PipelineInv, SameRuns, NEW e \in Execs, exec[e].pc # "idle", NEW code,
         Raise(e, code)
  PROVE  ExecutionInv(exec[e])'
<1>1. exec[e] \in Execution /\ exec[e].run \in Runs /\ run[exec[e].run].state # "ABSENT"
  BY ExecutionFacts DEF ExecutionInv, Active
<1>2. exec'[e] = [exec[e] EXCEPT !.pc = "fail", !.row = NoRow, !.error = code]
  BY ExecutionFacts DEF Raise
<1>3. exec'[e].pc = "fail" /\ exec'[e].run = exec[e].run /\ exec'[e].row.sha = 0
  BY <1>1, <1>2 DEF Execution, NoRow
<1> QED BY <1>1, <1>3 DEF ExecutionInv, Sourced, Mined, Recorded, SameRuns

\* The effect of a step that moves execution e to another phase and may load or drop its row.
Moves(e, pc) ==
  /\ exec'[e].pc = pc /\ exec'[e].run = exec[e].run /\ exec'[e].mark = exec[e].mark
  /\ exec'[e].src = exec[e].src /\ exec'[e].hist = exec[e].hist
  /\ exec'[e].row.sha # 0 => exec[e].row.sha # 0 \/ run[exec[e].run].sha # 0

\* What moving on to another phase changes in an execution, and what it leaves.
LEMMA MoveFields ==
  ASSUME TypeOK, PipelineInv, NEW e \in Execs, NEW pc,
         Goto(e, pc) \/ Load(e, pc) \/ \E assigned : CommitRow(e, assigned, pc)
  PROVE  Moves(e, pc)
<1>0. exec[e] \in Execution
  BY ExecutionFacts DEF Active
<1>1. CASE Goto(e, pc)
  <2>1. exec'[e] = [exec[e] EXCEPT !.pc = pc]
    BY <1>1, ExecutionFacts DEF Goto
  <2> QED BY <1>0, <2>1 DEF Execution, Moves
<1>2. CASE Load(e, pc)
  <2>1. exec'[e] = [exec[e] EXCEPT !.pc = pc, !.row = run[exec[e].run]]
    BY <1>2, ExecutionFacts DEF Load, Row
  <2> QED BY <1>0, <2>1 DEF Execution, Moves
<1>3. CASE \E assigned : CommitRow(e, assigned, pc)
  <2>1. exec'[e] = [exec[e] EXCEPT !.pc = pc, !.row = NoRow]
    BY <1>3, ExecutionFacts DEF CommitRow
  <2>2. NoRow.sha = 0
    BY DEF NoRow
  <2> QED BY <1>0, <2>1, <2>2 DEF Execution, Moves
<1> QED BY <1>1, <1>2, <1>3

\* A move owes only what its new phase claims.
LEMMA MoveInv ==
  ASSUME TypeOK, PipelineInv, Grows, NEW e \in Execs, NEW pc, exec[e].pc # "idle", Moves(e, pc),
         pc \in {"source", "refs", "history"} => mirror' # 0,
         Sourced(exec[e])' => exec[e].src # 0,
         Mined(exec[e])' => exec[e].hist # 0,
         Recorded(exec[e])' => History(exec[e].hist) \subseteq stored',
         pc = "reuse" => snapshot'[exec[e].src] # NoRun
  PROVE  ExecutionInv(exec[e])'
<1>1. exec[e].run \in Runs /\ run[exec[e].run].state # "ABSENT" /\ ExecutionInv(exec[e])
  BY ExecutionFacts DEF ExecutionInv
<1>2. run'[exec[e].run].state # "ABSENT"
  BY <1>1 DEF Grows
<1>3. exec'[e].row.sha # 0 => run'[exec[e].run].sha # 0
  BY <1>1 DEF Moves, ExecutionInv, Grows
<1> QED BY <1>1, <1>2, <1>3 DEF Moves, ExecutionInv, History, Published

\* A step that leaves the tables alone and loses no mirror takes nothing away.
LEMMA ReaderGrows ==
  ASSUME UNCHANGED storeVars, mirror # 0 => mirror' # 0
  PROVE  Grows /\ SameRuns
BY DEF Grows, SameRuns, storeVars, Published

\* An execution that ends claims nothing; its job, if it has one still, belongs to a run.
LEMMA ReleaseInv ==
  ASSUME TypeOK, PipelineInv, NEW e \in Execs, exec[e].pc # "idle",
         NEW status, Release(e, status), Become(e, Idle), UNCHANGED <<storeVars, req, mirror>>
  PROVE  PipelineInv'
<1>1. run[exec[e].run].state # "ABSENT"
  BY ExecutionFacts DEF ExecutionInv
<1>2. JobsInv'
  BY <1>1 DEF Release, JobsInv, PipelineInv, storeVars, TypeOK, ApiTypeOK
<1>3. SucceededRunIsPublished' /\ CitedCommitsAreStored'
  BY RowsFrame
<1>4. Grows /\ SameRuns
  BY ReaderGrows
<1>5. exec'[e] = Idle
  BY ExecutionFacts
<1>6. ExecutionInv(exec[e])'
  BY <1>5 DEF ExecutionInv, Idle, NoRow, Sourced, Mined, Recorded
<1> QED BY <1>2, <1>3, <1>4, <1>6, StepInv DEF storeVars

\* Every step of an analysis thread keeps PipelineInv.
LEMMA ExecuteStepInv ==
  ASSUME TypeOK, PipelineInv, NEW e \in Execs, Execute(e)
  PROVE  PipelineInv'
<1> DEFINE x == exec[e]
<1>0. /\ x \in Active /\ ExecutionInv(x)
      /\ x.pc # "idle" => x.run \in Runs /\ run[x.run] \in RunRow
      /\ \A y : Become(e, y) => exec'[e] = y
  BY ExecutionFacts
<1>a. /\ x \in Execution /\ x.row \in RunRow /\ x.error \in ErrorCode /\ x.mark \in {0, 10, 40, 70}
      /\ x.src \in 0..MaxCommit /\ x.hist \in 0..MaxCommit
  BY <1>0, ActiveFields DEF Active
<1>b. x.pc # "idle" => run[x.run].state # "ABSENT"
  BY <1>0 DEF ExecutionInv
<1>i. SucceededRunIsPublished /\ CitedCommitsAreStored /\ JobsInv
  BY DEF PipelineInv, JobsInv
<1>m. ASSUME NEW pc, UNCHANGED <<readerUnchanged, mirror>>, x.pc # "idle",
             Goto(e, pc) \/ Load(e, pc), ExecutionInv(exec[e])'
      PROVE  PipelineInv'
  BY <1>m, ReaderStepInv DEF Goto, Load, readerUnchanged, apiVars
<1>1. CASE Start(e)
  <2>1. x.pc = "start" /\ UNCHANGED <<readerUnchanged, mirror>> /\ Grows
    BY <1>1, ReaderGrows DEF Start, readerUnchanged
  <2>2. ASSUME NEW pc \in {"exit", "fakeStart"}, Goto(e, pc) \/ Load(e, pc)
        PROVE  PipelineInv'
    <3>1. Moves(e, pc)
      BY <2>2, MoveFields
    <3>2. ExecutionInv(exec[e])'
      BY <2>1, <2>2, <3>1, MoveInv DEF Moves, Sourced, Mined, Recorded
    <3> QED BY <1>m, <2>1, <2>2, <3>2
  <2>3. CASE Become(e, [x EXCEPT !.pc = "mark", !.mark = 10])
    <3>1. exec'[e] = [x EXCEPT !.pc = "mark", !.mark = 10]
      BY <1>0, <2>3
    <3>2. /\ exec'[e].pc = "mark" /\ exec'[e].mark = 10 /\ exec'[e].run = x.run
          /\ exec'[e].row = x.row
      BY <1>a, <3>1 DEF Execution
    <3>3. ExecutionInv(exec[e])'
      BY <1>0, <1>b, <2>1, <3>2 DEF ExecutionInv, Sourced, Mined, Recorded, readerUnchanged, storeVars
    <3> QED BY <2>1, <2>3, <3>3, ReaderStepInv DEF apiVars, readerUnchanged
  <2> QED BY <1>1, <2>2, <2>3 DEF Start
<1>2. CASE SetProgressLoad(e)
  <2>1. x.pc = "mark" /\ UNCHANGED <<readerUnchanged, mirror>> /\ Grows
    BY <1>2, ReaderGrows DEF SetProgressLoad, readerUnchanged
  <2>2. PICK pc \in {AfterMark(x.mark), "markCommit"} : Goto(e, pc) \/ Load(e, pc)
    BY <1>2 DEF SetProgressLoad
  <2>3. Moves(e, pc)
    BY <2>2, MoveFields
  <2>4. ExecutionInv(exec[e])'
    <3>1. pc \in {"fetch", "rows", "load", "markCommit"}
      BY DEF AfterMark
    <3>2. /\ Sourced(exec[e])' => Sourced(x)
          /\ Mined(exec[e])' => Mined(x)
          /\ Recorded(exec[e])' => Recorded(x)
      BY <2>1, <2>3, <3>1 DEF Moves, Sourced, Mined, Recorded, AfterMark
    <3> QED BY <1>0, <2>1, <2>3, <3>1, <3>2, MoveInv DEF ExecutionInv, Grows
  <2> QED BY <1>m, <2>1, <2>2, <2>4
<1>c. ASSUME NEW assigned \in RunRow, NEW pc \in {"fetch", "rows", "load", "exit", "fakeLoad"},
             CommitRow(e, assigned, pc), x.pc # "idle",
             assigned.sha = x.row.sha, assigned.state \in {"RUNNING", "FAILED"},
             UNCHANGED <<idem, snapshot, evidence, stored, refHead, apiVars, mirror>>,
             pc \in {"fetch", "rows", "load"} => x.pc = "markCommit" /\ pc = AfterMark(x.mark)
      PROVE  PipelineInv'
  <2>1. SameRuns /\ \A r \in Runs : run[r].sha # 0 => run'[r].sha # 0
    BY <1>0, <1>b, <1>c, CommitRowGrows
  <2>2. Grows
    BY <1>c, <2>1 DEF Grows, SameRuns, Published
  <2>3. Moves(e, pc)
    BY <1>c, MoveFields
  <2>4. /\ Sourced(exec[e])' => Sourced(x)
        /\ Mined(exec[e])' => Mined(x)
        /\ Recorded(exec[e])' => Recorded(x)
    BY <1>c, <2>3 DEF Moves, Sourced, Mined, Recorded, AfterMark
  <2>5. ExecutionInv(exec[e])'
    BY <1>0, <1>c, <2>2, <2>3, <2>4, MoveInv DEF ExecutionInv
  <2> QED BY <1>c, <2>5, RowStepInv
<1>3. CASE SetProgressCommit(e)
  <2> DEFINE a == [x.row EXCEPT !.state = "RUNNING", !.progress = x.mark]
  <2>1. a \in RunRow
    <3>1. x.row \in RunRow /\ x.mark \in 0..100
      BY <1>a
    <3> QED BY <3>1, AssignProgressType
  <2>2. a.sha = x.row.sha /\ a.state = "RUNNING"
    BY <1>a DEF RunRow
  <2>3. AfterMark(x.mark) \in {"fetch", "rows", "load"}
    BY DEF AfterMark
  <2> QED BY <1>3, <1>c, <2>1, <2>2, <2>3 DEF SetProgressCommit
<1>4. CASE SyncMirror(e)
  <2>1. /\ x.pc = "fetch" /\ mirror' # 0 /\ Goto(e, "source") /\ UNCHANGED <<storeVars, req, job>>
    BY <1>4 DEF SyncMirror, readerUnchanged, apiVars, TypeOK, WorkerTypeOK, Commits
  <2>2. Grows /\ Moves(e, "source")
    BY <2>1, ReaderGrows, MoveFields
  <2>3. ExecutionInv(exec[e])'
    BY <2>1, <2>2, MoveInv DEF Moves, Sourced, Mined, Recorded
  <2> QED BY <2>1, <2>3, ReaderStepInv DEF Goto
\* A step that reads the mirror or the tables into fields of the attempt.
<1>d. ASSUME NEW y, Become(e, y), UNCHANGED <<readerUnchanged, mirror>>, ExecutionInv(exec[e])'
      PROVE  PipelineInv'
  BY <1>d, ReaderStepInv DEF readerUnchanged, apiVars
<1>5. CASE ReadSourceSnapshot(e)
  <2>1. /\ exec'[e] = [x EXCEPT !.pc = "refs", !.src = mirror]
        /\ x.pc = "source" /\ UNCHANGED <<readerUnchanged, mirror>>
    BY <1>0, <1>5 DEF ReadSourceSnapshot
  <2>2. /\ exec'[e].pc = "refs" /\ exec'[e].src = mirror /\ exec'[e].run = x.run
        /\ exec'[e].row = x.row
    BY <1>a, <2>1 DEF Execution
  <2>3. ExecutionInv(exec[e])'
    BY <1>0, <1>b, <2>1, <2>2 DEF ExecutionInv, Sourced, Mined, Recorded, readerUnchanged, storeVars
  <2> QED BY <1>5, <1>d, <2>3 DEF ReadSourceSnapshot
<1>6. CASE ListBranchRefs(e)
  <2>1. /\ exec'[e] = [x EXCEPT !.pc = "history", !.ref = mirror]
        /\ x.pc = "refs" /\ UNCHANGED <<readerUnchanged, mirror>>
    BY <1>0, <1>6 DEF ListBranchRefs
  <2>2. /\ exec'[e].pc = "history" /\ exec'[e].src = x.src /\ exec'[e].run = x.run
        /\ exec'[e].row = x.row
    BY <1>a, <2>1 DEF Execution
  <2>3. ExecutionInv(exec[e])'
    BY <1>0, <1>b, <2>1, <2>2 DEF ExecutionInv, Sourced, Mined, Recorded, readerUnchanged, storeVars
  <2> QED BY <1>6, <1>d, <2>3 DEF ListBranchRefs
<1>7. CASE ReadCommitHistory(e)
  <2>1. /\ exec'[e] = [x EXCEPT !.pc = "mark", !.mark = 40, !.hist = mirror]
        /\ x.pc = "history" /\ UNCHANGED <<readerUnchanged, mirror>>
    BY <1>0, <1>7 DEF ReadCommitHistory
  <2>2. /\ exec'[e].pc = "mark" /\ exec'[e].mark = 40 /\ exec'[e].src = x.src
        /\ exec'[e].hist = mirror /\ exec'[e].run = x.run /\ exec'[e].row = x.row
    BY <1>a, <2>1 DEF Execution
  <2>3. ExecutionInv(exec[e])'
    BY <1>0, <1>b, <2>1, <2>2 DEF ExecutionInv, Sourced, Mined, Recorded, readerUnchanged, storeVars
  <2> QED BY <1>7, <1>d, <2>3 DEF ReadCommitHistory
<1>8. CASE ReadRefRows(e)
  <2>1. /\ exec'[e] = [x EXCEPT !.pc = "commits", !.knownRef = refHead]
        /\ x.pc = "rows" /\ UNCHANGED <<readerUnchanged, mirror>>
    BY <1>0, <1>8 DEF ReadRefRows
  <2>2. /\ exec'[e].pc = "commits" /\ exec'[e].src = x.src /\ exec'[e].hist = x.hist
        /\ exec'[e].run = x.run /\ exec'[e].row = x.row
    BY <1>a, <2>1 DEF Execution
  <2>3. ExecutionInv(exec[e])'
    BY <1>0, <1>b, <2>1, <2>2 DEF ExecutionInv, Sourced, Mined, Recorded, readerUnchanged, storeVars
  <2> QED BY <1>8, <1>d, <2>3 DEF ReadRefRows
<1>8b. CASE ReadCommitRows(e)
  <2>1. /\ exec'[e] = [x EXCEPT !.pc = "attach", !.known = stored]
        /\ x.pc = "commits" /\ UNCHANGED <<readerUnchanged, mirror>>
    BY <1>0, <1>8b DEF ReadCommitRows
  <2>2. /\ exec'[e].pc = "attach" /\ exec'[e].src = x.src /\ exec'[e].hist = x.hist
        /\ exec'[e].run = x.run /\ exec'[e].row = x.row
    BY <1>a, <2>1 DEF Execution
  <2>3. ExecutionInv(exec[e])'
    BY <1>0, <1>b, <2>1, <2>2 DEF ExecutionInv, Sourced, Mined, Recorded, readerUnchanged, storeVars
  <2> QED BY <1>8b, <1>d, <2>3 DEF ReadCommitRows
<1>e. x.src # 0 => x.src \in Commits
  BY <1>a DEF Commits
<1>9. CASE Attach(e)
  <2>0. /\ x.pc = "attach" /\ x.src # 0 /\ x.hist # 0
        /\ UNCHANGED <<run, idem, snapshot, evidence, apiVars, mirror>>
    BY <1>0, <1>9 DEF Attach, ExecutionInv, Sourced, Mined
  <2>s. SameRuns /\ SucceededRunIsPublished' /\ JobsInv'
    BY <1>i, <2>0 DEF SameRuns, SucceededRunIsPublished, Published, JobsInv, apiVars
  <2>1. CASE Published(x.src) /\ Load(e, "reuse") /\ UNCHANGED <<stored, refHead>>
    <3>1. Grows /\ Moves(e, "reuse")
      BY <2>0, <2>1, ReaderGrows, MoveFields DEF storeVars
    <3>2. ExecutionInv(exec[e])'
      BY <2>0, <2>1, <3>1, MoveInv DEF Moves, Sourced, Mined, Recorded, Published
    <3> QED BY <2>0, <2>1, <3>2, ReaderStepInv DEF Load, storeVars, apiVars
  <2>2. CASE Raise(e, "ANALYSIS_FAILED") /\ UNCHANGED <<stored, refHead>>
    <3>1. ExecutionInv(exec[e])'
      BY <2>0, <2>2, <2>s, RaiseInv
    <3> QED BY <2>0, <2>2, <3>1, ReaderStepInv DEF Raise, storeVars, apiVars
  <2>3. CASE PersistHistory(e) /\ Become(e, [x EXCEPT !.pc = "mark", !.mark = 70])
    <3>1. stored \subseteq stored' /\ History(x.hist) \subseteq stored'
      BY <2>3 DEF PersistHistory, Cited
    <3>2. Grows /\ CitedCommitsAreStored'
      BY <1>i, <2>0, <3>1 DEF Grows, Published, CitedCommitsAreStored
    <3>3. exec'[e] = [x EXCEPT !.pc = "mark", !.mark = 70]
      BY <1>0, <2>3
    <3>4. /\ exec'[e].pc = "mark" /\ exec'[e].mark = 70 /\ exec'[e].src = x.src
          /\ exec'[e].hist = x.hist /\ exec'[e].run = x.run /\ exec'[e].row = x.row
      BY <1>a, <3>3 DEF Execution
    <3>5. ExecutionInv(exec[e])'
      BY <1>0, <1>b, <2>0, <3>1, <3>4 DEF ExecutionInv, Sourced, Mined, Recorded, History
    <3> QED BY <2>0, <2>3, <2>s, <3>2, <3>5, StepInv DEF apiVars
  <2> QED BY <1>9, <2>1, <2>2, <2>3 DEF Attach
\* The commits that end in success.
<1>p. ASSUME CommitRow(e, Succeeded(e), "exit"), x.pc # "idle", x.src \in Commits, x.src # 0,
             snapshot'[x.src] # NoRun, \A c \in Commits : Published(c) => Published(c)',
             stored \subseteq stored', UNCHANGED <<idem, apiVars, mirror>>, CitedCommitsAreStored'
      PROVE  PipelineInv'
  <2>1. Succeeded(e) \in RunRow
    BY <1>a, AssignSuccessType DEF Succeeded
  <2>2. Succeeded(e).sha = x.src /\ Succeeded(e).state = "SUCCEEDED"
    BY <1>a DEF Succeeded, RunRow
  <2>3. SameRuns /\ \A r \in Runs : run[r].sha # 0 => run'[r].sha # 0
    BY <1>0, <1>b, <1>p, <2>1, <2>2, CommitRowGrows
  <2>4. Grows
    BY <1>p, <2>3 DEF Grows, SameRuns
  <2>5. SucceededRunIsPublished'
    BY <1>0, <1>a, <1>i, <1>p, CommitRowSucceeds DEF ExecutionInv
  <2>6. Moves(e, "exit")
    BY <1>p, MoveFields
  <2>7. ExecutionInv(exec[e])'
    BY <1>p, <2>4, <2>6, MoveInv DEF Moves, Sourced, Mined, Recorded
  <2>8. JobsInv'
    BY <1>i, <1>p, <2>3 DEF JobsInv, SameRuns, apiVars
  <2> QED BY <1>p, <2>3, <2>4, <2>5, <2>7, <2>8, StepInv DEF CommitRow, apiVars
<1>f. ASSUME Raise(e, "ANALYSIS_FAILED"), x.pc # "idle", UNCHANGED <<storeVars, apiVars, mirror>>
      PROVE  PipelineInv'
  <2>1. SameRuns
    BY <1>f, ReaderGrows
  <2>2. ExecutionInv(exec[e])'
    BY <1>f, <2>1, RaiseInv
  <2> QED BY <1>f, <2>2, ReaderStepInv DEF Raise, apiVars
<1>10. CASE CommitReuse(e)
  <2>0. /\ x.pc = "reuse" /\ x.src \in Commits /\ x.src # 0 /\ Published(x.src)
        /\ UNCHANGED <<idem, snapshot, apiVars, mirror>>
    BY <1>0, <1>e, <1>10 DEF CommitReuse, ExecutionInv, Sourced
  <2>1. CASE PersistHistory(e) /\ CommitRow(e, Succeeded(e), "exit")
             /\ evidence' = [evidence EXCEPT ![x.src] = IF EvolutionPersisted(x.src) THEN @ ELSE @ \cup Cited(e)]
    <3>1. stored \subseteq stored' /\ Cited(e) \subseteq stored'
      BY <2>1 DEF PersistHistory
    <3>2. \A c \in Commits : /\ evidence[c] \subseteq evidence'[c]
                             /\ evidence'[c] \subseteq evidence[c] \cup Cited(e)
      BY <2>1 DEF TypeOK, StoreTypeOK
    <3>3. CitedCommitsAreStored'
      BY <1>i, <2>0, <3>1, <3>2 DEF CitedCommitsAreStored, Published
    <3> QED BY <1>p, <2>0, <2>1, <3>1, <3>3 DEF Published
  <2>2. CASE Raise(e, "ANALYSIS_FAILED") /\ UNCHANGED <<run, evidence, stored, refHead>>
    BY <1>f, <2>0, <2>2 DEF storeVars
  <2> QED BY <1>10, <2>1, <2>2 DEF CommitReuse
<1>11. CASE PublishLoad(e)
  <2>1. /\ x.pc = "load" /\ Load(e, "publish") /\ UNCHANGED <<readerUnchanged, mirror>>
    BY <1>11 DEF PublishLoad
  <2>2. Grows /\ Moves(e, "publish")
    BY <2>1, ReaderGrows, MoveFields DEF readerUnchanged
  <2>3. ExecutionInv(exec[e])'
    BY <1>0, <2>1, <2>2, MoveInv DEF ExecutionInv, Grows, Sourced, Mined, Recorded
  <2> QED BY <1>m, <2>1, <2>3
<1>12. CASE PublishCommit(e)
  <2>0. /\ x.pc = "publish" /\ x.src \in Commits /\ x.src # 0 /\ x.hist # 0
        /\ Cited(e) \subseteq stored /\ UNCHANGED <<idem, stored, refHead, apiVars, mirror>>
    BY <1>0, <1>e, <1>12 DEF PublishCommit, ExecutionInv, Sourced, Mined, Recorded, Cited
  <2>1. CASE /\ snapshot' = [snapshot EXCEPT ![x.src] = x.run]
             /\ evidence' = [evidence EXCEPT ![x.src] = Cited(e)]
             /\ CommitRow(e, Succeeded(e), "exit")
    <3>1. x.run # NoRun
      BY <1>0, <2>0
    <3>2. snapshot'[x.src] # NoRun /\ \A c \in Commits : Published(c) => Published(c)'
      BY <2>0, <2>1, <3>1 DEF Published, TypeOK, StoreTypeOK
    <3>3. Cited(e) # {}
      BY <1>a, <2>0, HistoryNonEmpty DEF Cited
    <3>4. \A c \in Commits : evidence'[c] = IF c = x.src THEN Cited(e) ELSE evidence[c]
      BY <2>1 DEF TypeOK, StoreTypeOK
    <3>5. \A c \in Commits \ {x.src} : snapshot'[c] = snapshot[c]
      BY <2>1 DEF TypeOK, StoreTypeOK
    <3>6. CitedCommitsAreStored'
      BY <1>i, <2>0, <3>3, <3>4, <3>5 DEF CitedCommitsAreStored, Published
    <3> QED BY <1>p, <2>0, <2>1, <3>2, <3>6
  <2>2. CASE Raise(e, "ANALYSIS_FAILED") /\ UNCHANGED <<run, snapshot, evidence>>
    BY <1>f, <2>0, <2>2 DEF storeVars
  <2> QED BY <1>12, <2>1, <2>2 DEF PublishCommit
<1>q. ASSUME NEW pc \in {"failCommit", "fakeFinish"}, x.pc # "idle", Load(e, pc),
             UNCHANGED <<readerUnchanged, mirror>>
      PROVE  PipelineInv'
  <2>1. Grows /\ Moves(e, pc)
    BY <1>q, ReaderGrows, MoveFields DEF readerUnchanged
  <2>2. ExecutionInv(exec[e])'
    BY <1>q, <2>1, MoveInv DEF Moves, Sourced, Mined, Recorded
  <2> QED BY <1>m, <1>q, <2>2
<1>13. CASE FailLoad(e)
  BY <1>13, <1>q DEF FailLoad
<1>14. CASE FailCommit(e)
  <2> DEFINE a == [x.row EXCEPT !.state = "FAILED", !.error = x.error]
  <2>1. a \in RunRow
    BY <1>a, AssignFailureType
  <2>2. a.sha = x.row.sha /\ a.state = "FAILED"
    BY <1>a DEF RunRow
  <2> QED BY <1>14, <1>c, <2>1, <2>2 DEF FailCommit
<1>15. CASE FakeStart(e)
  <2> DEFINE a == [x.row EXCEPT !.state = "RUNNING", !.progress = 25]
  <2>1. a \in RunRow
    <3>1. x.row \in RunRow /\ 25 \in 0..100
      BY <1>a
    <3> QED BY <3>1, AssignProgressType
  <2>2. a.sha = x.row.sha /\ a.state = "RUNNING"
    BY <1>a DEF RunRow
  <2> QED BY <1>15, <1>c, <2>1, <2>2 DEF FakeStart
<1>16. CASE FakeLoad(e)
  BY <1>16, <1>q DEF FakeLoad
<1>17. CASE FakeFinish(e)
  <2> DEFINE a == [x.row EXCEPT !.state = "FAILED", !.progress = 100, !.error = "SIMULATED_FAILURE"]
  <2>1. a \in RunRow
    BY <1>a, AssignSimulatedFailureType
  <2>2. a.sha = x.row.sha /\ a.state = "FAILED"
    BY <1>a DEF RunRow
  <2> QED BY <1>17, <1>c, <2>1, <2>2 DEF FakeFinish
<1>18. CASE Return(e)
  BY <1>18, ReleaseInv DEF Return
<1> QED BY <1>1, <1>2, <1>3, <1>4, <1>5, <1>6, <1>7, <1>8, <1>8b, <1>9, <1>10, <1>11, <1>12, <1>13,
           <1>14, <1>15, <1>16, <1>17, <1>18 DEF Execute

\* Every step of the worker process and of GitHub keeps PipelineInv.
LEMMA WorkerStepInv ==
  ASSUME TypeOK, PipelineInv, NEW e \in Execs, Worker(e)
  PROVE  PipelineInv'
<1> DEFINE x == exec[e]
<1>0. /\ x \in Execution /\ ExecutionInv(x) /\ JobsInv
      /\ x.pc # "idle" => x.run \in Runs /\ run[x.run] \in RunRow /\ run[x.run].state # "ABSENT"
      /\ \A y : Become(e, y) => exec'[e] = y
  BY ExecutionFacts DEF ExecutionInv, Active, PipelineInv, JobsInv
<1>1. ASSUME NEW r \in Runs, Deliver(e, r) PROVE PipelineInv'
  <2>1. run[r].state # "ABSENT"
    BY <1>0, <1>1 DEF Deliver, JobsInv
  <2>2. exec'[e] = [Idle EXCEPT !.pc = "start", !.run = r, !.owner = TRUE]
    BY <1>0, <1>1 DEF Deliver
  <2>3. exec'[e].pc = "start" /\ exec'[e].run = r /\ exec'[e].row.sha = 0
    BY <2>2 DEF Idle, NoRow
  <2>4. Grows /\ SameRuns /\ SucceededRunIsPublished' /\ CitedCommitsAreStored'
    BY <1>1, ReaderGrows, RowsFrame DEF Deliver
  <2>5. ExecutionInv(exec[e])'
    BY <1>1, <2>1, <2>3 DEF ExecutionInv, Sourced, Mined, Recorded, Deliver, storeVars
  <2>6. JobsInv'
    BY <1>0, <1>1, <2>1 DEF JobsInv, Deliver, storeVars, TypeOK, ApiTypeOK
  <2> QED BY <1>1, <2>4, <2>5, <2>6, StepInv DEF Deliver, storeVars
<1>2. CASE Execute(e)
  BY <1>2, ExecuteStepInv
<1>3. CASE AttemptFails(e)
  <2>1. PICK code \in RaisedIn(x) : Raise(e, code)
    BY <1>3 DEF AttemptFails
  <2>2. x.pc # "idle" /\ SameRuns /\ UNCHANGED <<storeVars, req, job, mirror>>
    BY <1>3, <2>1, ReaderGrows DEF RaisedIn, AttemptFails, readerUnchanged, apiVars
  <2>3. ExecutionInv(exec[e])'
    BY <2>1, <2>2, RaiseInv
  <2> QED BY <2>1, <2>2, <2>3, ReaderStepInv DEF Raise
<1>4. CASE Escape(e)
  <2>1. exec'[e] = [x EXCEPT !.pc = "exit", !.row = NoRow]
    BY <1>0, <1>4 DEF Escape
  <2>2. exec'[e].pc = "exit" /\ exec'[e].run = x.run /\ exec'[e].row.sha = 0
    BY <1>0, <2>1 DEF Execution, NoRow
  <2>3. x.pc # "idle" /\ UNCHANGED <<storeVars, req, job, mirror>>
    BY <1>4 DEF Escape, readerUnchanged, apiVars
  <2>4. ExecutionInv(exec[e])'
    BY <1>0, <2>2, <2>3 DEF ExecutionInv, Sourced, Mined, Recorded, storeVars
  <2> QED BY <1>4, <2>3, <2>4, ReaderStepInv DEF Escape
<1>5. CASE Crash(e)
  BY <1>5, ReleaseInv DEF Crash
<1>6. CASE Detach(e)
  <2>0. UNCHANGED <<storeVars, req, mirror>> /\ x.pc # "idle"
    BY <1>6 DEF Detach
  <2>1. exec'[e] = [x EXCEPT !.owner = FALSE]
    BY <1>0, <1>6 DEF Detach
  <2>2. Moves(e, x.pc)
    BY <1>0, <2>1 DEF Execution, Moves
  <2>3. Grows /\ SameRuns /\ SucceededRunIsPublished' /\ CitedCommitsAreStored'
    BY <2>0, ReaderGrows, RowsFrame
  <2>4. ExecutionInv(exec[e])'
    <3>1. (Sourced(exec[e])' => Sourced(x)) /\ (Mined(exec[e])' => Mined(x))
          /\ (Recorded(exec[e])' => Recorded(x))
      BY <2>2 DEF Moves, Sourced, Mined, Recorded
    <3> QED BY <1>0, <2>0, <2>2, <2>3, <3>1, MoveInv DEF ExecutionInv, storeVars, Published
  <2>5. JobsInv'
    BY <1>0, <1>6, <2>0 DEF Detach, Release, JobsInv, storeVars, TypeOK, ApiTypeOK
  <2> QED BY <1>6, <2>0, <2>3, <2>4, <2>5, StepInv DEF Detach, storeVars
<1> QED BY <1>1, <1>2, <1>3, <1>4, <1>5, <1>6 DEF Worker

-----------------------------------------------------------------------------
(* The steps of a request                                                   *)

\* Every step of the API process keeps PipelineInv.
LEMMA ApiStepInv ==
  ASSUME TypeOK, PipelineInv, NEW q \in Requests, Api(q)
  PROVE  PipelineInv'
<1> USE DEF workerVars
<1>0. /\ req[q] \in Request /\ RequestsInv /\ ExecutionsInv /\ JobsInv /\ RecordInv
      /\ SucceededRunIsPublished /\ CitedCommitsAreStored
  BY DEF TypeOK, ApiTypeOK, PipelineInv, RequestsInv, ExecutionsInv, JobsInv
<1>f. ASSUME Grows, UNCHANGED exec PROVE ExecutionsInv'
  BY <1>0, <1>f, ExecutionInvFrame DEF ExecutionsInv
\* A step that writes no row keeps everything but what it tells its own request.
<1>r. ASSUME UNCHANGED <<storeVars, workerVars>>, JobsInv',
             \A p \in Requests \ {q} : req'[p] = req[p], RequestInv(q)'
      PROVE  PipelineInv'
  <2>1. SucceededRunIsPublished' /\ CitedCommitsAreStored' /\ Grows
    BY <1>r, RowsFrame, ReaderGrows
  <2>2. ExecutionsInv'
    BY <1>f, <1>r, <2>1
  <2>3. RecordInv'
    BY <1>0, <1>r DEF RecordInv, storeVars
  <2>4. RequestsInv'
    BY <1>0, <1>r DEF RequestsInv, RequestInv, storeVars
  <2> QED BY <1>r, <2>1, <2>2, <2>3, <2>4 DEF PipelineInv, ExecutionsInv, RequestsInv, JobsInv
<1>1. ASSUME NEW k \in Keys, NEW sim \in Simulate, ReceiveCreate(q, k, sim), UNCHANGED workerVars
      PROVE  PipelineInv'
  <2>1. /\ UNCHANGED <<storeVars, job>>
        /\ \A p \in Requests \ {q} : req'[p] = req[p]
    BY <1>1 DEF ReceiveCreate, TypeOK, ApiTypeOK
  <2>2. RequestInv(q)'
    <3>1. idem[k] \in IdempotencyRecord /\ sim \in BOOLEAN
      BY DEF TypeOK, StoreTypeOK
    <3>2. req'[q].pc \in {"insert", "answered"} /\ req'[q].key = k /\ req'[q].simulate = sim
      BY <1>1 DEF ReceiveCreate, TypeOK, ApiTypeOK
    <3>3. req'[q].outcome = "accepted" =>
            idem[k] # NoRecord /\ idem[k].simulate = sim /\ req'[q].run = idem[k].run
      BY <1>1 DEF ReceiveCreate, FindIdempotentResource, TypeOK, ApiTypeOK
    <3>4. idem[k] # NoRecord =>
            idem[k].run \in Runs /\ idem[k] = [run |-> idem[k].run, simulate |-> idem[k].simulate]
      BY <1>0, <3>1 DEF RecordInv, IdempotencyRecord
    <3>5. idem' = idem
      BY <2>1 DEF storeVars
    <3> QED BY <3>2, <3>3, <3>4, <3>5 DEF RequestInv
  <2> QED BY <1>0, <1>1, <1>r, <2>1, <2>2 DEF JobsInv, storeVars
<1>2. ASSUME CommitCreate(q), UNCHANGED workerVars PROVE PipelineInv'
  <2> DEFINE k == req[q].key
  <2>0. req[q].pc = "insert" /\ k \in Keys /\ UNCHANGED <<snapshot, evidence, stored, refHead, job>>
    BY <1>0, <1>2 DEF CommitCreate, RequestsInv, RequestInv
  <2>1. CASE Answer(q, "error", NoRun) /\ UNCHANGED <<run, idem>>
    <3>1. /\ req'[q].pc = "answered" /\ req'[q].outcome = "error"
          /\ \A p \in Requests \ {q} : req'[p] = req[p]
      BY <2>1 DEF Answer, TypeOK, ApiTypeOK, Request
    <3> QED BY <1>0, <1>2, <1>r, <2>0, <2>1, <3>1 DEF JobsInv, storeVars, RequestInv
  <2>2. ASSUME NEW r \in Runs, run[r] = NoRow, ~IdempotencyTaken(k),
               run' = [run EXCEPT ![r] = NewRun(req[q].simulate)],
               idem' = [idem EXCEPT ![k] = [run |-> r, simulate |-> req[q].simulate]],
               req' = [req EXCEPT ![q] = [@ EXCEPT !.pc = "enqueue", !.run = r]]
        PROVE  PipelineInv'
    <3>0. req[q].simulate \in BOOLEAN
      BY <1>0 DEF Request
    <3>1. /\ NewRun(req[q].simulate).state = "QUEUED"
          /\ NewRun(req[q].simulate).sha = 0
          /\ NewRun(req[q].simulate).simulate = req[q].simulate
      BY DEF NewRun, NoRow
    <3>2. \A s \in Runs : run'[s] = IF s = r THEN NewRun(req[q].simulate) ELSE run[s]
      BY <2>2 DEF TypeOK, StoreTypeOK
    <3>3. run[r].state = "ABSENT" /\ run[r].sha = 0
      BY <2>2 DEF NoRow
    <3>4. Grows
      BY <1>2, <2>0, <3>1, <3>2, <3>3 DEF Grows, Published
    <3>5. SucceededRunIsPublished' /\ CitedCommitsAreStored'
      BY <1>0, <2>0, <3>1, <3>2 DEF SucceededRunIsPublished, CitedCommitsAreStored, Published
    <3>6. JobsInv'
      BY <1>0, <2>0, <3>1, <3>2 DEF JobsInv
    <3>7. \A j \in Keys : idem'[j] = IF j = k THEN [run |-> r, simulate |-> req[q].simulate] ELSE idem[j]
      BY <2>2 DEF TypeOK, StoreTypeOK
    <3>8. \A j \in Keys : idem[j].run # r
      BY <1>0, <3>3 DEF RecordInv
    <3>9. RecordInv'
      <4>1. \A j \in Keys : idem'[j].run \in Runs \/ idem'[j] = NoRecord
        BY <1>0, <3>7 DEF RecordInv
      <4>2. ASSUME NEW j \in Keys, idem'[j].run \in Runs
            PROVE  /\ run'[idem'[j].run].state # "ABSENT"
                   /\ run'[idem'[j].run].simulate = idem'[j].simulate
                   /\ \A i \in Keys \ {j} : idem'[i].run # idem'[j].run
        <5>1. CASE j = k
          BY <3>1, <3>2, <3>7, <3>8, <5>1
        <5>2. CASE j # k
          BY <1>0, <3>2, <3>7, <3>8, <4>2, <5>2 DEF RecordInv
        <5> QED BY <5>1, <5>2
      <4>3. \A s \in Runs : run'[s].state # "ABSENT" => \E j \in Keys : idem'[j].run = s
        <5>1. ASSUME NEW s \in Runs, run'[s].state # "ABSENT", s # r
              PROVE  \E j \in Keys : idem'[j].run = s
          <6>1. PICK j \in Keys : idem[j].run = s
            BY <1>0, <3>2, <5>1 DEF RecordInv
          <6>2. j # k
            BY <2>2, <6>1 DEF IdempotencyTaken, NoRecord
          <6> QED BY <3>7, <6>1, <6>2
        <5>2. idem'[k].run = r
          BY <2>0, <3>7
        <5> QED BY <2>0, <5>1, <5>2
      <4> QED BY <4>1, <4>2, <4>3 DEF RecordInv
    <3>10. RequestsInv'
      <4>1. req'[q] = [req[q] EXCEPT !.pc = "enqueue", !.run = r]
        BY <2>2 DEF TypeOK, ApiTypeOK
      <4>2. /\ req'[q].pc = "enqueue" /\ req'[q].run = r /\ req'[q].key = k
            /\ req'[q].simulate = req[q].simulate
        BY <1>0, <4>1 DEF Request
      <4>3. RequestInv(q)'
        BY <2>0, <3>7, <4>2 DEF RequestInv
      <4>4. ASSUME NEW p \in Requests \ {q} PROVE RequestInv(p)'
        <5>1. req'[p] = req[p] /\ RequestInv(p)
          BY <1>0, <2>2 DEF RequestsInv, TypeOK, ApiTypeOK
        <5>2. idem[k] = NoRecord
          BY <2>2 DEF IdempotencyTaken
        <5> QED BY <3>7, <5>1, <5>2 DEF RequestInv, NoRecord
      <4> QED BY <4>3, <4>4 DEF RequestsInv
    <3> QED BY <1>2, <1>f, <3>4, <3>5, <3>6, <3>9, <3>10 DEF PipelineInv, ExecutionsInv, RequestsInv, JobsInv
  <2> QED BY <1>2, <2>1, <2>2 DEF CommitCreate
<1>3. ASSUME Enqueue(q), UNCHANGED workerVars PROVE PipelineInv'
  <2>1. /\ req'[q] = [req[q] EXCEPT !.pc = "answered", !.outcome = "accepted", !.run = req[q].run]
        /\ \A p \in Requests \ {q} : req'[p] = req[p]
    BY <1>3 DEF Enqueue, Answer, TypeOK, ApiTypeOK
  <2>2. /\ req'[q].pc = "answered" /\ req'[q].run = req[q].run /\ req'[q].key = req[q].key
        /\ req'[q].simulate = req[q].simulate
    BY <1>0, <2>1 DEF Request
  <2>3. /\ req[q].key \in Keys /\ req[q].run \in Runs
        /\ idem[req[q].key] = [run |-> req[q].run, simulate |-> req[q].simulate]
    BY <1>0, <1>3 DEF Enqueue, RequestsInv, RequestInv
  <2>4. UNCHANGED storeVars
    BY <1>3 DEF Enqueue
  <2>5. RequestInv(q)'
    BY <2>2, <2>3, <2>4 DEF RequestInv, storeVars
  <2>6. JobsInv'
    <3>1. run[req[q].run].state # "ABSENT"
      BY <1>0, <2>3 DEF RecordInv
    <3> QED BY <1>0, <1>3, <2>4, <3>1 DEF Enqueue, JobsInv, storeVars, TypeOK, ApiTypeOK
  <2> QED BY <1>3, <1>r, <2>1, <2>4, <2>5, <2>6
<1>4. ASSUME RequestDies(q), UNCHANGED workerVars PROVE PipelineInv'
  <2>1. /\ req'[q].pc = "answered" /\ req'[q].outcome = "error"
        /\ \A p \in Requests \ {q} : req'[p] = req[p]
    BY <1>4 DEF RequestDies, Answer, TypeOK, ApiTypeOK, Request
  <2> QED BY <1>0, <1>4, <1>r, <2>1 DEF RequestDies, JobsInv, storeVars, RequestInv
<1> QED BY <1>1, <1>2, <1>3, <1>4 DEF Api

-----------------------------------------------------------------------------
(* Theorems                                                                 *)

\* The inductive invariant of the pipeline holds in every behaviour, under every combination of
\* failures of the environment, for any number of runs, keys, requests and executions.
THEOREM PipelineCorrect == Spec => []PipelineInv
<1>1. Init => PipelineInv
  <2> SUFFICES ASSUME Init PROVE PipelineInv
    OBVIOUS
  <2>1. SucceededRunIsPublished /\ CitedCommitsAreStored /\ RecordInv
    BY DEF Init, StoreInit, SucceededRunIsPublished, CitedCommitsAreStored, RecordInv, Published,
           NoRow, NoRecord
  <2>2. \A q \in Requests : RequestInv(q)
    BY DEF Init, ApiInit, RequestInv
  <2>3. \A r \in Runs : job[r] # "none" => run[r].state # "ABSENT"
    BY DEF Init, ApiInit
  <2>4. \A e \in Execs : ExecutionInv(exec[e])
    BY DEF Init, WorkerInit, Idle, NoRow, ExecutionInv, Sourced, Mined, Recorded
  <2> QED BY <2>1, <2>2, <2>3, <2>4 DEF PipelineInv
<1>2. TypeOK /\ PipelineInv /\ [Next]_vars => PipelineInv'
  <2> SUFFICES ASSUME TypeOK, PipelineInv, [Next]_vars PROVE PipelineInv'
    OBVIOUS
  <2>1. ASSUME NEW q \in Requests, Api(q) PROVE PipelineInv'
    BY <2>1, ApiStepInv
  <2>2. ASSUME NEW e \in Execs, Worker(e) PROVE PipelineInv'
    BY <2>2, WorkerStepInv
  <2>f. ASSUME UNCHANGED <<storeVars, req, exec>>, mirror # 0 => mirror' # 0, JobsInv'
        PROVE  PipelineInv'
    <3>1. SucceededRunIsPublished' /\ CitedCommitsAreStored' /\ Grows /\ SameRuns
      BY <2>f, RowsFrame, ReaderGrows
    <3>2. RecordInv' /\ RequestsInv'
      BY <2>f, <3>1, RecordsFrame DEF PipelineInv, RequestsInv, storeVars
    <3>3. ExecutionsInv'
      BY <2>f, <3>1, ExecutionInvFrame DEF PipelineInv, ExecutionsInv
    <3> QED BY <2>f, <3>1, <3>2, <3>3 DEF PipelineInv, ExecutionsInv, RequestsInv, JobsInv
  <2>3. ASSUME NEW r \in Runs, GiveUp(r) PROVE PipelineInv'
    <3>1. JobsInv'
      BY <2>3 DEF GiveUp, JobsInv, PipelineInv, TypeOK, ApiTypeOK, storeVars
    <3> QED BY <2>3, <2>f, <3>1 DEF GiveUp, workerVars
  <2>4. CASE Push
    BY <2>4, <2>f DEF Push, JobsInv, PipelineInv, storeVars, apiVars
  <2>5. CASE UNCHANGED vars
    BY <2>5, <2>f DEF vars, workerVars, JobsInv, PipelineInv, storeVars, apiVars
  <2> QED BY <2>1, <2>2, <2>3, <2>4, <2>5 DEF Next
<1> QED BY <1>1, <1>2, TypeCorrect, PTL DEF Spec

\* A run that says SUCCEEDED, or names a commit, points at a published snapshot: no interleaving
\* of attempts, zombies and failing handlers leaves a success without one.
THEOREM SucceededRunsArePublished == Spec => []SucceededRunIsPublished
BY PipelineCorrect, PTL DEF PipelineInv

\* Every commit a published snapshot cites is stored.
THEOREM CitationsAreStored == Spec => []CitedCommitsAreStored
BY PipelineCorrect, PTL DEF PipelineInv

\* A run exists iff exactly one idempotency key names it.
THEOREM RunsHaveOneKey == Spec => []OneKeyPerRun
<1>1. TypeOK /\ PipelineInv => OneKeyPerRun
  <2> SUFFICES ASSUME TypeOK, RecordInv, NEW r \in Runs
               PROVE  run[r].state # "ABSENT" <=>
                        \E k \in Keys : /\ idem[k] = [run |-> r, simulate |-> run[r].simulate]
                                        /\ \A j \in Keys \ {k} : idem[j].run # r
    BY DEF PipelineInv, OneKeyPerRun
  <2>1. \A k \in Keys : idem[k] \in IdempotencyRecord
    BY DEF TypeOK, StoreTypeOK
  <2>2. ASSUME NEW k \in Keys, idem[k].run = r
        PROVE  idem[k] = [run |-> r, simulate |-> run[r].simulate]
    BY <2>1, <2>2 DEF RecordInv, IdempotencyRecord
  <2> QED BY <2>2 DEF RecordInv
<1> QED BY <1>1, TypeCorrect, PipelineCorrect, PTL

\* Every accepted answer for a key names the one run recorded for it, and the same request.
THEOREM AnswersAgree == Spec => []AcceptedAnswersAgree
<1>1. PipelineInv => AcceptedAnswersAgree
  BY DEF PipelineInv, RequestInv, AcceptedAnswersAgree
<1> QED BY <1>1, PipelineCorrect, PTL

-----------------------------------------------------------------------------
(* Immutability                                                             *)

\* A second analysis of a commit adds no evidence: the history limit does not cut the branch, or
\* every commit has sources, so that its snapshot has module candidates (structural_analysis.py
\* 271).
ReuseAddsNothing == HistoryLimit >= MaxCommit \/ Commits \subseteq Analyzable

\* Every published snapshot cites the first commit of the branch, unless the limit cuts it off.
FirstIsCited == HistoryLimit >= MaxCommit => \A c \in Commits : Published(c) => 1 \in evidence[c]

\* What PublishedSnapshotIsImmutable says of one step.
SnapshotStep ==
  \A c \in Commits : Published(c) => snapshot'[c] = snapshot[c] /\ evidence'[c] = evidence[c]

\* While the history limit does not cut the branch, every history holds its first commit.
LEMMA WholeHistory ==
  ASSUME HistoryLimit >= MaxCommit, NEW h \in 0..MaxCommit, h # 0
  PROVE  1 \in History(h)
BY DEF History

\* Under PipelineInv no step changes the publisher or the evidence of a published snapshot.
LEMMA SnapshotStepHolds ==
  ASSUME TypeOK, PipelineInv, ReuseAddsNothing, FirstIsCited, [Next]_vars
  PROVE  SnapshotStep /\ FirstIsCited'
<1>u. ASSUME UNCHANGED <<snapshot, evidence>> PROVE SnapshotStep /\ FirstIsCited'
  BY <1>u DEF SnapshotStep, FirstIsCited, Published
<1>1. ASSUME NEW e \in Execs, CommitReuse(e) PROVE SnapshotStep /\ FirstIsCited'
  <2>0. /\ exec[e].src \in Commits /\ Published(exec[e].src)
        /\ HistoryLimit >= MaxCommit => 1 \in Cited(e)
    <3>1. exec[e].pc = "reuse" /\ exec[e] \in Active /\ ExecutionInv(exec[e])
      BY <1>1, ExecutionFacts DEF CommitReuse
    <3>2. exec[e].src \in 0..MaxCommit /\ exec[e].hist \in 0..MaxCommit
      BY <3>1, ActiveFields
    <3>3. exec[e].src # 0 /\ exec[e].hist # 0 /\ Published(exec[e].src)
      BY <3>1 DEF ExecutionInv, Sourced, Mined
    <3> QED BY <3>2, <3>3, WholeHistory DEF Commits, Cited
  <2>1. CASE evidence' = [evidence EXCEPT ![exec[e].src] =
                            IF EvolutionPersisted(exec[e].src) THEN @ ELSE @ \cup Cited(e)]
             /\ ~EvolutionConflict(e) /\ snapshot' = snapshot
    <3>1. HistoryLimit >= MaxCommit => 1 \in evidence[exec[e].src]
      BY <2>0 DEF FirstIsCited
    <3>2. EvolutionPersisted(exec[e].src)
      BY <2>0, <2>1, <3>1 DEF EvolutionConflict, EvolutionPersisted, ReuseAddsNothing
    <3>3. evidence' = evidence
      BY <2>1, <3>2 DEF TypeOK, StoreTypeOK
    <3> QED BY <1>u, <2>1, <3>3
  <2>2. CASE UNCHANGED <<snapshot, evidence>>
    BY <1>u, <2>2
  <2> QED BY <1>1, <2>1, <2>2 DEF CommitReuse
<1>2. ASSUME NEW e \in Execs, PublishCommit(e) PROVE SnapshotStep /\ FirstIsCited'
  <2>0. exec[e].hist \in 0..MaxCommit /\ exec[e].hist # 0
    <3>1. exec[e].pc = "publish" /\ exec[e] \in Active /\ ExecutionInv(exec[e])
      BY <1>2, ExecutionFacts DEF PublishCommit
    <3> QED BY <3>1, ActiveFields DEF ExecutionInv, Sourced, Mined
  <2>1. CASE /\ ~SnapshotConflict(exec[e].src)
             /\ snapshot' = [snapshot EXCEPT ![exec[e].src] = exec[e].run]
             /\ evidence' = [evidence EXCEPT ![exec[e].src] = Cited(e)]
    <3>1. HistoryLimit >= MaxCommit => 1 \in Cited(e)
      BY <2>0, WholeHistory DEF Cited
    <3>2. \A c \in Commits : c # exec[e].src => snapshot'[c] = snapshot[c] /\ evidence'[c] = evidence[c]
      BY <2>1 DEF TypeOK, StoreTypeOK
    <3>3. \A c \in Commits : c = exec[e].src => evidence'[c] = Cited(e) /\ ~Published(c)
      BY <2>1 DEF TypeOK, StoreTypeOK, SnapshotConflict
    <3> QED BY <3>1, <3>2, <3>3 DEF SnapshotStep, FirstIsCited, Published
  <2>2. CASE UNCHANGED <<snapshot, evidence>>
    BY <1>u, <2>2
  <2> QED BY <1>2, <2>1, <2>2 DEF PublishCommit
<1>3. ASSUME NEW e \in Execs, Worker(e), ~CommitReuse(e), ~PublishCommit(e)
      PROVE  UNCHANGED <<snapshot, evidence>>
  BY <1>3 DEF Worker, Execute, Deliver, Return, Crash, Detach, Start, SetProgressLoad,
     SetProgressCommit, SyncMirror, ReadSourceSnapshot, ListBranchRefs, ReadCommitHistory,
     ReadRefRows, ReadCommitRows, Attach, PublishLoad, AttemptFails, FailLoad, FailCommit, FakeStart,
     FakeLoad, FakeFinish, Escape, readerUnchanged, storeVars
<1>4. ASSUME NEW q \in Requests, Api(q) PROVE UNCHANGED <<snapshot, evidence>>
  BY <1>4 DEF Api, ReceiveCreate, CommitCreate, Enqueue, RequestDies, storeVars
<1>5. ASSUME NEW r \in Runs, GiveUp(r) PROVE UNCHANGED <<snapshot, evidence>>
  BY <1>5 DEF GiveUp, storeVars
<1>6. Push \/ UNCHANGED vars => UNCHANGED <<snapshot, evidence>>
  BY DEF Push, vars, storeVars
<1> QED BY <1>u, <1>1, <1>2, <1>3, <1>4, <1>5, <1>6 DEF Next

\* While the history limit does not cut the branch, or commits have sources, no step changes the
\* publisher or the cited changes of a published snapshot.  With a cut, the reanalysis of a
\* commit without sources can cite commits that the first analysis did not.
THEOREM SnapshotsAreImmutable ==
  ASSUME ReuseAddsNothing
  PROVE  Spec => PublishedSnapshotIsImmutable
<1>1. Init => FirstIsCited
  BY DEF Init, StoreInit, FirstIsCited, Published
<1>2. TypeOK /\ PipelineInv /\ FirstIsCited /\ [Next]_vars => SnapshotStep /\ FirstIsCited'
  BY SnapshotStepHolds
<1>3. Spec => [][SnapshotStep]_vars
  BY <1>1, <1>2, TypeCorrect, PipelineCorrect, PTL DEF Spec
<1> QED BY <1>3 DEF PublishedSnapshotIsImmutable, SnapshotStep

-----------------------------------------------------------------------------
(* The pipeline implements IdempotentCreate: whatever requests race, die   *)
(* and come again, and whatever the executions do to the runs meanwhile,   *)
(* POST /repositories/{id}/analyses binds each key once and answers as the *)
(* bindings say.                                                           *)

\* What a request has told its client.
Told(x) ==
  [key |-> x.key, body |-> x.simulate,
   outcome |-> IF x.outcome = "error" THEN "refused" ELSE x.outcome,
   resource |-> IF x.outcome = "accepted" THEN x.run ELSE NoRun]

\* A response that leaves the records alone tells its client something justified.
LEMMA TellRefines ==
  ASSUME TypeOK, idem' = idem, NEW q \in Requests, NEW x \in Request,
         req' = [req EXCEPT ![q] = x], x.key \in Keys,
         x.outcome = "accepted" => /\ x.run \in Runs
                                   /\ idem[x.key] = [run |-> x.run, simulate |-> x.simulate],
         x.outcome = "conflict" => /\ idem[x.key].run # NoRun
                                   /\ idem[x.key].simulate # x.simulate
  PROVE  Create!Next
<1> DEFINE t == Told(x)
<1>1. /\ t.outcome \in {"none", "accepted", "conflict", "refused"}
      /\ t.resource \in Runs \cup {NoRun}
      /\ t.key = x.key /\ t.body = x.simulate /\ t.body \in BOOLEAN
  BY DEF Told, Request
<1>2. Create!Justified(t.key, t.body, t.outcome, t.resource)
  <2>1. CASE x.outcome = "accepted"
    BY <2>1 DEF Create!Justified, Told
  <2>2. CASE x.outcome = "conflict"
    BY <2>2 DEF Create!Justified, Create!Bound, Told
  <2>3. CASE x.outcome \in {"none", "error"}
    BY <2>3 DEF Create!Justified, Told
  <2> QED BY <2>1, <2>2, <2>3 DEF Request
<1>3. Create!Tell(q, t.key, t.body, t.outcome, t.resource)
  <2>1. \A p \in Requests : req'[p] = IF p = q THEN x ELSE req[p]
    BY DEF TypeOK, ApiTypeOK
  <2>2. \A p \in Requests : Told(req'[p]) = IF p = q THEN t ELSE Told(req[p])
    BY <2>1
  <2>3. t = [key |-> t.key, body |-> t.body, outcome |-> t.outcome, resource |-> t.resource]
    BY DEF Told
  <2> HIDE DEF t
  <2>4. [p \in Requests |-> Told(req'[p])] = [[p \in Requests |-> Told(req[p])] EXCEPT ![q] = t]
    BY <2>2
  <2> QED BY <1>2, <2>3, <2>4 DEF Create!Tell, Told
<1> QED BY <1>1, <1>3 DEF Create!Next

\* The commit of a run and its record binds a free key to a new run.
LEMMA BindRefines ==
  ASSUME TypeOK, PipelineInv, NEW q \in Requests, NEW r \in Runs, NEW k \in Keys,
         NEW sim \in BOOLEAN, req[q].pc = "insert", req[q].key = k, req[q].simulate = sim,
         idem[k] = NoRecord, run[r] = NoRow,
         idem' = [idem EXCEPT ![k] = [run |-> r, simulate |-> sim]],
         req' = [req EXCEPT ![q] = [req[q] EXCEPT !.pc = "enqueue", !.run = r]]
  PROVE  Create!Next
<1>1. req[q] \in Request /\ req[q].outcome # "accepted"
  <2>1. req[q] \in Request
    BY DEF TypeOK, ApiTypeOK
  <2>2. idem[k].run \notin Runs
    BY DEF NoRecord
  <2>3. req[q].outcome # "accepted"
    <3>1. RequestInv(q)
      BY DEF PipelineInv
    <3>2. SUFFICES ASSUME req[q].outcome = "accepted" PROVE FALSE
      OBVIOUS
    <3>3. req[q].run \in Runs /\ idem[k] = [run |-> req[q].run, simulate |-> req[q].simulate]
      BY <3>1, <3>2 DEF RequestInv
    <3>4. idem[k].run = req[q].run
      BY <3>3
    <3> QED BY <2>2, <3>3, <3>4
  <2> QED BY <2>1, <2>3
<1>2. \A j \in Keys : idem[j].run # r
  BY DEF PipelineInv, RecordInv, NoRow
<1>3. \A p \in Requests : Told(req'[p]) = Told(req[p])
  <2> SUFFICES ASSUME NEW p \in Requests PROVE Told(req'[p]) = Told(req[p])
    OBVIOUS
  <2>1. CASE p = q
    <3>1. /\ req'[q].key = req[q].key /\ req'[q].simulate = req[q].simulate
          /\ req'[q].outcome = req[q].outcome
      BY <1>1 DEF TypeOK, ApiTypeOK, Request
    <3> QED BY <1>1, <2>1, <3>1 DEF Told
  <2>2. CASE p # q
    BY <2>2 DEF TypeOK, ApiTypeOK
  <2> QED BY <2>1, <2>2
<1>4. [j \in Keys |-> [body |-> idem'[j].simulate, resource |-> idem'[j].run]] =
        [[j \in Keys |-> [body |-> idem[j].simulate, resource |-> idem[j].run]]
           EXCEPT ![k] = [body |-> sim, resource |-> r]]
  <2>1. \A j \in Keys : idem'[j] = IF j = k THEN [run |-> r, simulate |-> sim] ELSE idem[j]
    BY DEF TypeOK, StoreTypeOK
  <2>2. \A j \in Keys : [body |-> idem'[j].simulate, resource |-> idem'[j].run] =
          IF j = k THEN [body |-> sim, resource |-> r]
          ELSE [body |-> idem[j].simulate, resource |-> idem[j].run]
    BY <2>1
  <2> QED BY <2>2
<1>5. Create!Bind(k, sim, r)
  BY <1>2, <1>3, <1>4 DEF Create!Bind, Create!Bound, Told, NoRecord
<1> QED BY <1>5 DEF Create!Next

\* Every step of the API process is a step of IdempotentCreate.
LEMMA ApiStepRefines ==
  ASSUME TypeOK, PipelineInv, NEW q \in Requests, Api(q)
  PROVE  Create!Next
<1>0. req[q] \in Request
  BY DEF TypeOK, ApiTypeOK
<1>k. ASSUME req[q].pc \in {"insert", "enqueue"} PROVE req[q].key \in Keys
  BY <1>k DEF PipelineInv, RequestInv
<1>1. ASSUME NEW k \in Keys, NEW sim \in Simulate, ReceiveCreate(q, k, sim)
      PROVE  Create!Next
  <2>1. idem[k].run \in Runs \/ idem[k] = NoRecord
    BY DEF PipelineInv, RecordInv
  <2>2. idem[k] \in IdempotencyRecord /\ sim \in BOOLEAN
    BY DEF TypeOK, StoreTypeOK
  <2>3. CASE idem[k] = NoRecord
    <3> DEFINE x == [pc |-> "insert", key |-> k, simulate |-> sim, run |-> NoRun, outcome |-> "none"]
    <3>1. x \in Request
      BY <2>2 DEF Request
    <3>2. req' = [req EXCEPT ![q] = x] /\ idem' = idem
      BY <1>1, <2>3 DEF ReceiveCreate, FindIdempotentResource, storeVars
    <3>3. x.key = k /\ x.outcome = "none"
      OBVIOUS
    <3> HIDE DEF x
    <3> QED BY <3>1, <3>2, <3>3, TellRefines
  <2>4. CASE idem[k] # NoRecord /\ idem[k].simulate # sim
    <3> DEFINE x == [pc |-> "answered", key |-> k, simulate |-> sim, run |-> NoRun,
                     outcome |-> "conflict"]
    <3>1. x \in Request
      BY <2>2 DEF Request
    <3>2. req' = [req EXCEPT ![q] = x] /\ idem' = idem
      BY <1>1, <2>4 DEF ReceiveCreate, FindIdempotentResource, storeVars
    <3>3. x.key = k /\ x.simulate = sim /\ x.outcome = "conflict"
      OBVIOUS
    <3>4. idem[k].run # NoRun
      BY <2>1, <2>4
    <3> HIDE DEF x
    <3> QED BY <2>4, <3>1, <3>2, <3>3, <3>4, TellRefines
  <2>5. CASE idem[k] # NoRecord /\ idem[k].simulate = sim
    <3> DEFINE x == [pc |-> "answered", key |-> k, simulate |-> sim, run |-> idem[k].run,
                     outcome |-> "accepted"]
    <3>1. x \in Request
      BY <2>1, <2>2, <2>5 DEF Request
    <3>2. req' = [req EXCEPT ![q] = x] /\ idem' = idem
      BY <1>1, <2>5 DEF ReceiveCreate, FindIdempotentResource, storeVars
    <3>3. x.key = k /\ x.simulate = sim /\ x.outcome = "accepted" /\ x.run = idem[k].run
      OBVIOUS
    <3>4. idem[k].run \in Runs /\ idem[k] = [run |-> idem[k].run, simulate |-> sim]
      BY <2>1, <2>2, <2>5 DEF IdempotencyRecord
    <3> HIDE DEF x
    <3> QED BY <3>1, <3>2, <3>3, <3>4, TellRefines
  <2> QED BY <2>3, <2>4, <2>5
<1>a. ASSUME req[q].pc \in {"insert", "enqueue"}, Answer(q, "error", NoRun), idem' = idem
      PROVE  Create!Next
  <2> DEFINE x == [req[q] EXCEPT !.pc = "answered", !.outcome = "error", !.run = NoRun]
  <2>1. x \in Request /\ x.key = req[q].key /\ x.outcome = "error"
    BY <1>0 DEF Request
  <2>2. req' = [req EXCEPT ![q] = x]
    BY <1>a DEF Answer
  <2>3. req[q].key \in Keys
    BY <1>a, <1>k
  <2> HIDE DEF x
  <2> QED BY <1>a, <2>1, <2>2, <2>3, TellRefines
<1>2. CASE CommitCreate(q)
  <2>1. CASE IdempotencyTaken(req[q].key)
    BY <1>2, <1>a, <2>1 DEF CommitCreate
  <2>2. CASE ~IdempotencyTaken(req[q].key)
    <3>1. PICK r \in Runs :
            /\ run[r] = NoRow
            /\ idem' = [idem EXCEPT ![req[q].key] = [run |-> r, simulate |-> req[q].simulate]]
            /\ req' = [req EXCEPT ![q] = [req[q] EXCEPT !.pc = "enqueue", !.run = r]]
      BY <1>2, <2>2 DEF CommitCreate
    <3>2. req[q].pc = "insert" /\ req[q].key \in Keys /\ idem[req[q].key] = NoRecord
      BY <1>2, <1>k, <2>2 DEF CommitCreate, IdempotencyTaken
    <3>3. req[q].simulate \in BOOLEAN
      BY <1>0 DEF Request
    <3> QED BY <3>1, <3>2, <3>3, BindRefines
  <2> QED BY <2>1, <2>2
<1>3. CASE Enqueue(q)
  <2> DEFINE x == [req[q] EXCEPT !.pc = "answered", !.outcome = "accepted", !.run = req[q].run]
  <2>1. /\ x \in Request /\ x.key = req[q].key /\ x.simulate = req[q].simulate
        /\ x.run = req[q].run /\ x.outcome = "accepted"
    BY <1>0 DEF Request
  <2>2. req' = [req EXCEPT ![q] = x] /\ idem' = idem
    BY <1>3 DEF Enqueue, Answer, storeVars
  <2>3. /\ req[q].key \in Keys /\ req[q].run \in Runs
        /\ idem[req[q].key] = [run |-> req[q].run, simulate |-> req[q].simulate]
    BY <1>3 DEF Enqueue, PipelineInv, RequestInv
  <2> HIDE DEF x
  <2> QED BY <2>1, <2>2, <2>3, TellRefines
<1>4. CASE RequestDies(q)
  BY <1>4, <1>a DEF RequestDies, storeVars
<1> QED BY <1>1, <1>2, <1>3, <1>4 DEF Api

\* No other step touches a record or a request.
LEMMA OtherStepsRefine ==
  ASSUME UNCHANGED <<idem, req>>
  PROVE  UNCHANGED Create!vars
BY DEF Create!vars

LEMMA WorkerLeavesRequests ==
  ASSUME NEW e \in Execs, Worker(e)
  PROVE  UNCHANGED <<idem, req>>
<1>1. ASSUME Execute(e) PROVE UNCHANGED <<idem, req>>
  BY <1>1 DEF Execute, Start, SetProgressLoad, SetProgressCommit, SyncMirror, ReadSourceSnapshot,
       ListBranchRefs, ReadCommitHistory, ReadRefRows, ReadCommitRows, Attach, CommitReuse, PublishLoad,
       PublishCommit, FailLoad, FailCommit, FakeStart, FakeLoad, FakeFinish, Return,
       readerUnchanged, storeVars, apiVars
<1> QED BY <1>1 DEF Worker, Deliver, AttemptFails, Escape, Crash, Detach, readerUnchanged,
              storeVars, apiVars

\* TESTING_STRATEGY.md 22: idempotency prevents duplicate jobs, for any keys, clients and faults.
THEOREM AnalysesImplementCreate == Spec => ImplementsIdempotentCreate
<1>1. Init => Create!Init
  BY DEF Init, StoreInit, ApiInit, Create!Init, Create!Bound, NoRecord
<1>2. TypeOK /\ PipelineInv /\ [Next]_vars => [Create!Next]_Create!vars
  <2> SUFFICES ASSUME TypeOK, PipelineInv, [Next]_vars PROVE [Create!Next]_Create!vars
    OBVIOUS
  <2>1. ASSUME NEW q \in Requests, Api(q) PROVE Create!Next
    BY <2>1, ApiStepRefines
  <2>2. ASSUME NEW e \in Execs, Worker(e) PROVE UNCHANGED <<idem, req>>
    BY <2>2, WorkerLeavesRequests
  <2>3. ASSUME NEW r \in Runs, GiveUp(r) PROVE UNCHANGED <<idem, req>>
    BY <2>3 DEF GiveUp, storeVars
  <2>4. ASSUME Push \/ UNCHANGED vars PROVE UNCHANGED <<idem, req>>
    BY <2>4 DEF Push, vars, storeVars, apiVars
  <2> QED BY <2>1, <2>2, <2>3, <2>4, OtherStepsRefine DEF Next
<1> QED BY <1>1, <1>2, TypeCorrect, PipelineCorrect, PTL
       DEF Spec, ImplementsIdempotentCreate, Create!Spec

-----------------------------------------------------------------------------
(* The invariant of the ledger                                              *)

\* Who published a snapshot succeeded.
PublishersSucceeded == \A c \in Commits : Published(c) => run[snapshot[c]].state = "SUCCEEDED"

\* The effect of a step that takes execution e on to another phase.
Continues(e, pc) ==
  /\ exec'[e].pc = pc /\ exec'[e].run = exec[e].run /\ exec'[e].owner = exec[e].owner
  /\ exec'[e].mark = exec[e].mark

LEMMA AttemptFacts ==
  ASSUME TypeOK, PipelineInv, LedgerInv, NEW e \in Execs
  PROVE  /\ exec[e] \in Execution /\ AttemptInv(exec[e])
         /\ exec[e].pc # "idle" => /\ exec[e].run \in Runs /\ run[exec[e].run] \in RunRow
                                   /\ run[exec[e].run].state # "ABSENT"
         /\ \A x : Become(e, x) => exec'[e] = x
BY ExecutionFacts DEF Active, ExecutionInv, LedgerInv

\* A step of one attempt that leaves the other runs, the jobs and the requests alone owes only
\* what the attempt then claims, and that publishers succeeded.
LEMMA OneAttemptMoves ==
  ASSUME TypeOK, PipelineInv, LedgerInv, NEW e \in Execs, NEW x, Become(e, x),
         exec[e].pc # "idle", exec'[e].run = exec[e].run, UNCHANGED <<job, req>>,
         \A r \in Runs \ {exec[e].run} : run'[r] = run[r],
         AttemptInv(exec[e])', PublishersSucceeded'
  PROVE  LedgerInv'
<1>1. \A f \in Execs \ {e} : exec'[f] = exec[f]
  BY DEF Become, TypeOK, WorkerTypeOK
<1>2. ASSUME NEW f \in Execs \ {e} PROVE AttemptInv(exec[f])'
  <2>1. exec[f].pc # "idle" => exec[f].run \in Runs /\ exec[f].run # exec[e].run
    BY AttemptFacts DEF LedgerInv
  <2>2. AttemptInv(exec[f])
    BY DEF LedgerInv
  <2> QED BY <1>1, <2>1, <2>2 DEF AttemptInv, Begun, Loaded
<1>3. \A d \in Execs : \A f \in Execs \ {d} :
        exec'[d].pc # "idle" /\ exec'[f].pc # "idle" => exec'[d].run # exec'[f].run
  BY <1>1 DEF LedgerInv
<1> QED BY <1>2, <1>3 DEF LedgerInv, PublishersSucceeded

\* A step that writes no run and no snapshot leaves the ledger alone.
LEMMA ReaderKeepsLedger ==
  ASSUME TypeOK, PipelineInv, LedgerInv, NEW e \in Execs, NEW x, Become(e, x),
         exec[e].pc # "idle", exec'[e].run = exec[e].run,
         UNCHANGED <<run, snapshot, job, req>>, AttemptInv(exec[e])'
  PROVE  LedgerInv' /\ UNCHANGED Ledger!ledger
<1>1. PublishersSucceeded'
  BY DEF LedgerInv, PublishersSucceeded, Published
<1> QED BY <1>1, OneAttemptMoves DEF Ledger!ledger

\* Going on with or without a row, what becomes of the execution.
LEMMA Continuing ==
  ASSUME TypeOK, PipelineInv, LedgerInv, NEW e \in Execs, NEW pc
  PROVE  /\ Goto(e, pc) => Continues(e, pc) /\ exec'[e].row = exec[e].row
         /\ Load(e, pc) => Continues(e, pc) /\ exec'[e].row = run[exec[e].run]
         /\ \A assigned : CommitRow(e, assigned, pc) => Continues(e, pc)
         /\ \A code : Raise(e, code) => Continues(e, "fail")
<1> DEFINE x == exec[e]
<1>0. x \in Execution /\ \A y : Become(e, y) => exec'[e] = y
  BY AttemptFacts
<1>1. ASSUME Goto(e, pc) PROVE Continues(e, pc) /\ exec'[e].row = exec[e].row
  <2>1. exec'[e] = [x EXCEPT !.pc = pc]
    BY <1>0, <1>1 DEF Goto
  <2> QED BY <1>0, <2>1 DEF Continues, Execution
<1>2. ASSUME Load(e, pc) PROVE Continues(e, pc) /\ exec'[e].row = run[exec[e].run]
  <2>1. exec'[e] = [x EXCEPT !.pc = pc, !.row = run[x.run]]
    BY <1>0, <1>2 DEF Load, Row
  <2> QED BY <1>0, <2>1 DEF Continues, Execution
<1>3. ASSUME NEW assigned, CommitRow(e, assigned, pc) PROVE Continues(e, pc)
  <2>1. exec'[e] = [x EXCEPT !.pc = pc, !.row = NoRow]
    BY <1>0, <1>3 DEF CommitRow
  <2> QED BY <1>0, <2>1 DEF Continues, Execution
<1>4. ASSUME NEW code, Raise(e, code) PROVE Continues(e, "fail")
  <2>1. exec'[e] = [x EXCEPT !.pc = "fail", !.row = NoRow, !.error = code]
    BY <1>0, <1>4 DEF Raise
  <2> QED BY <1>0, <2>1 DEF Continues, Execution
<1> QED BY <1>1, <1>2, <1>3, <1>4

\* A session that commits finds the row as it loaded it: what it assigns is what is stored.
LEMMA RowIsAssigned ==
  ASSUME TypeOK, PipelineInv, LedgerInv, NEW e \in Execs, exec[e].pc # "idle", Loaded(exec[e]),
         NEW assigned \in RunRow, NEW pc, CommitRow(e, assigned, pc)
  PROVE  /\ Continues(e, pc)
         /\ run'[exec[e].run].state = assigned.state /\ run'[exec[e].run].sha = assigned.sha
         /\ \A r \in Runs \ {exec[e].run} : run'[r] = run[r]
<1> DEFINE r == exec[e].run
<1>1. r \in Runs /\ exec[e].row = run[r]
  BY AttemptFacts DEF AttemptInv
<1>2. run' = [run EXCEPT ![r] = Flush(run[r], run[r], assigned)]
  BY <1>1 DEF CommitRow
<1>3. run'[r] = Flush(run[r], run[r], assigned) /\ \A s \in Runs \ {r} : run'[s] = run[s]
  BY <1>1, <1>2 DEF TypeOK, StoreTypeOK
<1>4. /\ Flush(run[r], run[r], assigned).state = assigned.state
      /\ Flush(run[r], run[r], assigned).sha = assigned.sha
  BY DEF Flush, Column
<1> QED BY <1>1, <1>3, <1>4, Continuing

\* What one changed row means for the ledger.
LEMMA RowInLedger ==
  ASSUME TypeOK, TypeOK', NEW r \in Runs, \A s \in Runs \ {r} : run'[s] = run[s]
  PROVE  /\ [s \in Runs |-> run'[s].state] =
              [[s \in Runs |-> run[s].state] EXCEPT ![r] = run'[r].state]
         /\ [s \in Runs |-> run'[s].sha] = [[s \in Runs |-> run[s].sha] EXCEPT ![r] = run'[r].sha]
         /\ run'[r].sha = run[r].sha => [s \in Runs |-> run'[s].sha] = [s \in Runs |-> run[s].sha]
OBVIOUS

\* A row that is committed without a new snapshot advances the ledger or leaves it as it is.
LEMMA RowAdvancesLedger ==
  ASSUME TypeOK, TypeOK', NEW r \in Runs, \A s \in Runs \ {r} : run'[s] = run[s],
         run'[r].sha = run[r].sha, UNCHANGED snapshot,
         \/ run'[r].state = run[r].state
         \/ run[r].state = "ABSENT" /\ run'[r].state = "QUEUED"
         \/ run[r].state = "QUEUED" /\ run'[r].state = "RUNNING"
         \/ run[r].state = "RUNNING" /\ run'[r].state = "FAILED"
  PROVE  [Ledger!Next]_(Ledger!ledger)
<1>1. /\ [s \in Runs |-> run'[s].state] =
           [[s \in Runs |-> run[s].state] EXCEPT ![r] = run'[r].state]
      /\ [s \in Runs |-> run'[s].sha] = [s \in Runs |-> run[s].sha]
  BY RowInLedger
<1>2. CASE run'[r].state = run[r].state
  <2>1. [s \in Runs |-> run'[s].state] = [s \in Runs |-> run[s].state]
    BY <1>1, <1>2
  <2> QED BY <1>1, <2>1 DEF Ledger!ledger
<1>3. CASE run[r].state = "ABSENT" /\ run'[r].state = "QUEUED"
  <2>1. Ledger!Accept(r)
    BY <1>1, <1>3 DEF Ledger!Accept, Ledger!Advance
  <2> QED BY <2>1 DEF Ledger!Next
<1>4. CASE run[r].state = "QUEUED" /\ run'[r].state = "RUNNING"
  <2>1. Ledger!Begin(r)
    BY <1>1, <1>4 DEF Ledger!Begin, Ledger!Advance
  <2> QED BY <2>1 DEF Ledger!Next
<1>5. CASE run[r].state = "RUNNING" /\ run'[r].state = "FAILED"
  <2>1. Ledger!Fail(r)
    BY <1>1, <1>5 DEF Ledger!Fail, Ledger!Advance
  <2> QED BY <2>1 DEF Ledger!Next
<1> QED BY <1>2, <1>3, <1>4, <1>5

\* The phase an attempt that goes on claims no more than it did, unless it loads its row.
LEMMA ContinuingClaims ==
  ASSUME TypeOK, PipelineInv, LedgerInv, NEW e \in Execs, NEW pc, exec[e].pc # "idle", pc # "idle",
         Continues(e, pc), UNCHANGED <<run, job>>,
         Begun(exec[e])' => Begun(exec[e]),
         exec[e].pc \in {"start", "exit"} /\ pc \notin {"start", "exit"} => ~Terminal(run[exec[e].run]),
         Loaded(exec[e])' => exec'[e].row = run[exec[e].run]
  PROVE  AttemptInv(exec[e])'
BY AttemptFacts DEF AttemptInv, Continues, Terminal

\* The steps of a thread that write no run and no snapshot.
LEMMA ReadingKeepsLedger ==
  ASSUME TypeOK, PipelineInv, LedgerInv, NEW e \in Execs, UNCHANGED <<run, snapshot, job, req>>,
         \/ Start(e) \/ SetProgressLoad(e) \/ SyncMirror(e) \/ ReadSourceSnapshot(e)
         \/ ListBranchRefs(e) \/ ReadCommitHistory(e) \/ ReadRefRows(e) \/ ReadCommitRows(e) \/ Attach(e)
         \/ PublishLoad(e) \/ FailLoad(e) \/ FakeLoad(e)
         \/ Begun(exec[e]) /\ \E code : Raise(e, code)
  PROVE  LedgerInv' /\ UNCHANGED Ledger!ledger
<1> DEFINE x == exec[e]
<1>0. /\ x \in Execution /\ AttemptInv(x)
      /\ x.pc # "idle" => x.run \in Runs
      /\ \A y : Become(e, y) => exec'[e] = y
  BY AttemptFacts
<1>1. ASSUME NEW pc, NEW y, Become(e, y), Continues(e, pc), x.pc # "idle", AttemptInv(exec[e])'
      PROVE  LedgerInv' /\ UNCHANGED Ledger!ledger
  BY <1>1, ReaderKeepsLedger DEF Continues
\* A move with or without a load of the row.
<1>2. ASSUME NEW pc, Goto(e, pc) \/ Load(e, pc) \/ \E code : pc = "fail" /\ Raise(e, code),
             x.pc # "idle", pc # "idle", Loaded(exec[e])' => Load(e, pc),
             x.pc \in {"start", "exit"} /\ pc \notin {"start", "exit"} => ~Terminal(run[x.run]),
             Begun(exec[e])' => Begun(x)
      PROVE  LedgerInv' /\ UNCHANGED Ledger!ledger
  <2>1. Continues(e, pc) /\ (Load(e, pc) => exec'[e].row = run[x.run])
    BY <1>2, Continuing
  <2>2. AttemptInv(exec[e])'
    BY <1>2, <2>1, ContinuingClaims
  <2>3. \E y : Become(e, y)
    BY <1>2 DEF Goto, Load, Raise
  <2> QED BY <1>1, <1>2, <2>1, <2>2, <2>3
\* A read that fills other fields.
<1>3. ASSUME NEW pc \in {"refs", "history", "commits", "attach", "mark"}, NEW y, Become(e, y),
             y.pc = pc, y.run = x.run, y.owner = x.owner, Begun(y) => Begun(x), x.pc # "idle",
             x.pc = "start" => ~Terminal(run[x.run]), x.pc # "exit"
      PROVE  LedgerInv' /\ UNCHANGED Ledger!ledger
  <2>1. exec'[e] = y
    BY <1>0, <1>3
  <2>2. exec'[e].pc = pc /\ exec'[e].run = x.run /\ exec'[e].owner = x.owner
    BY <1>3, <2>1
  <2>3. Begun(exec[e])' => Begun(x)
    BY <1>3, <2>1 DEF Begun
  <2>4. AttemptInv(exec[e])'
    BY <1>0, <1>3, <2>2, <2>3 DEF AttemptInv, Loaded, Terminal
  <2> QED BY <1>3, <2>2, <2>4, ReaderKeepsLedger
<1>4. CASE Start(e)
  <2>1. ASSUME Goto(e, "exit") PROVE LedgerInv' /\ UNCHANGED Ledger!ledger
    <3>1. exec'[e].pc = "exit"
      BY <2>1, Continuing DEF Continues
    <3> QED BY <1>2, <1>4, <2>1, <3>1 DEF Start, Begun, Loaded
  <2>2. ASSUME Load(e, "fakeStart"), ~Terminal(Row(e)) PROVE LedgerInv' /\ UNCHANGED Ledger!ledger
    <3>1. exec'[e].pc = "fakeStart"
      BY <2>2, Continuing DEF Continues
    <3> QED BY <1>2, <1>4, <2>2, <3>1 DEF Start, Begun, Loaded, Row
  <2>3. ASSUME Become(e, [x EXCEPT !.pc = "mark", !.mark = 10]), ~Terminal(Row(e))
        PROVE  LedgerInv' /\ UNCHANGED Ledger!ledger
    <3> DEFINE y == [x EXCEPT !.pc = "mark", !.mark = 10]
    <3>1. y.pc = "mark" /\ y.run = x.run /\ y.owner = x.owner /\ y.mark = 10
      BY <1>0 DEF Execution
    <3> HIDE DEF y
    <3>2. x.pc = "start" /\ ~Begun(y)
      BY <1>4, <3>1 DEF Start, Begun
    <3> QED BY <1>3, <2>3, <3>1, <3>2 DEF Row, y
  <2> QED BY <1>4, <2>1, <2>2, <2>3 DEF Start
<1>5. CASE SetProgressLoad(e)
  <2>1. x.pc = "mark" /\ ~Terminal(Row(e)) /\ Load(e, "markCommit")
    BY <1>0, <1>5 DEF SetProgressLoad, AttemptInv, Row
  <2>2. exec'[e].pc = "markCommit" /\ exec'[e].mark = x.mark
    BY <2>1, Continuing DEF Continues
  <2> QED BY <1>2, <2>1, <2>2 DEF Begun, Loaded
<1>6. CASE SyncMirror(e)
  <2>1. x.pc = "fetch" /\ Goto(e, "source")
    BY <1>6 DEF SyncMirror
  <2>2. exec'[e].pc = "source"
    BY <2>1, Continuing DEF Continues
  <2> QED BY <1>2, <2>1, <2>2 DEF Begun, Loaded
<1>7. CASE ReadSourceSnapshot(e)
  <2> DEFINE y == [x EXCEPT !.pc = "refs", !.src = mirror]
  <2>1. y.pc = "refs" /\ y.run = x.run /\ y.owner = x.owner
    BY <1>0 DEF Execution
  <2>2. x.pc = "source" /\ Become(e, y) /\ Begun(x)
    BY <1>7 DEF ReadSourceSnapshot, Begun
  <2> HIDE DEF y
  <2> QED BY <1>3, <2>1, <2>2
<1>8. CASE ListBranchRefs(e)
  <2> DEFINE y == [x EXCEPT !.pc = "history", !.ref = mirror]
  <2>1. y.pc = "history" /\ y.run = x.run /\ y.owner = x.owner
    BY <1>0 DEF Execution
  <2>2. x.pc = "refs" /\ Become(e, y) /\ Begun(x)
    BY <1>8 DEF ListBranchRefs, Begun
  <2> HIDE DEF y
  <2> QED BY <1>3, <2>1, <2>2
<1>9. CASE ReadCommitHistory(e)
  <2> DEFINE y == [x EXCEPT !.pc = "mark", !.mark = 40, !.hist = mirror]
  <2>1. y.pc = "mark" /\ y.run = x.run /\ y.owner = x.owner
    BY <1>0 DEF Execution
  <2>2. x.pc = "history" /\ Become(e, y) /\ Begun(x)
    BY <1>9 DEF ReadCommitHistory, Begun
  <2> HIDE DEF y
  <2> QED BY <1>3, <2>1, <2>2
<1>10. CASE ReadRefRows(e)
  <2> DEFINE y == [x EXCEPT !.pc = "commits", !.knownRef = refHead]
  <2>1. y.pc = "commits" /\ y.run = x.run /\ y.owner = x.owner
    BY <1>0 DEF Execution
  <2>2. x.pc = "rows" /\ Become(e, y) /\ Begun(x)
    BY <1>10 DEF ReadRefRows, Begun
  <2> HIDE DEF y
  <2> QED BY <1>3, <2>1, <2>2
<1>10b. CASE ReadCommitRows(e)
  <2> DEFINE y == [x EXCEPT !.pc = "attach", !.known = stored]
  <2>1. y.pc = "attach" /\ y.run = x.run /\ y.owner = x.owner
    BY <1>0 DEF Execution
  <2>2. x.pc = "commits" /\ Become(e, y) /\ Begun(x)
    BY <1>10b DEF ReadCommitRows, Begun
  <2> HIDE DEF y
  <2> QED BY <1>3, <2>1, <2>2
\* An exception takes the attempt to the except clauses.
<1>11. ASSUME Begun(x), NEW code, Raise(e, code)
       PROVE  LedgerInv' /\ UNCHANGED Ledger!ledger
  <2>1. exec'[e].pc = "fail"
    BY <1>11, Continuing DEF Continues
  <2> QED BY <1>2, <1>11, <2>1 DEF Begun, Loaded
<1>12. CASE Attach(e)
  <2>1. x.pc = "attach"
    BY <1>12 DEF Attach
  <2>2. ASSUME Load(e, "reuse") PROVE LedgerInv' /\ UNCHANGED Ledger!ledger
    <3>1. exec'[e].pc = "reuse"
      BY <2>2, Continuing DEF Continues
    <3> QED BY <1>2, <2>1, <2>2, <3>1 DEF Begun
  <2>3. ASSUME Become(e, [x EXCEPT !.pc = "mark", !.mark = 70])
        PROVE  LedgerInv' /\ UNCHANGED Ledger!ledger
    <3> DEFINE y == [x EXCEPT !.pc = "mark", !.mark = 70]
    <3>1. y.pc = "mark" /\ y.run = x.run /\ y.owner = x.owner
      BY <1>0 DEF Execution
    <3>2. Begun(x) /\ Become(e, y)
      BY <2>1, <2>3 DEF Begun
    <3> HIDE DEF y
    <3> QED BY <1>3, <2>1, <3>1, <3>2
  <2> QED BY <1>11, <1>12, <2>1, <2>2, <2>3 DEF Attach, Begun
<1>13. CASE PublishLoad(e)
  <2>1. x.pc = "load" /\ Load(e, "publish")
    BY <1>13 DEF PublishLoad
  <2>2. exec'[e].pc = "publish"
    BY <2>1, Continuing DEF Continues
  <2> QED BY <1>2, <2>1, <2>2 DEF Begun
<1>14. CASE FailLoad(e)
  <2>1. x.pc = "fail" /\ Load(e, "failCommit")
    BY <1>14 DEF FailLoad
  <2>2. exec'[e].pc = "failCommit"
    BY <2>1, Continuing DEF Continues
  <2> QED BY <1>2, <2>1, <2>2 DEF Begun
<1>15. CASE FakeLoad(e)
  <2>1. x.pc = "fakeLoad" /\ Load(e, "fakeFinish")
    BY <1>15 DEF FakeLoad
  <2>2. exec'[e].pc = "fakeFinish"
    BY <2>1, Continuing DEF Continues
  <2> QED BY <1>2, <2>1, <2>2 DEF Begun
<1> QED BY <1>4, <1>5, <1>6, <1>7, <1>8, <1>9, <1>10, <1>10b, <1>11, <1>12, <1>13, <1>14, <1>15

\* A session that commits its row keeps the invariant.
LEMMA CommitKeepsInv ==
  ASSUME TypeOK, PipelineInv, LedgerInv, NEW e \in Execs, exec[e].pc # "idle", Loaded(exec[e]),
         NEW assigned \in RunRow, NEW pc \in {"fetch", "rows", "load", "exit", "fakeLoad"},
         CommitRow(e, assigned, pc), pc # "exit" => assigned.state = "RUNNING",
         UNCHANGED <<job, req>>,
         \A c \in Commits : \/ snapshot'[c] = snapshot[c]
                            \/ snapshot'[c] = exec[e].run /\ assigned.state = "SUCCEEDED"
  PROVE  LedgerInv'
<1> DEFINE x == exec[e]
<1>1. /\ Continues(e, pc) /\ run'[x.run].state = assigned.state
      /\ \A r \in Runs \ {x.run} : run'[r] = run[r]
  BY RowIsAssigned
<1>2. x.run \in Runs /\ AttemptInv(x)
  BY AttemptFacts
<1>3. AttemptInv(exec[e])'
  BY <1>1, <1>2 DEF AttemptInv, Continues, Loaded, Begun, Terminal
<1>4. ~Terminal(run[x.run])
  BY <1>2 DEF AttemptInv, Loaded
<1>5. PublishersSucceeded'
  <2> SUFFICES ASSUME NEW c \in Commits, snapshot'[c] # NoRun PROVE run'[snapshot'[c]].state = "SUCCEEDED"
    BY DEF PublishersSucceeded, Published
  <2>1. CASE snapshot'[c] = snapshot[c]
    <3>1. snapshot[c] \in Runs /\ run[snapshot[c]].state = "SUCCEEDED"
      BY <2>1 DEF LedgerInv, Published, TypeOK, StoreTypeOK
    <3>2. snapshot[c] # x.run
      BY <1>4, <3>1 DEF Terminal
    <3> QED BY <1>1, <2>1, <3>1, <3>2
  <2>2. CASE snapshot'[c] = x.run /\ assigned.state = "SUCCEEDED"
    BY <1>1, <2>2
  <2> QED BY <2>1, <2>2
<1>6. \E y : Become(e, y)
  BY DEF CommitRow
<1> QED BY <1>1, <1>3, <1>5, <1>6, OneAttemptMoves DEF Continues

\* The row that the session of a published snapshot assigns.
LEMMA SucceededFields ==
  ASSUME TypeOK, NEW e \in Execs
  PROVE  /\ Succeeded(e) \in RunRow
         /\ Succeeded(e).state = "SUCCEEDED" /\ Succeeded(e).sha = exec[e].src
<1>1. exec[e].row \in RunRow /\ exec[e].src \in 0..MaxCommit
  BY ActiveFields DEF TypeOK, WorkerTypeOK, Active
<1>2. Succeeded(e) \in RunRow
  BY <1>1, AssignSuccessType DEF Succeeded
<1> QED BY <1>1, <1>2 DEF Succeeded, RunRow

\* A run succeeds with a commit whose snapshot it publishes, or finds.
LEMMA SuccessInLedger ==
  ASSUME TypeOK, TypeOK', NEW r \in Runs, NEW c \in Commits, \A s \in Runs \ {r} : run'[s] = run[s],
         run[r].state = "RUNNING", run'[r].state = "SUCCEEDED", run'[r].sha = c,
         \/ snapshot[c] = NoRun /\ snapshot' = [snapshot EXCEPT ![c] = r]
         \/ snapshot[c] # NoRun /\ UNCHANGED snapshot
  PROVE  [Ledger!Next]_(Ledger!ledger)
<1>1. /\ [s \in Runs |-> run'[s].state] = [[s \in Runs |-> run[s].state] EXCEPT ![r] = "SUCCEEDED"]
      /\ [s \in Runs |-> run'[s].sha] = [[s \in Runs |-> run[s].sha] EXCEPT ![r] = c]
  BY RowInLedger
<1>2. Ledger!Succeed(r, c)
  BY <1>1 DEF Ledger!Succeed, Ledger!Advance
<1>3. c \in 1..MaxCommit
  BY DEF Commits
<1> QED BY <1>2, <1>3 DEF Ledger!Next, Commits

\* The commits of a thread keep the invariant and are steps of the ledger.
LEMMA CommittingKeepsLedger ==
  ASSUME TypeOK, TypeOK', PipelineInv, LedgerInv, NEW e \in Execs,
         \/ SetProgressCommit(e) \/ CommitReuse(e) \/ PublishCommit(e)
         \/ FailCommit(e) \/ FakeStart(e) \/ FakeFinish(e)
  PROVE  LedgerInv' /\ [Ledger!Next]_(Ledger!ledger)
<1> DEFINE x == exec[e]
<1>0. /\ x \in Active /\ AttemptInv(x)
      /\ x.pc # "idle" => x.run \in Runs
      /\ x.pc # "idle" => run[x.run].state \in {"QUEUED", "RUNNING", "SUCCEEDED", "FAILED"}
  <2>1. x.pc # "idle" => run[x.run].state \in State /\ run[x.run].state # "ABSENT"
    BY AttemptFacts DEF RunRow
  <2> QED BY <2>1, AttemptFacts, ExecutionFacts DEF State
<1>a. /\ x.row \in RunRow /\ x.error \in ErrorCode /\ x.mark \in 0..100 /\ x.src \in 0..MaxCommit
  <2>1. x.mark \in {0, 10, 40, 70}
    BY <1>0, ActiveFields
  <2> QED BY <1>0, <2>1, ActiveFields
\* A row that begins or fails.
<1>1. ASSUME NEW assigned \in RunRow, NEW pc \in {"fetch", "rows", "load", "exit", "fakeLoad"},
             CommitRow(e, assigned, pc), pc # "exit" => assigned.state = "RUNNING",
             Loaded(x), x.pc # "idle", UNCHANGED <<job, req, snapshot>>, assigned.sha = x.row.sha,
             \/ assigned.state = "RUNNING"
             \/ assigned.state = "FAILED" /\ Begun(x)
      PROVE  LedgerInv' /\ [Ledger!Next]_(Ledger!ledger)
  <2>0. UNCHANGED <<job, req>> /\ \A c \in Commits : snapshot'[c] = snapshot[c]
    BY <1>1
  <2>1. LedgerInv'
    BY <1>1, <2>0, CommitKeepsInv
  <2>2. /\ run'[x.run].state = assigned.state /\ run'[x.run].sha = x.row.sha
        /\ \A r \in Runs \ {x.run} : run'[r] = run[r]
    BY <1>1, RowIsAssigned
  <2>3. /\ x.row = run[x.run] /\ run[x.run].state \in {"QUEUED", "RUNNING"}
        /\ Begun(x) => run[x.run].state = "RUNNING"
    BY <1>0, <1>1 DEF AttemptInv, Loaded, Terminal
  <2> QED BY <1>0, <1>1, <2>1, <2>2, <2>3, RowAdvancesLedger
<1>2. CASE SetProgressCommit(e)
  <2> DEFINE a == [x.row EXCEPT !.state = "RUNNING", !.progress = x.mark]
  <2>1. a \in RunRow
    BY <1>a, AssignProgressType
  <2>2. a.sha = x.row.sha /\ a.state = "RUNNING"
    BY <1>a DEF RunRow
  <2>3. AfterMark(x.mark) \in {"fetch", "rows", "load"}
    BY DEF AfterMark
  <2>4. x.pc = "markCommit" /\ CommitRow(e, a, AfterMark(x.mark)) /\ UNCHANGED <<job, req, snapshot>>
    BY <1>2 DEF SetProgressCommit, apiVars
  <2> HIDE DEF a
  <2> QED BY <1>1, <2>1, <2>2, <2>3, <2>4 DEF Loaded
<1>3. CASE FailCommit(e)
  <2> DEFINE a == [x.row EXCEPT !.state = "FAILED", !.error = x.error]
  <2>1. a \in RunRow
    BY <1>a, AssignFailureType
  <2>2. a.sha = x.row.sha /\ a.state = "FAILED"
    BY <1>a DEF RunRow
  <2>3. x.pc = "failCommit" /\ CommitRow(e, a, "exit") /\ UNCHANGED <<job, req, snapshot>>
    BY <1>3 DEF FailCommit, apiVars
  <2> HIDE DEF a
  <2> QED BY <1>1, <2>1, <2>2, <2>3 DEF Loaded, Begun
<1>4. CASE FakeStart(e)
  <2> DEFINE a == [x.row EXCEPT !.state = "RUNNING", !.progress = 25]
  <2>1. a \in RunRow
    <3>1. 25 \in 0..100
      OBVIOUS
    <3> QED BY <1>a, <3>1, AssignProgressType
  <2>2. a.sha = x.row.sha /\ a.state = "RUNNING"
    BY <1>a DEF RunRow
  <2>3. x.pc = "fakeStart" /\ CommitRow(e, a, "fakeLoad") /\ UNCHANGED <<job, req, snapshot>>
    BY <1>4 DEF FakeStart, apiVars
  <2> HIDE DEF a
  <2> QED BY <1>1, <2>1, <2>2, <2>3 DEF Loaded
<1>5. CASE FakeFinish(e)
  <2> DEFINE a == [x.row EXCEPT !.state = "FAILED", !.progress = 100, !.error = "SIMULATED_FAILURE"]
  <2>1. a \in RunRow
    BY <1>a, AssignSimulatedFailureType
  <2>2. a.sha = x.row.sha /\ a.state = "FAILED"
    BY <1>a DEF RunRow
  <2>3. x.pc = "fakeFinish" /\ CommitRow(e, a, "exit") /\ UNCHANGED <<job, req, snapshot>>
    BY <1>5 DEF FakeFinish, apiVars
  <2> HIDE DEF a
  <2> QED BY <1>1, <2>1, <2>2, <2>3 DEF Loaded, Begun
\* A row that succeeds.
<1>6. ASSUME CommitRow(e, Succeeded(e), "exit"), x.pc \in {"reuse", "publish"}, UNCHANGED <<job, req>>,
             \/ snapshot[x.src] = NoRun /\ snapshot' = [snapshot EXCEPT ![x.src] = x.run]
             \/ snapshot[x.src] # NoRun /\ UNCHANGED snapshot
      PROVE  LedgerInv' /\ [Ledger!Next]_(Ledger!ledger)
  <2>1. Loaded(x) /\ Begun(x) /\ x.run \in Runs
    BY <1>0, <1>6 DEF Loaded, Begun
  <2>2. /\ Succeeded(e) \in RunRow
        /\ Succeeded(e).state = "SUCCEEDED" /\ Succeeded(e).sha = x.src
    BY SucceededFields
  <2>3. x.src \in Commits
    BY <1>6, <1>a, ExecutionFacts DEF ExecutionInv, Sourced, Commits
  <2>4. \A c \in Commits : snapshot'[c] = snapshot[c] \/ snapshot'[c] = x.run
    BY <1>6 DEF TypeOK, StoreTypeOK
  <2>5. LedgerInv'
    BY <1>6, <2>1, <2>2, <2>4, CommitKeepsInv
  <2>6. /\ run'[x.run].state = "SUCCEEDED" /\ run'[x.run].sha = x.src
        /\ \A r \in Runs \ {x.run} : run'[r] = run[r]
    BY <1>6, <2>1, <2>2, RowIsAssigned
  <2>7. run[x.run].state = "RUNNING"
    BY <1>0, <1>6, <2>1 DEF AttemptInv
  <2> QED BY <1>6, <2>1, <2>3, <2>5, <2>6, <2>7, SuccessInLedger
<1>r. ASSUME Raise(e, "ANALYSIS_FAILED"), x.pc \in {"reuse", "publish"},
             UNCHANGED <<run, snapshot, job, req>>
      PROVE  LedgerInv' /\ [Ledger!Next]_(Ledger!ledger)
  BY <1>r, ReadingKeepsLedger DEF Begun
<1>7. CASE CommitReuse(e)
  <2>0. x.pc = "reuse" /\ UNCHANGED <<snapshot, job, req>>
    BY <1>7 DEF CommitReuse, apiVars
  <2>1. \/ CommitRow(e, Succeeded(e), "exit")
        \/ Raise(e, "ANALYSIS_FAILED") /\ UNCHANGED run
    BY <1>7 DEF CommitReuse
  <2>2. snapshot[x.src] # NoRun
    BY <2>0, ExecutionFacts DEF ExecutionInv, Published
  <2> QED BY <1>6, <1>r, <2>0, <2>1, <2>2
<1>8. CASE PublishCommit(e)
  <2>1. /\ x.pc = "publish" /\ UNCHANGED <<job, req>>
        /\ \/ /\ CommitRow(e, Succeeded(e), "exit") /\ snapshot[x.src] = NoRun
              /\ snapshot' = [snapshot EXCEPT ![x.src] = x.run]
           \/ Raise(e, "ANALYSIS_FAILED") /\ UNCHANGED <<run, snapshot>>
    BY <1>8 DEF PublishCommit, apiVars, SnapshotConflict, Published
  <2> QED BY <1>6, <1>r, <2>1
<1> QED BY <1>2, <1>3, <1>4, <1>5, <1>7, <1>8

-----------------------------------------------------------------------------
(* The queue and the requests                                               *)

\* An execution that ends hands its job back and writes nothing.
LEMMA ReleasingKeepsLedger ==
  ASSUME TypeOK, PipelineInv, LedgerInv, NEW e \in Execs, exec[e].pc # "idle",
         NEW status \in {"finished", "queued"}, Release(e, status), Become(e, Idle),
         UNCHANGED <<storeVars, req>>
  PROVE  LedgerInv' /\ UNCHANGED Ledger!ledger
<1> DEFINE r == exec[e].run
<1>1. r \in Runs /\ exec[e].owner /\ job[r] = "running"
  BY AttemptFacts DEF AttemptInv
<1>2. job'[r] = status /\ \A s \in Runs \ {r} : job'[s] = job[s]
  BY <1>1 DEF Release, TypeOK, ApiTypeOK
<1>3. exec'[e].pc = "idle" /\ \A f \in Execs \ {e} : exec'[f] = exec[f]
  BY DEF Become, Idle, TypeOK, WorkerTypeOK
<1>4. UNCHANGED <<run, snapshot, req>>
  BY DEF storeVars
<1>5. ASSUME NEW f \in Execs PROVE AttemptInv(exec[f])'
  <2>1. CASE f = e
    BY <1>3, <2>1 DEF AttemptInv
  <2>2. CASE f # e
    <3>1. AttemptInv(exec[f]) /\ exec'[f] = exec[f]
      BY <1>3, <2>2 DEF LedgerInv
    <3>2. exec[f].pc # "idle" => exec[f].run \in Runs \ {r}
      BY <2>2, AttemptFacts DEF LedgerInv
    <3> QED BY <1>2, <1>4, <3>1, <3>2 DEF AttemptInv
  <2> QED BY <2>1, <2>2
<1>6. \A d \in Execs : \A f \in Execs \ {d} :
        exec'[d].pc # "idle" /\ exec'[f].pc # "idle" => exec'[d].run # exec'[f].run
  BY <1>3 DEF LedgerInv
<1>7. ASSUME NEW q \in Requests, req[q].pc = "enqueue" PROVE job'[req[q].run] = "none"
  <2>1. req[q].run \in Runs /\ job[req[q].run] = "none"
    BY <1>7 DEF LedgerInv, PipelineInv, RequestInv
  <2> QED BY <1>1, <1>2, <2>1
<1>8. LedgerInv'
  BY <1>4, <1>5, <1>6, <1>7 DEF LedgerInv, Published
<1> QED BY <1>4, <1>8 DEF Ledger!ledger

LEMMA DeliveringKeepsLedger ==
  ASSUME TypeOK, PipelineInv, LedgerInv, NEW e \in Execs, NEW r \in Runs, Deliver(e, r)
  PROVE  LedgerInv' /\ UNCHANGED Ledger!ledger
<1>1. /\ exec[e].pc = "idle" /\ job[r] = "queued" /\ UNCHANGED <<run, snapshot, req>>
      /\ job'[r] = "running" /\ \A s \in Runs \ {r} : job'[s] = job[s]
  BY DEF Deliver, storeVars, TypeOK, ApiTypeOK
<1>2. exec'[e] = [Idle EXCEPT !.pc = "start", !.run = r, !.owner = TRUE]
  BY AttemptFacts DEF Deliver
<1>3. exec'[e].pc = "start" /\ exec'[e].run = r /\ exec'[e].owner
  BY <1>2 DEF Idle
<1>4. \A f \in Execs \ {e} : exec'[f] = exec[f]
  BY DEF Deliver, Become, TypeOK, WorkerTypeOK
<1>5. ASSUME NEW f \in Execs \ {e}, exec[f].pc # "idle" PROVE exec[f].run \in Runs \ {r}
  BY <1>1, <1>5, AttemptFacts DEF AttemptInv
<1>6. ASSUME NEW f \in Execs PROVE AttemptInv(exec[f])'
  <2>1. CASE f = e
    BY <1>1, <1>3, <2>1 DEF AttemptInv, Begun, Loaded
  <2>2. CASE f # e
    <3>1. AttemptInv(exec[f]) /\ exec'[f] = exec[f]
      BY <1>4, <2>2 DEF LedgerInv
    <3> QED BY <1>1, <1>5, <2>2, <3>1 DEF AttemptInv
  <2> QED BY <2>1, <2>2
<1>7. \A d \in Execs : \A f \in Execs \ {d} :
        exec'[d].pc # "idle" /\ exec'[f].pc # "idle" => exec'[d].run # exec'[f].run
  BY <1>3, <1>4, <1>5 DEF LedgerInv
<1>8. ASSUME NEW q \in Requests, req[q].pc = "enqueue" PROVE job'[req[q].run] = "none"
  <2>1. req[q].run \in Runs /\ job[req[q].run] = "none"
    BY <1>8 DEF LedgerInv, PipelineInv, RequestInv
  <2> QED BY <1>1, <2>1
<1>9. LedgerInv'
  BY <1>1, <1>6, <1>7, <1>8 DEF LedgerInv, Published
<1> QED BY <1>1, <1>9 DEF Ledger!ledger

\* Every step of an execution keeps the ledger, if it does not outlive its delivery.
LEMMA WorkerKeepsLedger ==
  ASSUME TypeOK, TypeOK', PipelineInv, LedgerInv, "detach" \notin Faults,
         NEW e \in Execs, Worker(e)
  PROVE  LedgerInv' /\ [Ledger!Next]_(Ledger!ledger)
<1>1. ASSUME NEW r \in Runs, Deliver(e, r) PROVE LedgerInv' /\ [Ledger!Next]_(Ledger!ledger)
  BY <1>1, DeliveringKeepsLedger
<1>2. ASSUME \/ Start(e) \/ SetProgressLoad(e) \/ SyncMirror(e) \/ ReadSourceSnapshot(e)
             \/ ListBranchRefs(e) \/ ReadCommitHistory(e) \/ ReadRefRows(e) \/ ReadCommitRows(e) \/ Attach(e)
             \/ PublishLoad(e) \/ FailLoad(e) \/ FakeLoad(e)
      PROVE  LedgerInv' /\ [Ledger!Next]_(Ledger!ledger)
  <2>1. UNCHANGED <<run, snapshot, job, req>>
    BY <1>2 DEF Start, SetProgressLoad, SyncMirror, ReadSourceSnapshot, ListBranchRefs,
         ReadCommitHistory, ReadRefRows, ReadCommitRows, Attach, PublishLoad, FailLoad, FakeLoad,
         readerUnchanged, storeVars, apiVars
  <2> QED BY <1>2, <2>1, ReadingKeepsLedger
<1>3. ASSUME Return(e) \/ Crash(e) PROVE LedgerInv' /\ [Ledger!Next]_(Ledger!ledger)
  <2>1. PICK status \in {"finished", "queued"} :
          Release(e, status) /\ Become(e, Idle) /\ exec[e].pc # "idle" /\ UNCHANGED <<storeVars, req>>
    BY <1>3 DEF Return, Crash
  <2> QED BY <2>1, ReleasingKeepsLedger
<1>4. ASSUME Execute(e) PROVE LedgerInv' /\ [Ledger!Next]_(Ledger!ledger)
  BY <1>2, <1>3, <1>4, CommittingKeepsLedger DEF Execute
<1>5. ASSUME AttemptFails(e) PROVE LedgerInv' /\ [Ledger!Next]_(Ledger!ledger)
  <2>1. PICK code \in RaisedIn(exec[e]) : Raise(e, code)
    BY <1>5 DEF AttemptFails
  <2>2. Begun(exec[e])
    BY <2>1 DEF RaisedIn, Begun
  <2>3. UNCHANGED <<run, snapshot, job, req>>
    BY <1>5 DEF AttemptFails, readerUnchanged, storeVars, apiVars
  <2> QED BY <2>1, <2>2, <2>3, ReadingKeepsLedger
<1>6. ASSUME Escape(e) PROVE LedgerInv' /\ [Ledger!Next]_(Ledger!ledger)
  <2>1. exec'[e] = [exec[e] EXCEPT !.pc = "exit", !.row = NoRow] /\ exec[e] \in Execution
    BY <1>6, AttemptFacts DEF Escape
  <2>2. Continues(e, "exit")
    BY <2>1 DEF Continues, Execution
  <2>3. exec[e].pc # "idle" /\ UNCHANGED <<run, snapshot, job, req>> /\ \E x : Become(e, x)
    BY <1>6 DEF Escape, readerUnchanged, storeVars, apiVars
  <2>4. AttemptInv(exec[e])'
    BY <2>2, <2>3, ContinuingClaims DEF Continues, Begun, Loaded
  <2> QED BY <2>2, <2>3, <2>4, ReaderKeepsLedger DEF Continues
<1>7. ~Detach(e)
  BY DEF Detach
<1> QED BY <1>1, <1>3, <1>4, <1>5, <1>6, <1>7 DEF Worker

\* A request that answers, or goes on to its insert, tells the pipeline nothing.
LEMMA AnsweringKeepsLedger ==
  ASSUME TypeOK, PipelineInv, LedgerInv, NEW q \in Requests, UNCHANGED <<run, snapshot, job, exec>>,
         \A p \in Requests \ {q} : req'[p] = req[p], req'[q].pc # "enqueue"
  PROVE  LedgerInv' /\ UNCHANGED Ledger!ledger
<1>1. \A e \in Execs : AttemptInv(exec[e])'
  BY DEF LedgerInv, AttemptInv, Begun, Loaded
<1>2. \A p \in Requests : req'[p].pc = "enqueue" => p # q /\ req'[p] = req[p]
  OBVIOUS
<1>3. ASSUME NEW p \in Requests, req'[p].pc = "enqueue"
      PROVE  /\ job'[req'[p].run] = "none"
             /\ \A o \in Requests \ {p} : req'[o].pc = "enqueue" => req'[o].run # req'[p].run
  BY <1>2, <1>3 DEF LedgerInv
<1>4. LedgerInv'
  BY <1>1, <1>3 DEF LedgerInv, Published
<1> QED BY <1>4 DEF Ledger!ledger

\* Every step of a request keeps the ledger.
LEMMA ApiKeepsLedger ==
  ASSUME TypeOK, TypeOK', PipelineInv, LedgerInv, NEW q \in Requests, Api(q)
  PROVE  LedgerInv' /\ [Ledger!Next]_(Ledger!ledger)
<1>0. /\ req[q] \in Request /\ UNCHANGED exec
      /\ \A e \in Execs : AttemptInv(exec[e])
  BY DEF TypeOK, ApiTypeOK, Api, workerVars, LedgerInv
<1>1. ASSUME NEW k \in Keys, NEW sim \in Simulate, ReceiveCreate(q, k, sim)
      PROVE  LedgerInv' /\ [Ledger!Next]_(Ledger!ledger)
  <2>1. /\ UNCHANGED <<run, snapshot, job>> /\ req'[q].pc \in {"insert", "answered"}
        /\ \A p \in Requests \ {q} : req'[p] = req[p]
    BY <1>1 DEF ReceiveCreate, TypeOK, ApiTypeOK, storeVars
  <2> QED BY <1>0, <2>1, AnsweringKeepsLedger
<1>a. ASSUME NEW outcome, NEW r, Answer(q, outcome, r), UNCHANGED <<run, snapshot, job>>
      PROVE  LedgerInv' /\ [Ledger!Next]_(Ledger!ledger)
  <2>1. req'[q].pc = "answered" /\ \A p \in Requests \ {q} : req'[p] = req[p]
    BY <1>0, <1>a DEF Answer, TypeOK, ApiTypeOK, Request
  <2> QED BY <1>0, <1>a, <2>1, AnsweringKeepsLedger
<1>2. ASSUME NEW r \in Runs, run[r] = NoRow, run' = [run EXCEPT ![r] = NewRun(req[q].simulate)],
             req' = [req EXCEPT ![q] = [@ EXCEPT !.pc = "enqueue", !.run = r]],
             UNCHANGED <<snapshot, job>>
      PROVE  LedgerInv' /\ [Ledger!Next]_(Ledger!ledger)
  <2>1. /\ run[r].state = "ABSENT" /\ run[r].sha = 0
        /\ run'[r].state = "QUEUED" /\ run'[r].sha = 0
        /\ \A s \in Runs \ {r} : run'[s] = run[s]
    BY <1>2 DEF NoRow, NewRun, TypeOK, StoreTypeOK
  <2>2. /\ req'[q].pc = "enqueue" /\ req'[q].run = r
        /\ \A p \in Requests \ {q} : req'[p] = req[p]
    BY <1>0, <1>2 DEF TypeOK, ApiTypeOK, Request
  <2>3. ASSUME NEW e \in Execs PROVE AttemptInv(exec[e])'
    <3>1. exec[e].pc # "idle" => exec[e].run \in Runs \ {r}
      BY <2>1, AttemptFacts
    <3>2. AttemptInv(exec[e]) /\ exec'[e] = exec[e]
      BY <1>0
    <3> QED BY <1>2, <2>1, <3>1, <3>2 DEF AttemptInv, Begun, Loaded
  <2>4. job[r] = "none"
    BY <2>1 DEF PipelineInv
  <2>5. ASSUME NEW p \in Requests, req[p].pc = "enqueue" PROVE req[p].run # r
    <3>0. RequestInv(p)
      BY DEF PipelineInv
    <3>1. /\ req[p].run \in Runs /\ req[p].key \in Keys
          /\ idem[req[p].key].run = req[p].run
      BY <2>5, <3>0 DEF RequestInv
    <3>2. run[req[p].run].state # "ABSENT"
      BY <3>1 DEF PipelineInv, RecordInv
    <3> QED BY <2>1, <3>2
  <2>6. ASSUME NEW p \in Requests, req'[p].pc = "enqueue"
        PROVE  /\ job'[req'[p].run] = "none"
               /\ \A o \in Requests \ {p} : req'[o].pc = "enqueue" => req'[o].run # req'[p].run
    <3>1. CASE p = q
      BY <1>2, <2>2, <2>4, <2>5, <3>1
    <3>2. CASE p # q
      BY <1>2, <2>2, <2>5, <2>6, <3>2 DEF LedgerInv
    <3> QED BY <3>1, <3>2
  <2>7. PublishersSucceeded'
    <3>1. \A c \in Commits : Published(c) => snapshot[c] \in Runs \ {r} /\ run[snapshot[c]].state = "SUCCEEDED"
      BY <2>1 DEF LedgerInv, Published, TypeOK, StoreTypeOK
    <3> QED BY <1>2, <2>1, <3>1 DEF PublishersSucceeded, Published
  <2>8. LedgerInv'
    BY <1>0, <2>3, <2>6, <2>7 DEF LedgerInv, PublishersSucceeded
  <2>9. [Ledger!Next]_(Ledger!ledger)
    BY <1>2, <2>1, RowAdvancesLedger
  <2> QED BY <2>8, <2>9
<1>3. ASSUME CommitCreate(q) PROVE LedgerInv' /\ [Ledger!Next]_(Ledger!ledger)
  <2>1. CASE Answer(q, "error", NoRun) /\ UNCHANGED <<run, idem>>
    BY <1>3, <1>a, <2>1 DEF CommitCreate
  <2> QED BY <1>2, <1>3, <2>1 DEF CommitCreate
<1>4. ASSUME Enqueue(q) PROVE LedgerInv' /\ [Ledger!Next]_(Ledger!ledger)
  <2> DEFINE r == req[q].run
  <2>1. r \in Runs /\ job[r] = "none" /\ req[q].pc = "enqueue"
    BY <1>4 DEF Enqueue, LedgerInv, PipelineInv, RequestInv
  <2>2. UNCHANGED <<run, snapshot>> /\ \A s \in Runs \ {r} : job'[s] = job[s]
    BY <1>4, <2>1 DEF Enqueue, storeVars, TypeOK, ApiTypeOK
  <2>3. req'[q].pc = "answered" /\ \A p \in Requests \ {q} : req'[p] = req[p]
    BY <1>0, <1>4 DEF Enqueue, Answer, TypeOK, ApiTypeOK, Request
  <2>4. ASSUME NEW e \in Execs PROVE AttemptInv(exec[e])'
    <3>1. exec[e].pc # "idle" => exec[e].run \in Runs \ {r}
      BY <1>0, <2>1, AttemptFacts DEF AttemptInv
    <3> QED BY <1>0, <2>2, <3>1 DEF AttemptInv, Begun, Loaded
  <2>5. ASSUME NEW p \in Requests, req'[p].pc = "enqueue"
        PROVE  /\ job'[req'[p].run] = "none"
               /\ \A o \in Requests \ {p} : req'[o].pc = "enqueue" => req'[o].run # req'[p].run
    <3>1. p # q /\ req'[p] = req[p] /\ req[p].pc = "enqueue"
      BY <2>3, <2>5
    <3>2. req[p].run \in Runs \ {r} /\ job[req[p].run] = "none"
      BY <2>1, <3>1 DEF LedgerInv, PipelineInv, RequestInv
    <3>3. \A o \in Requests \ {p} : req'[o].pc = "enqueue" => req'[o] = req[o]
      BY <2>3
    <3> QED BY <2>2, <3>1, <3>2, <3>3 DEF LedgerInv
  <2>6. LedgerInv'
    BY <1>0, <2>2, <2>4, <2>5 DEF LedgerInv, Published
  <2> QED BY <2>2, <2>6 DEF Ledger!ledger
<1>5. ASSUME RequestDies(q) PROVE LedgerInv' /\ [Ledger!Next]_(Ledger!ledger)
  BY <1>5, <1>a DEF RequestDies, storeVars
<1> QED BY <1>1, <1>3, <1>4, <1>5 DEF Api

LEMMA OthersKeepLedger ==
  ASSUME TypeOK, PipelineInv, LedgerInv, UNCHANGED <<run, snapshot, exec, req>>,
         \A r \in Runs : job'[r] = job[r] \/ job[r] = "queued"
  PROVE  LedgerInv' /\ UNCHANGED Ledger!ledger
<1>1. ASSUME NEW e \in Execs PROVE AttemptInv(exec[e])'
  <2>1. AttemptInv(exec[e]) /\ (exec[e].pc # "idle" => exec[e].run \in Runs)
    BY AttemptFacts
  <2> QED BY <2>1 DEF AttemptInv, Begun, Loaded
<1>2. ASSUME NEW q \in Requests, req[q].pc = "enqueue" PROVE job'[req[q].run] = "none"
  <2>1. req[q].run \in Runs /\ job[req[q].run] = "none"
    BY <1>2 DEF LedgerInv, PipelineInv, RequestInv
  <2> QED BY <2>1
<1>3. LedgerInv'
  BY <1>1, <1>2 DEF LedgerInv, Published
<1> QED BY <1>3 DEF Ledger!ledger

LEMMA LedgerStep ==
  ASSUME TypeOK, TypeOK', PipelineInv, LedgerInv, "detach" \notin Faults, [Next]_vars
  PROVE  LedgerInv' /\ [Ledger!Next]_(Ledger!ledger)
<1>1. ASSUME NEW r \in Runs, GiveUp(r) PROVE LedgerInv' /\ [Ledger!Next]_(Ledger!ledger)
  <2>1. \A s \in Runs : job'[s] = job[s] \/ job[s] = "queued"
    BY <1>1 DEF GiveUp, TypeOK, ApiTypeOK
  <2> QED BY <1>1, <2>1, OthersKeepLedger DEF GiveUp, storeVars, workerVars
<1>2. CASE Push \/ UNCHANGED vars
  BY <1>2, OthersKeepLedger DEF Push, vars, storeVars, apiVars, workerVars
<1> QED BY <1>1, <1>2, ApiKeepsLedger, WorkerKeepsLedger DEF Next

\* The invariant of the ledger holds while no attempt outlives its delivery.
THEOREM LedgerCorrect ==
  ASSUME "detach" \notin Faults
  PROVE  Spec => []LedgerInv
<1>1. Init => LedgerInv
  BY DEF Init, StoreInit, ApiInit, WorkerInit, Idle, LedgerInv, AttemptInv, Published
<1>2. TypeOK /\ TypeOK' /\ PipelineInv /\ LedgerInv /\ [Next]_vars => LedgerInv'
  BY LedgerStep
<1> QED BY <1>1, <1>2, TypeCorrect, PipelineCorrect, PTL DEF Spec

\* The pipeline implements the ledger that GET /analyses/{id} and the snapshots show: runs go
\* through their states once, and a commit is published once, by a run that succeeds with it.
\* Any number of attempts, requests, crashes and failures, but no attempt that outlives its
\* delivery.
THEOREM PipelineImplementsLedger ==
  ASSUME "detach" \notin Faults
  PROVE  Spec => ImplementsLedger
<1>1. Init => Ledger!Init
  BY DEF Init, StoreInit, NoRow, Commits, Ledger!Init
<1>2. TypeOK /\ TypeOK' /\ PipelineInv /\ LedgerInv /\ [Next]_vars => [Ledger!Next]_(Ledger!ledger)
  BY LedgerStep
<1> QED BY <1>1, <1>2, TypeCorrect, PipelineCorrect, LedgerCorrect, PTL
       DEF Spec, ImplementsLedger, Ledger!Spec

\* No step touches a terminal row, then: only attempts write to rows that are there, and each to
\* the row of its run as it loaded it.
THEOREM TerminalRunsAreFinal ==
  ASSUME "detach" \notin Faults
  PROVE  Spec => TerminalRunIsFinal
<1> DEFINE Final == \A r \in Runs : Terminal(run[r]) => run'[r] = run[r]
<1>1. ASSUME TypeOK, PipelineInv, LedgerInv, [Next]_vars PROVE Final
  <2>1. ASSUME NEW e \in Execs, Loaded(exec[e]),
               \E assigned, pc : CommitRow(e, assigned, pc)
        PROVE  Final
    <3>0. exec[e].pc \notin {"idle", "start", "exit"}
      BY <2>1 DEF Loaded
    <3>1. ~Terminal(run[exec[e].run]) /\ exec[e].run \in Runs
      BY <1>1, <3>0, AttemptFacts DEF AttemptInv
    <3>2. \A r \in Runs \ {exec[e].run} : run'[r] = run[r]
      BY <1>1, <2>1, <3>1 DEF CommitRow, TypeOK, StoreTypeOK
    <3> QED BY <3>1, <3>2
  <2>2. ASSUME NEW e \in Execs, Execute(e) PROVE Final
    <3>1. UNCHANGED run \/ (Loaded(exec[e]) /\ \E assigned, pc : CommitRow(e, assigned, pc))
      BY <2>2 DEF Execute, Start, SetProgressLoad, SetProgressCommit, SyncMirror, ReadSourceSnapshot,
           ListBranchRefs, ReadCommitHistory, ReadRefRows, ReadCommitRows, Attach, CommitReuse, PublishLoad,
           PublishCommit, FailLoad, FailCommit, FakeStart, FakeLoad, FakeFinish, Return,
           readerUnchanged, storeVars, Loaded
    <3> QED BY <2>1, <3>1
  <2>3. ASSUME NEW e \in Execs, Worker(e) PROVE Final
    BY <2>2, <2>3 DEF Worker, Deliver, AttemptFails, Escape, Crash, Detach, readerUnchanged, storeVars
  <2>4. ASSUME NEW q \in Requests, Api(q) PROVE Final
    <3>1. CASE CommitCreate(q)
      <4>1. UNCHANGED run \/ \E r \in Runs : /\ run[r] = NoRow
                                            /\ \E row : run' = [run EXCEPT ![r] = row]
        BY <3>1 DEF CommitCreate
      <4> QED BY <1>1, <4>1 DEF TypeOK, StoreTypeOK, Terminal, NoRow
    <3> QED BY <2>4, <3>1 DEF Api, ReceiveCreate, Enqueue, RequestDies, storeVars
  <2> QED BY <1>1, <2>3, <2>4 DEF Next, GiveUp, Push, vars, storeVars
<1>2. TypeOK /\ PipelineInv /\ LedgerInv /\ [Next]_vars => [Final]_vars
  BY <1>1
<1> QED BY <1>2, TypeCorrect, PipelineCorrect, LedgerCorrect, PTL DEF Spec, TerminalRunIsFinal

\* structural_analysis.py 615 tells the user the truth then: a failed run published nothing.
THEOREM FailedRunsPublishedNothing ==
  ASSUME "detach" \notin Faults
  PROVE  Spec => []FailedRunPublishedNothing
<1>1. TypeOK /\ LedgerInv => FailedRunPublishedNothing
  BY StoreAssumption DEF LedgerInv, FailedRunPublishedNothing, Published
<1> QED BY <1>1, TypeCorrect, LedgerCorrect, PTL

-----------------------------------------------------------------------------
(* Executions that follow one another                                       *)

\* There is one execution at a time: they follow one another.
Alone == \A d, e \in Execs : d = e

\* What PinnedInv says of an execution.
Pinned(e) ==
  /\ Sourced(exec[e]) => exec[e].src = mirror
  /\ Mined(exec[e]) => exec[e].hist = mirror

\* A move that claims no more of what was read keeps it.
LEMMA MoveKeepsPin ==
  ASSUME NEW e \in Execs, Pinned(e), NEW pc, Moves(e, pc), UNCHANGED mirror,
         Sourced(exec[e])' => Sourced(exec[e]), Mined(exec[e])' => Mined(exec[e])
  PROVE  Pinned(e)'
BY DEF Pinned, Moves

LEMMA ExecuteKeepsPin ==
  ASSUME TypeOK, PipelineInv, NEW e \in Execs, Pinned(e), Execute(e)
  PROVE  Pinned(e)'
<1> DEFINE x == exec[e]
<1>0. x \in Execution /\ \A y : Become(e, y) => exec'[e] = y
  BY ExecutionFacts DEF Active
<1>1. ASSUME NEW pc, \/ Goto(e, pc) \/ Load(e, pc) \/ \E assigned : CommitRow(e, assigned, pc),
             UNCHANGED mirror,
             pc \in {"refs", "history", "rows", "commits", "attach", "reuse", "load", "publish",
                     "mark", "markCommit"} =>
               \/ pc = "markCommit" /\ x.pc = "mark"
               \/ pc = AfterMark(x.mark) /\ x.pc \in {"mark", "markCommit"}
               \/ pc = "reuse" /\ x.pc = "attach"
               \/ pc = "publish" /\ x.pc = "load"
      PROVE  Pinned(e)'
  <2>1. Moves(e, pc)
    BY <1>1, MoveFields
  <2>2. (Sourced(exec[e])' => Sourced(x)) /\ (Mined(exec[e])' => Mined(x))
    BY <1>1, <2>1 DEF Moves, Sourced, Mined, AfterMark
  <2> QED BY <1>1, <2>1, <2>2, MoveKeepsPin
\* A step that leaves the thread where it claims nothing of what it read.
<1>2. ASSUME NEW y, Become(e, y), y.pc \in {"mark", "source", "fail", "exit", "idle"}, y.pc = "mark" => y.mark = 10
      PROVE  Pinned(e)'
  <2>1. exec'[e] = y
    BY <1>0, <1>2
  <2> QED BY <1>2, <2>1 DEF Pinned, Sourced, Mined
<1>3. ASSUME NEW code, Raise(e, code) PROVE Pinned(e)'
  <2> DEFINE y == [x EXCEPT !.pc = "fail", !.row = NoRow, !.error = code]
  <2>1. y.pc = "fail" /\ Become(e, y)
    BY <1>0, <1>3 DEF Raise, Execution
  <2> HIDE DEF y
  <2> QED BY <1>2, <2>1
<1>4. CASE Start(e)
  <2>1. UNCHANGED mirror
    BY <1>4 DEF Start
  <2>2. CASE Become(e, [x EXCEPT !.pc = "mark", !.mark = 10])
    <3> DEFINE y == [x EXCEPT !.pc = "mark", !.mark = 10]
    <3>1. y.pc = "mark" /\ y.mark = 10 /\ Become(e, y)
      BY <1>0, <2>2 DEF Execution
    <3> HIDE DEF y
    <3> QED BY <1>2, <3>1
  <2> QED BY <1>1, <1>4, <2>1, <2>2 DEF Start
<1>5. CASE SetProgressLoad(e)
  BY <1>1, <1>5 DEF SetProgressLoad
<1>6. CASE SetProgressCommit(e)
  BY <1>1, <1>6 DEF SetProgressCommit
<1>7. CASE SyncMirror(e)
  <2> DEFINE y == [x EXCEPT !.pc = "source"]
  <2>1. y.pc = "source" /\ Become(e, y)
    BY <1>0, <1>7 DEF SyncMirror, Goto, Execution
  <2> HIDE DEF y
  <2> QED BY <1>2, <2>1
<1>8. CASE ReadSourceSnapshot(e)
  <2>1. exec'[e] = [x EXCEPT !.pc = "refs", !.src = mirror] /\ UNCHANGED mirror
    BY <1>0, <1>8 DEF ReadSourceSnapshot
  <2>2. exec'[e].pc = "refs" /\ exec'[e].src = mirror
    BY <1>0, <2>1 DEF Execution
  <2> QED BY <2>1, <2>2 DEF Pinned, Mined
<1>9. CASE ListBranchRefs(e)
  <2>1. exec'[e] = [x EXCEPT !.pc = "history", !.ref = mirror] /\ UNCHANGED mirror /\ x.pc = "refs"
    BY <1>0, <1>9 DEF ListBranchRefs
  <2>2. exec'[e].pc = "history" /\ exec'[e].src = x.src
    BY <1>0, <2>1 DEF Execution
  <2> QED BY <2>1, <2>2 DEF Pinned, Mined, Sourced
<1>10. CASE ReadCommitHistory(e)
  <2>1. /\ exec'[e] = [x EXCEPT !.pc = "mark", !.mark = 40, !.hist = mirror]
        /\ UNCHANGED mirror /\ x.pc = "history"
    BY <1>0, <1>10 DEF ReadCommitHistory
  <2>2. exec'[e].src = x.src /\ exec'[e].hist = mirror
    BY <1>0, <2>1 DEF Execution
  <2> QED BY <2>1, <2>2 DEF Pinned, Sourced
<1>11. CASE ReadRefRows(e)
  <2>1. /\ exec'[e] = [x EXCEPT !.pc = "commits", !.knownRef = refHead]
        /\ UNCHANGED mirror /\ x.pc = "rows"
    BY <1>0, <1>11 DEF ReadRefRows
  <2>2. exec'[e].src = x.src /\ exec'[e].hist = x.hist
    BY <1>0, <2>1 DEF Execution
  <2> QED BY <2>1, <2>2 DEF Pinned, Sourced, Mined
<1>11b. CASE ReadCommitRows(e)
  <2>1. /\ exec'[e] = [x EXCEPT !.pc = "attach", !.known = stored]
        /\ UNCHANGED mirror /\ x.pc = "commits"
    BY <1>0, <1>11b DEF ReadCommitRows
  <2>2. exec'[e].src = x.src /\ exec'[e].hist = x.hist
    BY <1>0, <2>1 DEF Execution
  <2> QED BY <2>1, <2>2 DEF Pinned, Sourced, Mined
<1>12. CASE Attach(e)
  <2>1. UNCHANGED mirror /\ x.pc = "attach"
    BY <1>12 DEF Attach
  <2>2. CASE Become(e, [x EXCEPT !.pc = "mark", !.mark = 70])
    <3>1. exec'[e] = [x EXCEPT !.pc = "mark", !.mark = 70]
      BY <1>0, <2>2
    <3>2. exec'[e].src = x.src /\ exec'[e].hist = x.hist
      BY <1>0, <3>1 DEF Execution
    <3> QED BY <2>1, <3>2 DEF Pinned, Sourced, Mined
  <2> QED BY <1>1, <1>3, <1>12, <2>1, <2>2 DEF Attach
<1>13. CASE CommitReuse(e)
  BY <1>1, <1>3, <1>13 DEF CommitReuse
<1>14. CASE PublishLoad(e)
  BY <1>1, <1>14 DEF PublishLoad
<1>15. CASE PublishCommit(e)
  BY <1>1, <1>3, <1>15 DEF PublishCommit
<1>16. CASE FailLoad(e)
  BY <1>1, <1>16 DEF FailLoad
<1>17. CASE FailCommit(e)
  BY <1>1, <1>17 DEF FailCommit
<1>18. CASE FakeStart(e)
  BY <1>1, <1>18 DEF FakeStart
<1>19. CASE FakeLoad(e)
  BY <1>1, <1>19 DEF FakeLoad
<1>20. CASE FakeFinish(e)
  BY <1>1, <1>20 DEF FakeFinish
<1>21. CASE Return(e)
  BY <1>2, <1>21 DEF Return, Idle
<1> QED BY <1>4, <1>5, <1>6, <1>7, <1>8, <1>9, <1>10, <1>11, <1>11b, <1>12, <1>13, <1>14, <1>15, <1>16,
           <1>17, <1>18, <1>19, <1>20, <1>21 DEF Execute

\* What a session cites is of the commit that the execution pinned.
LEMMA CitedIsPinned ==
  ASSUME TypeOK, PipelineInv, NEW e \in Execs, Pinned(e), exec[e].pc \in {"reuse", "publish"}
  PROVE  exec[e].src \in Commits /\ Cited(e) \subseteq 1..exec[e].src
<1>1. /\ exec[e].src \in 0..MaxCommit /\ exec[e].src # 0 /\ exec[e].hist = exec[e].src
  BY ExecutionFacts, ActiveFields DEF Pinned, Sourced, Mined, ExecutionInv
<1>2. exec[e].src \in Commits
  BY <1>1, StoreAssumption DEF Commits
<1> QED BY <1>1, <1>2 DEF Cited, History

LEMMA PinnedStep ==
  ASSUME TypeOK, PipelineInv, PinnedInv, Alone, [Next]_vars
  PROVE  PinnedInv'
<1>0. EvidenceIsOfThePinnedCommit /\ \A e \in Execs : Pinned(e)
  BY DEF PinnedInv, Pinned
<1>1. ASSUME NEW e \in Execs, Worker(e) PROVE Pinned(e)'
  <2>0. exec[e] \in Execution /\ Pinned(e) /\ \A y : Become(e, y) => exec'[e] = y
    BY <1>0, ExecutionFacts DEF Active
  <2>1. CASE Execute(e)
    BY <2>0, <2>1, ExecuteKeepsPin
  <2>2. CASE \E r \in Runs : Deliver(e, r)
    <3>1. exec'[e].pc = "start"
      BY <2>0, <2>2 DEF Deliver, Idle
    <3> QED BY <3>1 DEF Pinned, Sourced, Mined
  <2>3. CASE AttemptFails(e)
    <3>1. PICK code : exec'[e] = [exec[e] EXCEPT !.pc = "fail", !.row = NoRow, !.error = code]
      BY <2>0, <2>3 DEF AttemptFails, Raise
    <3>2. exec'[e].pc = "fail"
      BY <2>0, <3>1 DEF Execution
    <3> QED BY <3>2 DEF Pinned, Sourced, Mined
  <2>4. CASE Escape(e)
    <3>1. exec'[e].pc = "exit"
      BY <2>0, <2>4 DEF Escape, Execution
    <3> QED BY <3>1 DEF Pinned, Sourced, Mined
  <2>5. CASE Crash(e)
    <3>1. exec'[e].pc = "idle"
      BY <2>0, <2>5 DEF Crash, Idle
    <3> QED BY <3>1 DEF Pinned, Sourced, Mined
  <2>6. CASE Detach(e)
    <3>1. exec'[e] = [exec[e] EXCEPT !.owner = FALSE] /\ UNCHANGED mirror
      BY <2>0, <2>6 DEF Detach
    <3>2. Moves(e, exec[e].pc)
      BY <2>0, <3>1 DEF Execution, Moves
    <3>3. (Sourced(exec[e])' => Sourced(exec[e])) /\ (Mined(exec[e])' => Mined(exec[e]))
      BY <3>2 DEF Moves, Sourced, Mined
    <3> QED BY <2>0, <3>1, <3>2, <3>3, MoveKeepsPin
  <2> QED BY <1>1, <2>1, <2>2, <2>3, <2>4, <2>5, <2>6 DEF Worker
<1>2. ASSUME NEW e \in Execs, Worker(e) PROVE EvidenceIsOfThePinnedCommit'
  <2>0. /\ exec[e].pc \in {"reuse", "publish"} =>
             exec[e].src \in Commits /\ Cited(e) \subseteq 1..exec[e].src
        /\ evidence \in [Commits -> SUBSET Commits]
    BY <1>0, CitedIsPinned DEF TypeOK, StoreTypeOK
  <2>1. CASE CommitReuse(e)
    <3> DEFINE src == exec[e].src
    <3>1. PICK cited : /\ cited \subseteq evidence[src] \cup Cited(e)
                       /\ evidence' = [evidence EXCEPT ![src] = cited] \/ evidence' = evidence
      BY <2>1 DEF CommitReuse
    <3>2. cited \subseteq 1..src
      BY <1>0, <2>0, <2>1, <3>1 DEF CommitReuse, EvidenceIsOfThePinnedCommit
    <3>3. \A c \in Commits : evidence'[c] = evidence[c] \/ (c = src /\ evidence'[c] = cited)
      BY <2>0, <3>1
    <3> QED BY <1>0, <3>2, <3>3 DEF EvidenceIsOfThePinnedCommit
  <2>2. CASE PublishCommit(e)
    <3>1. \A c \in Commits : evidence'[c] = evidence[c] \/ (c = exec[e].src /\ evidence'[c] = Cited(e))
      BY <2>0, <2>2 DEF PublishCommit
    <3> QED BY <1>0, <2>0, <2>2, <3>1 DEF EvidenceIsOfThePinnedCommit, PublishCommit
  <2>3. ASSUME ~CommitReuse(e), ~PublishCommit(e) PROVE UNCHANGED evidence
    BY <1>2, <2>3 DEF Worker, Execute, Start, SetProgressLoad, SetProgressCommit, SyncMirror,
         ReadSourceSnapshot, ListBranchRefs, ReadCommitHistory, ReadRefRows, ReadCommitRows, Attach, PublishLoad,
         FailLoad, FailCommit, FakeStart, FakeLoad, FakeFinish, Return, Deliver, AttemptFails,
         Escape, Crash, Detach, readerUnchanged, storeVars
  <2> QED BY <1>0, <2>1, <2>2, <2>3 DEF EvidenceIsOfThePinnedCommit
<1>3. ASSUME NEW e \in Execs, Worker(e) PROVE PinnedInv'
  <2>1. \A d \in Execs : d = e
    BY DEF Alone
  <2>2. Pinned(e)' /\ EvidenceIsOfThePinnedCommit'
    BY <1>1, <1>2, <1>3
  <2> QED BY <2>1, <2>2 DEF PinnedInv, Pinned
<1>4. ASSUME UNCHANGED <<evidence, exec, mirror>> PROVE PinnedInv'
  BY <1>4 DEF PinnedInv, EvidenceIsOfThePinnedCommit, Sourced, Mined
<1>5. ASSUME NEW q \in Requests, Api(q) PROVE UNCHANGED <<evidence, exec, mirror>>
  BY <1>5 DEF Api, ReceiveCreate, CommitCreate, Enqueue, RequestDies, storeVars, workerVars
<1>6. ASSUME Push \/ (\E r \in Runs : GiveUp(r)) \/ UNCHANGED vars PROVE UNCHANGED <<evidence, exec, mirror>>
  BY <1>6 DEF Push, GiveUp, vars, storeVars, workerVars
<1> QED BY <1>3, <1>4, <1>5, <1>6 DEF Next

\* A snapshot cites its commit and ancestors of it, if executions follow one another: any number
\* of runs, pushes and failures, but no fetch of another execution between two git reads.
THEOREM EvidenceIsPinned ==
  ASSUME Alone
  PROVE  Spec => []EvidenceIsOfThePinnedCommit
<1>1. Init => PinnedInv
  BY DEF Init, StoreInit, WorkerInit, Idle, PinnedInv, EvidenceIsOfThePinnedCommit, Sourced, Mined
<1>2. TypeOK /\ PipelineInv /\ PinnedInv /\ [Next]_vars => PinnedInv'
  BY PinnedStep
<1>3. PinnedInv => EvidenceIsOfThePinnedCommit
  BY DEF PinnedInv
<1> QED BY <1>1, <1>2, <1>3, TypeCorrect, PipelineCorrect, PTL DEF Spec

\* What UndisturbedInv says of an execution.
Undisturbed(e) ==
  /\ exec[e].pc \notin {"fail", "failCommit"}
  /\ exec[e].pc \in {"fakeStart", "fakeLoad", "fakeFinish"} => run[exec[e].run].simulate
  /\ exec[e].pc \in {"commits", "attach", "reuse"} => exec[e].knownRef = refHead
  /\ exec[e].pc \in {"attach", "reuse"} => exec[e].known = stored
  /\ Recorded(exec[e]) => ~Published(exec[e].src)

\* Nothing that an execution inserts is there already.
LEMMA NothingConflicts ==
  ASSUME TypeOK, PipelineInv, Commits \subseteq Analyzable, NEW e \in Execs, Undisturbed(e)
  PROVE  /\ exec[e].pc \in {"attach", "reuse"} => ~HistoryConflict(e)
         /\ exec[e].pc = "reuse" => ~EvolutionConflict(e)
         /\ exec[e].pc = "publish" => ~SnapshotConflict(exec[e].src)
<1>1. exec[e].pc \in {"attach", "reuse"} => ~HistoryConflict(e)
  BY DEF Undisturbed, HistoryConflict
<1>2. ASSUME exec[e].pc = "reuse" PROVE ~EvolutionConflict(e)
  <2>1. exec[e].src \in 0..MaxCommit /\ exec[e].src # 0
    BY <1>2, ExecutionFacts, ActiveFields DEF Sourced, ExecutionInv
  <2>2. exec[e].src \in Commits
    BY <2>1, StoreAssumption DEF Commits
  <2> QED BY <2>2 DEF EvolutionConflict, EvolutionPersisted
<1>3. exec[e].pc = "publish" => ~SnapshotConflict(exec[e].src)
  BY DEF Undisturbed, Recorded, SnapshotConflict
<1> QED BY <1>1, <1>2, <1>3

\* The steps of a thread keep what is said of it, and what it writes to a row is no failure unless
\* one was asked for.
LEMMA ExecuteUndisturbed ==
  ASSUME TypeOK, PipelineInv, UndisturbedRunSucceeds, Commits \subseteq Analyzable,
         NEW e \in Execs, Undisturbed(e), Execute(e)
  PROVE  Undisturbed(e)' /\ UndisturbedRunSucceeds'
<1> DEFINE x == exec[e]
<1>0. /\ x \in Execution /\ x.row \in RunRow /\ \A y : Become(e, y) => exec'[e] = y
      /\ x.pc # "idle" => x.run \in Runs /\ run[x.run] \in RunRow
  BY ExecutionFacts, ActiveFields DEF Active
<1>1. UNCHANGED run => UndisturbedRunSucceeds'
  BY DEF UndisturbedRunSucceeds
\* A step that leaves the thread where nothing is claimed.
<1>2. ASSUME NEW y, Become(e, y),
             \/ y.pc \in {"idle", "fetch", "source", "refs", "history", "rows", "exit"}
             \/ y.pc = "mark" /\ y.mark \in {10, 40}
      PROVE  Undisturbed(e)'
  <2>1. exec'[e] = y
    BY <1>0, <1>2
  <2> QED BY <1>2, <2>1 DEF Undisturbed, Recorded
<1>3. ASSUME NEW pc, Goto(e, pc) \/ Load(e, pc) \/ \E assigned : CommitRow(e, assigned, pc)
      PROVE  /\ exec'[e].pc = pc /\ exec'[e].run = x.run /\ exec'[e].mark = x.mark
             /\ exec'[e].src = x.src /\ exec'[e].known = x.known /\ exec'[e].knownRef = x.knownRef
  <2>1. \/ exec'[e] = [x EXCEPT !.pc = pc]
        \/ exec'[e] = [x EXCEPT !.pc = pc, !.row = run[x.run]]
        \/ exec'[e] = [x EXCEPT !.pc = pc, !.row = NoRow]
    BY <1>0, <1>3 DEF Goto, Load, CommitRow, Row
  <2>2. CASE exec'[e] = [x EXCEPT !.pc = pc]
    BY <1>0, <2>2 DEF Execution
  <2>3. CASE exec'[e] = [x EXCEPT !.pc = pc, !.row = run[x.run]]
    BY <1>0, <2>3 DEF Execution
  <2>4. CASE exec'[e] = [x EXCEPT !.pc = pc, !.row = NoRow]
    BY <1>0, <2>4 DEF Execution
  <2> QED BY <2>1, <2>2, <2>3, <2>4
\* What a session that commits a row writes.
<1>4. ASSUME x.pc # "idle", NEW assigned \in RunRow, NEW pc, CommitRow(e, assigned, pc),
             assigned.state = "FAILED" => run[x.run].simulate
      PROVE  UndisturbedRunSucceeds' /\ run'[x.run].simulate = run[x.run].simulate
  <2>1. \A r \in Runs : run'[r] = IF r = x.run THEN Flush(run[r], x.row, assigned) ELSE run[r]
    BY <1>0, <1>4 DEF CommitRow, TypeOK, StoreTypeOK
  <2>2. /\ Flush(run[x.run], x.row, assigned).state \in {run[x.run].state, assigned.state}
        /\ Flush(run[x.run], x.row, assigned).simulate = run[x.run].simulate
    BY DEF Flush, Column
  <2> QED BY <1>0, <1>4, <2>1, <2>2 DEF UndisturbedRunSucceeds
<1>5. CASE Start(e)
  <2>1. x.pc = "start" /\ UNCHANGED run
    BY <1>5 DEF Start, readerUnchanged, storeVars
  <2>2. CASE Become(e, [x EXCEPT !.pc = "mark", !.mark = 10])
    <3> DEFINE y == [x EXCEPT !.pc = "mark", !.mark = 10]
    <3>1. y.pc = "mark" /\ y.mark = 10 /\ Become(e, y)
      BY <1>0, <2>2 DEF Execution
    <3> HIDE DEF y
    <3> QED BY <1>1, <1>2, <2>1, <3>1
  <2>3. CASE Goto(e, "exit")
    BY <1>1, <1>3, <2>1, <2>3 DEF Undisturbed, Recorded
  <2>4. CASE Row(e).simulate /\ Load(e, "fakeStart")
    BY <1>1, <1>3, <2>1, <2>4 DEF Undisturbed, Recorded, Row
  <2> QED BY <1>5, <2>2, <2>3, <2>4 DEF Start
<1>6. CASE SetProgressLoad(e)
  <2>1. /\ x.pc = "mark" /\ UNCHANGED <<run, snapshot>>
        /\ \E pc \in {AfterMark(x.mark), "markCommit"} : Goto(e, pc) \/ Load(e, pc)
    BY <1>6 DEF SetProgressLoad, readerUnchanged, storeVars
  <2> QED BY <1>1, <1>3, <2>1 DEF Undisturbed, Recorded, Published, AfterMark
<1>7. CASE SetProgressCommit(e)
  <2> DEFINE a == [x.row EXCEPT !.state = "RUNNING", !.progress = x.mark]
  <2>1. x.pc = "markCommit" /\ CommitRow(e, a, AfterMark(x.mark)) /\ UNCHANGED snapshot
    BY <1>7 DEF SetProgressCommit
  <2>2. a \in RunRow /\ a.state = "RUNNING"
    <3>1. x.mark \in {0, 10, 40, 70}
      BY <1>0 DEF Execution
    <3>2. x.mark \in 0..100
      BY <3>1
    <3> QED BY <1>0, <3>2, AssignProgressType DEF RunRow
  <2> HIDE DEF a
  <2>3. UndisturbedRunSucceeds'
    BY <1>4, <2>1, <2>2
  <2>4. Undisturbed(e)'
    <3>1. /\ exec'[e].pc = AfterMark(x.mark) /\ exec'[e].mark = x.mark /\ exec'[e].src = x.src
      BY <1>3, <2>1
    <3> QED BY <2>1, <3>1 DEF Undisturbed, Recorded, Published, AfterMark
  <2> QED BY <2>3, <2>4
<1>8. CASE SyncMirror(e) \/ ReadSourceSnapshot(e) \/ ListBranchRefs(e) \/ ReadCommitHistory(e)
  <2>1. UNCHANGED run
    BY <1>8 DEF SyncMirror, ReadSourceSnapshot, ListBranchRefs, ReadCommitHistory, readerUnchanged, storeVars
  <2>2. /\ exec'[e].pc \in {"source", "refs", "history", "mark"}
        /\ exec'[e].pc = "mark" => exec'[e].mark = 40
    <3>1. \/ exec'[e] = [x EXCEPT !.pc = "source"]
          \/ exec'[e] = [x EXCEPT !.pc = "refs", !.src = mirror]
          \/ exec'[e] = [x EXCEPT !.pc = "history", !.ref = mirror]
          \/ exec'[e] = [x EXCEPT !.pc = "mark", !.mark = 40, !.hist = mirror]
      BY <1>0, <1>8 DEF SyncMirror, ReadSourceSnapshot, ListBranchRefs, ReadCommitHistory, Goto
    <3>2. CASE exec'[e] = [x EXCEPT !.pc = "source"]
      BY <1>0, <3>2 DEF Execution
    <3>3. CASE exec'[e] = [x EXCEPT !.pc = "refs", !.src = mirror]
      BY <1>0, <3>3 DEF Execution
    <3>4. CASE exec'[e] = [x EXCEPT !.pc = "history", !.ref = mirror]
      BY <1>0, <3>4 DEF Execution
    <3>5. CASE exec'[e] = [x EXCEPT !.pc = "mark", !.mark = 40, !.hist = mirror]
      BY <1>0, <3>5 DEF Execution
    <3> QED BY <3>1, <3>2, <3>3, <3>4, <3>5
  <2> QED BY <1>1, <2>1, <2>2 DEF Undisturbed, Recorded
<1>9. CASE ReadRefRows(e)
  <2>1. /\ exec'[e] = [x EXCEPT !.pc = "commits", !.knownRef = refHead]
        /\ UNCHANGED <<run, stored, refHead>>
    BY <1>0, <1>9 DEF ReadRefRows, readerUnchanged, storeVars
  <2>2. exec'[e].pc = "commits" /\ exec'[e].knownRef = refHead
    BY <1>0, <2>1 DEF Execution
  <2> QED BY <1>1, <2>1, <2>2 DEF Undisturbed, Recorded
<1>9b. CASE ReadCommitRows(e)
  <2>1. /\ exec'[e] = [x EXCEPT !.pc = "attach", !.known = stored]
        /\ UNCHANGED <<run, stored, refHead>> /\ x.pc = "commits"
    BY <1>0, <1>9b DEF ReadCommitRows, readerUnchanged, storeVars
  <2>2. exec'[e].pc = "attach" /\ exec'[e].known = stored /\ exec'[e].knownRef = x.knownRef
    BY <1>0, <2>1 DEF Execution
  <2>3. x.knownRef = refHead
    BY <2>1 DEF Undisturbed
  <2> QED BY <1>1, <2>1, <2>2, <2>3 DEF Undisturbed, Recorded
<1>10. CASE Attach(e)
  <2>1. x.pc = "attach" /\ UNCHANGED <<run, snapshot>> /\ ~HistoryConflict(e)
    BY <1>10, NothingConflicts DEF Attach
  <2>2. CASE Load(e, "reuse") /\ UNCHANGED <<stored, refHead>>
    BY <1>1, <1>3, <2>1, <2>2 DEF Undisturbed, Recorded
  <2>3. CASE ~Published(x.src) /\ Become(e, [x EXCEPT !.pc = "mark", !.mark = 70])
    <3>1. exec'[e] = [x EXCEPT !.pc = "mark", !.mark = 70]
      BY <1>0, <2>3
    <3>2. exec'[e].pc = "mark" /\ exec'[e].src = x.src
      BY <1>0, <3>1 DEF Execution
    <3> QED BY <1>1, <2>1, <2>3, <3>2 DEF Undisturbed, Published
  <2> QED BY <1>10, <2>1, <2>2, <2>3 DEF Attach
<1>11. CASE CommitReuse(e) \/ PublishCommit(e)
  <2>1. CommitRow(e, Succeeded(e), "exit") /\ x.pc # "idle"
    BY <1>11, NothingConflicts DEF CommitReuse, PublishCommit
  <2>2. UndisturbedRunSucceeds'
    BY <1>4, <2>1, SucceededFields
  <2>3. Undisturbed(e)'
    <3>1. exec'[e].pc = "exit"
      BY <1>3, <2>1
    <3> QED BY <3>1 DEF Undisturbed, Recorded
  <2> QED BY <2>2, <2>3
<1>12. CASE PublishLoad(e)
  <2>1. x.pc = "load" /\ Load(e, "publish") /\ UNCHANGED <<run, snapshot>>
    BY <1>12 DEF PublishLoad, readerUnchanged, storeVars
  <2> QED BY <1>1, <1>3, <2>1 DEF Undisturbed, Recorded, Published
<1>13. CASE FailLoad(e) \/ FailCommit(e)
  BY <1>13 DEF FailLoad, FailCommit, Undisturbed
<1>14. CASE FakeStart(e)
  <2> DEFINE a == [x.row EXCEPT !.state = "RUNNING", !.progress = 25]
  <2>1. x.pc = "fakeStart" /\ CommitRow(e, a, "fakeLoad")
    BY <1>14 DEF FakeStart
  <2>2. a \in RunRow /\ a.state = "RUNNING"
    <3>1. 25 \in 0..100
      OBVIOUS
    <3> QED BY <1>0, <3>1, AssignProgressType DEF RunRow
  <2> HIDE DEF a
  <2>3. UndisturbedRunSucceeds' /\ run'[x.run].simulate = run[x.run].simulate
    BY <1>4, <2>1, <2>2
  <2>4. Undisturbed(e)'
    <3>1. exec'[e].pc = "fakeLoad" /\ exec'[e].run = x.run
      BY <1>3, <2>1
    <3> QED BY <2>1, <2>3, <3>1 DEF Undisturbed, Recorded
  <2> QED BY <2>3, <2>4
<1>15. CASE FakeLoad(e)
  <2>1. x.pc = "fakeLoad" /\ Load(e, "fakeFinish") /\ UNCHANGED run
    BY <1>15 DEF FakeLoad, readerUnchanged, storeVars
  <2> QED BY <1>1, <1>3, <2>1 DEF Undisturbed, Recorded
<1>16. CASE FakeFinish(e)
  <2> DEFINE a == [x.row EXCEPT !.state = "FAILED", !.progress = 100, !.error = "SIMULATED_FAILURE"]
  <2>1. x.pc = "fakeFinish" /\ CommitRow(e, a, "exit")
    BY <1>16 DEF FakeFinish
  <2>2. a \in RunRow
    BY <1>0, AssignSimulatedFailureType
  <2>3. run[x.run].simulate
    BY <2>1 DEF Undisturbed
  <2> HIDE DEF a
  <2>4. UndisturbedRunSucceeds'
    BY <1>4, <2>1, <2>2, <2>3
  <2>5. Undisturbed(e)'
    <3>1. exec'[e].pc = "exit"
      BY <1>3, <2>1
    <3> QED BY <3>1 DEF Undisturbed, Recorded
  <2> QED BY <2>4, <2>5
<1>17. CASE Return(e)
  BY <1>1, <1>2, <1>17 DEF Return, Idle, storeVars
<1> QED BY <1>5, <1>6, <1>7, <1>8, <1>9, <1>9b, <1>10, <1>11, <1>12, <1>13, <1>14, <1>15, <1>16, <1>17 DEF Execute

LEMMA UndisturbedStep ==
  ASSUME TypeOK, PipelineInv, UndisturbedInv, Alone, "attempt" \notin Faults,
         Commits \subseteq Analyzable, [Next]_vars
  PROVE  UndisturbedInv'
<1>0. UndisturbedRunSucceeds /\ \A e \in Execs : Undisturbed(e)
  BY DEF UndisturbedInv, Undisturbed
\* A step of the only execution.
<1>1. ASSUME NEW e \in Execs, Undisturbed(e)', UndisturbedRunSucceeds' PROVE UndisturbedInv'
  <2>1. \A d \in Execs : d = e
    BY DEF Alone
  <2> QED BY <1>1, <2>1 DEF UndisturbedInv, Undisturbed
<1>2. ASSUME NEW e \in Execs, Worker(e) PROVE UndisturbedInv'
  <2>0. exec[e] \in Execution /\ Undisturbed(e) /\ \A y : Become(e, y) => exec'[e] = y
    BY <1>0, ExecutionFacts DEF Active
  <2>1. CASE Execute(e)
    BY <1>0, <1>1, <2>0, <2>1, ExecuteUndisturbed
  <2>r. UNCHANGED run => UndisturbedRunSucceeds'
    BY <1>0 DEF UndisturbedRunSucceeds
  <2>2. ASSUME UNCHANGED run, exec'[e].pc \in {"idle", "start", "exit"} PROVE UndisturbedInv'
    <3>1. Undisturbed(e)'
      BY <2>2 DEF Undisturbed, Recorded
    <3> QED BY <1>1, <2>2, <2>r, <3>1
  <2>3. CASE (\E r \in Runs : Deliver(e, r)) \/ Crash(e)
    <3>1. exec'[e].pc \in {"idle", "start"}
      <4>1. ASSUME Crash(e) PROVE exec'[e].pc = "idle"
        BY <2>0, <4>1 DEF Crash, Idle
      <4>2. ASSUME NEW r \in Runs, Deliver(e, r) PROVE exec'[e].pc = "start"
        BY <2>0, <4>2 DEF Deliver, Idle
      <4> QED BY <2>3, <4>1, <4>2
    <3>2. UNCHANGED run
      BY <2>3 DEF Deliver, Crash, storeVars
    <3> QED BY <2>2, <3>1, <3>2
  <2>4. CASE Escape(e)
    <3>1. exec'[e].pc = "exit"
      BY <2>0, <2>4 DEF Escape, Execution
    <3>2. UNCHANGED run
      BY <2>4 DEF Escape, readerUnchanged, storeVars
    <3> QED BY <2>2, <3>1, <3>2
  <2>5. CASE Detach(e)
    <3>1. exec'[e] = [exec[e] EXCEPT !.owner = FALSE] /\ UNCHANGED <<run, snapshot, stored, refHead>>
      BY <2>0, <2>5 DEF Detach, storeVars
    <3>2. /\ exec'[e].pc = exec[e].pc /\ exec'[e].run = exec[e].run /\ exec'[e].mark = exec[e].mark
          /\ exec'[e].src = exec[e].src /\ exec'[e].known = exec[e].known
          /\ exec'[e].knownRef = exec[e].knownRef
      BY <2>0, <3>1 DEF Execution
    <3>3. Undisturbed(e)'
      BY <2>0, <3>1, <3>2 DEF Undisturbed, Recorded, Published
    <3> QED BY <1>1, <2>r, <3>1, <3>3
  <2>6. ~AttemptFails(e)
    BY DEF AttemptFails
  <2> QED BY <1>2, <2>1, <2>3, <2>4, <2>5, <2>6 DEF Worker
\* A step of another part creates runs at most.
<1>3. ASSUME UNCHANGED <<snapshot, stored, refHead, exec>>,
             \A r \in Runs : run'[r] = run[r] \/ (run[r].state = "ABSENT" /\ run'[r].state = "QUEUED")
      PROVE  UndisturbedInv'
  <2>1. UndisturbedRunSucceeds'
    BY <1>0, <1>3 DEF UndisturbedRunSucceeds
  <2>2. ASSUME NEW e \in Execs PROVE Undisturbed(e)'
    <3>1. exec[e].pc # "idle" => run'[exec[e].run] = run[exec[e].run]
      BY <1>3, ExecutionFacts DEF ExecutionInv
    <3> QED BY <1>0, <1>3, <3>1 DEF Undisturbed, Recorded, Published
  <2> QED BY <2>1, <2>2 DEF UndisturbedInv, Undisturbed
<1>4. ASSUME NEW q \in Requests, Api(q) PROVE UndisturbedInv'
  <2>1. UNCHANGED <<snapshot, stored, refHead, exec>>
    BY <1>4 DEF Api, ReceiveCreate, CommitCreate, Enqueue, RequestDies, storeVars, workerVars
  <2>2. \A r \in Runs : run'[r] = run[r] \/ (run[r].state = "ABSENT" /\ run'[r].state = "QUEUED")
    <3>1. CASE CommitCreate(q)
      <4>1. UNCHANGED run \/ \E r \in Runs : /\ run[r] = NoRow
                                            /\ run' = [run EXCEPT ![r] = NewRun(req[q].simulate)]
        BY <3>1 DEF CommitCreate
      <4>2. NoRow.state = "ABSENT" /\ NewRun(req[q].simulate).state = "QUEUED"
        BY DEF NoRow, NewRun
      <4> QED BY <4>1, <4>2 DEF TypeOK, StoreTypeOK
    <3> QED BY <1>4, <3>1 DEF Api, ReceiveCreate, Enqueue, RequestDies, storeVars
  <2> QED BY <1>3, <2>1, <2>2
<1>5. CASE Push \/ (\E r \in Runs : GiveUp(r)) \/ UNCHANGED vars
  BY <1>3, <1>5 DEF Push, GiveUp, vars, storeVars, workerVars
<1> QED BY <1>2, <1>4, <1>5 DEF Next

\* A run fails only if it was asked to, when executions follow one another, no attempt meets a
\* failure of git or of the database, and every commit has sources: it finds nothing that it
\* inserts, however often a commit is analysed again, and whatever becomes of requests and jobs.
THEOREM UndisturbedRunsSucceed ==
  ASSUME Alone, "attempt" \notin Faults, Commits \subseteq Analyzable
  PROVE  Spec => []UndisturbedRunSucceeds
<1>1. Init => UndisturbedInv
  BY DEF Init, StoreInit, WorkerInit, NoRow, Idle, UndisturbedInv, UndisturbedRunSucceeds, Recorded
<1>2. TypeOK /\ PipelineInv /\ UndisturbedInv /\ [Next]_vars => UndisturbedInv'
  BY UndisturbedStep
<1>3. UndisturbedInv => UndisturbedRunSucceeds
  BY DEF UndisturbedInv
<1> QED BY <1>1, <1>2, <1>3, TypeCorrect, PipelineCorrect, PTL DEF Spec
=============================================================================
