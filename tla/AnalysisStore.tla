---------------------------- MODULE AnalysisStore ----------------------------
(***************************************************************************)
(* The tables of one registered repository that the analysis pipeline      *)
(* reads and writes (models.py), and the unit of work through which every  *)
(* writer changes them.  The rows of other repositories and workspaces     *)
(* never meet these: every query of the pipeline filters on both ids.      *)
(*                                                                         *)
(* Commits are numbered along the requested branch, so the ancestors of    *)
(* commit c are 1..c; 0 stands for SQL NULL or for "no row".               *)
(***************************************************************************)
EXTENDS Naturals

CONSTANTS
  Runs,          \* the ids new_id("run") can draw
  Keys,          \* the Idempotency-Key values clients send
  MaxCommit,     \* BOUND: the commits the remote branch can grow to
  HistoryLimit,  \* settings.max_history_commits
  Analyzable,    \* the commits whose tree holds at least one JS/TS source
  NoRun          \* no run id

ASSUME StoreAssumption ==
  /\ MaxCommit \in Nat \ {0}
  /\ HistoryLimit \in Nat \ {0}
  /\ Analyzable \subseteq 1..MaxCommit
  /\ NoRun \notin Runs

VARIABLES
  run,       \* analysis_runs, by id
  idem,      \* idempotency_records of POST /repositories/{id}/analyses, by key
  snapshot,  \* repository_snapshots: the publishing run of each commit
  evidence,  \* file_changes: the commits cited by each snapshot
  stored,    \* repository_commits
  refHead    \* branch_refs.head_sha of the branch

storeVars == <<run, idem, snapshot, evidence, stored, refHead>>

Commits == 1..MaxCommit

State == {"ABSENT", "QUEUED", "RUNNING", "SUCCEEDED", "FAILED"}

ErrorCode == {"NONE", "SIMULATED_FAILURE", "CREDENTIAL_UNAVAILABLE", "GIT_OPERATION_FAILED",
              "REPOSITORY_LIMIT_EXCEEDED", "ANALYSIS_FAILED"}

\* progress is in percent; sha is snapshot_sha.
RunRow == [state: State, progress: 0..100, error: ErrorCode, sha: 0..MaxCommit, simulate: BOOLEAN]

NoRow == [state |-> "ABSENT", progress |-> 0, error |-> "NONE", sha |-> 0, simulate |-> FALSE]

NoRecord == [run |-> NoRun, simulate |-> FALSE]

\* The request fingerprint is its simulate_failure flag: one branch is analysed.
IdempotencyRecord == [run: Runs \cup {NoRun}, simulate: BOOLEAN]

StoreInit ==
  /\ run = [r \in Runs |-> NoRow]
  /\ idem = [k \in Keys |-> NoRecord]
  /\ snapshot = [c \in Commits |-> NoRun]
  /\ evidence = [c \in Commits |-> {}]
  /\ stored = {}
  /\ refHead = 0

StoreTypeOK ==
  /\ run \in [Runs -> RunRow]
  /\ idem \in [Keys -> IdempotencyRecord]
  /\ snapshot \in [Commits -> Runs \cup {NoRun}]
  /\ evidence \in [Commits -> SUBSET Commits]
  /\ stored \in SUBSET Commits
  /\ refHead \in 0..MaxCommit

\* Mutant: one terminal state is forgotten.
TerminalIfSucceeded(row) == row.state = "SUCCEEDED"

Terminal(row) == row.state \in {"SUCCEEDED", "FAILED"}

\* snapshots become visible with published_at set, in the transaction that inserts them.
Published(c) == snapshot[c] # NoRun

\* The commits read_commit_history returns from head h.
History(h) == {c \in 1..h : c + HistoryLimit > h}

(***************************************************************************)
(* SQLAlchemy's unit of work.  A session loads a row, the code assigns to  *)
(* attributes, and the flush UPDATEs only the columns whose value differs  *)
(* from the loaded one; the sessions run at READ COMMITTED and no row      *)
(* carries a version, so a column nobody assigned keeps what other         *)
(* transactions committed since the load.                                  *)
(***************************************************************************)
Column(committed, loaded, assigned) == IF assigned = loaded THEN committed ELSE assigned

Flush(committed, loaded, assigned) ==
  [state    |-> Column(committed.state, loaded.state, assigned.state),
   progress |-> Column(committed.progress, loaded.progress, assigned.progress),
   error    |-> Column(committed.error, loaded.error, assigned.error),
   sha      |-> Column(committed.sha, loaded.sha, assigned.sha),
   simulate |-> committed.simulate]
=============================================================================
