# Verification of the Code Genome analysis platform

TLA+ specifications of the services and packages of this repository, the TLC
configurations that check them on small instances, and the proofs that TLAPS
checks for every instance. Paths are relative to the repository; `A/` stands for
`services/api/code_genome_api/`.

The definitions are translated from the source at the lines that `PROJECT.json`
names under `map`. Libraries and services that the code uses without containing
them (SQLAlchemy's unit of work, arq, Redis, flock, GitHub) are modelled from
how the code uses them and are marked `external` there.

## 1. The system and its parts

| part | state | operations | what is hard | what makes it correct |
| --- | --- | --- | --- | --- |
| Analysis requests: `A/routes/analyses.py`, `A/idempotency.py`, `A/queue.py` | `analysis_runs`, `idempotency_records`, the jobs | create, replay, enqueue | two requests with one key; commit and enqueue are two steps | one run per key, and every answer for the key names it |
| Analysis worker: `services/worker`, `A/services/structural_analysis.py`, `A/services/analysis.py` | the run row, snapshots, evidence, commits, branch refs | sessions that load and commit, git reads, except clauses | at-least-once delivery, threads that outlive their job, rows that are stale at their commit, two runs of one commit | a run succeeds with a published snapshot; snapshots are immutable; what they cite is stored; runs finish |
| Git mirror: `packages/git/.../repository.py` | a bare mirror and a lock file per repository | sync, read, delete | reads are not locked, the lock file is unlinked, processes are killed | one thread at a time; a sync that succeeds leaves a whole mirror; nobody waits forever |
| Registration: `A/routes/repositories.py`, `A/idempotency.py` | `repositories`, `idempotency_records` | create, replay | two keys or two spellings of one source, a retry that overlaps its first request | a source is there once; a key is bound once, and every answer agrees |
| Repository connections: `A/routes/repositories.py`, `A/services/credentials.py` | `repository_connections` | PUT, DELETE, use by an analysis, deletion of the mirror | PUT and DELETE write different columns of one row | what is connected can be decrypted; what is revoked is erased |
| Rate limiter: `A/rate_limit.py`, `A/main.py` | request times per client | allow, prune | the edge of the window, forgotten clients | requests are answered as the sliding window answers them |
| Delivery reports: `A/routes/delivery_reports.py`, `packages/delivery-auditor` | reports, claims, verdicts, unreported changes | parse, create, assess | repeated and concurrent assessment, parsing twice | assessments are whole and final; uncited is uncited |
| Retention: `A/routes/operations.py` | the same, and answers | preview, run, export | deletes under requests that have read | nothing is orphaned |
| Intelligence: `A/routes/intelligence.py`, `A/services/gemini.py`, `packages/intelligence` | `risk_scores`, `grounded_answers`, `answer_feedback` | risk, impact, answer, feedback | a cache that a GET fills, an untrusted model, an upsert | equal answers; citations that resolve; feedback with its answer |
| Genome builder: `packages/genome` | none | resolve imports, build a graph | several files match an import, facts are merged | graphs are closed; no import is lost |
| Graph projection: `A/routes/graph.py`, `A/routes/architecture.py` | none | pages | a snapshot is published between two pages | a client that read all pages has all nodes, and knows when edges are missing |
| Evolution analyzer: `packages/evolution` | none | hotspots, co-changes, module candidates | shares of different maxima, sets that overlap, floors, a window that slides | scores and confidences follow the mined window of the history; modules divide the tree; impact is mutual |
| JavaScript/TypeScript analyzer: `packages/analyzers` | none | parse | the grammar | |
| Dashboard: `apps/web` | component state, requests in flight | select, register, start, poll, load what was published | answers that are late, out of order, or for an earlier selection | the ledger is the selection's and catches up; the latest run is followed; what is published is shown |
| Authentication, workspaces, configuration, health | none | one query per request | | |

How they interact: the API commits a run and enqueues a job; arq delivers it to
a worker, which starts a thread; the thread fetches the mirror with the
credential of the connection, reads it, builds the graph, and publishes a
snapshot in the shared database. Intelligence, the graph pages and the delivery
audit read published rows. Retention deletes reports and answers from under
requests. The dashboard sends requests and shows what their answers held. API requests and worker threads meet in the database only, at READ
COMMITTED, and in the file system, under flock.

## 2. Modules

| module | models | composes or uses |
| --- | --- | --- |
| `AnalysisStore` | the tables of the pipeline; SQLAlchemy's flush of a dirty row | |
| `AnalysisApi` | POST analyses | `AnalysisStore` |
| `AnalysisWorker` | arq and the analysis threads | `AnalysisApi`, `AnalysisStore` |
| `AnalysisSystem` | the pipeline, its properties and fairness | all of them; implements `RunLedger` and `IdempotentCreate` |
| `RunLedger` | abstract: what readers of runs and snapshots are promised | |
| `IdempotentCreate` | abstract: what clients of a creating POST with a key are promised | |
| `Registration` | POST repositories | implements `IdempotentCreate` |
| `Connection` | a credential's life, the thread that uses it, the deletion | |
| `RepositorySystem` | the routes of repositories as a whole | `Registration`, `Connection` |
| `MirrorLock` | the lock file, system call by system call | |
| `RateLimiter` | `FixedWindowLimiter` and the middleware | implements `SlidingWindow` |
| `SlidingWindow` | abstract: what the limiter promises a client | |
| `ClaimParsing` | `parse_claims` as operators on short texts | |
| `DeliveryAudit` | create, assess, retention of reports | |
| `GenomeGraph` | import resolution, the graph of a tree, its pages | |
| `Intelligence` | risk, answers, feedback, retention of answers | |
| `Evolution` | `analyze_evolution`, impact, and the co-changes of an architecture, as operators of a history | |
| `Dashboard` | one browser, its requests, and the server that answers them | |

`MC...` modules give the constants values for TLC. `..._proofs` modules hold
theorems:

| module | theorems about |
| --- | --- |
| `AnalysisSystem_proofs` | the pipeline, with its two refinements |
| `RepositorySystem_proofs` | `Registration`, `Connection` and their composition |
| `MirrorLock_proofs` | `MirrorLock` |
| `DeliveryAudit_proofs` | `DeliveryAudit` |
| `Intelligence_proofs` | `Intelligence` |
| `Clients_proofs` | `RateLimiter` and its refinement, `Dashboard` |
| `Analyses_proofs` | `GenomeGraph`, `Evolution`, `ClaimParsing` |
| `Folds_proofs` | folds over sequences and sets, sums, least numbers: the lemmas that the two above rest on |

How code becomes actions:

* A database session is a step that reads and a step that commits, since other
  sessions can commit in between. A session that reads at one place only, or
  that only inserts, is one step. `Flush` and `Column` have SQLAlchemy's rule:
  an UPDATE names the columns whose value differs from the *loaded* one. That is
  how a stale row is written back in part, and it is in every module with an
  update (`AnalysisStore`, `Connection`, `Intelligence`).
* A unique constraint is a condition under which the commit fails and the
  except clause of the code, or nothing, takes over. Foreign keys are a
  parameter (`ForeignKeys`): PostgreSQL has them, SQLite, the default of
  `A/database.py`, does not.
* arq is `Deliver` (a queued job starts, up to `MaxTries` times), `Crash` (the
  worker is killed, the job is queued again), `Detach` (the job's task is
  cancelled at its timeout or at shutdown, its thread goes on), `Release` and
  `GiveUp`. `Backend` is `queue_backend`: with `inline` the job is a background
  task of the request and runs once.
* Commits of a branch are numbered along its history, so the ancestors of `c`
  are `1..c`. A snapshot is named by the commit it pins.
* What can go wrong is in `Faults`: each run names those that may happen.

`AnalysisWorker`: one action per session half, git read and handler of
`run_structural_analysis`; the phase `pc` of an execution is the place in the
function. `RaisedIn` has, for each phase, the error codes that the except clauses
record, the progress marks inside the `try` included; `Escape` is an exception before the
`try`. `_persist_history` reads the refs and the commits that are stored in two steps
(`ReadRefRows`, `ReadCommitRows`), between which another execution may commit.

`ClaimParsing`: symbols stand for what the expressions of `parse_claims` tell apart. There
are two kinds of whitespace, since `lstrip(" \t-*•")` stops at a no-break space or a form
feed that `strip()` removes.

`DeliveryAudit`: `Unparsable` are the claims whose stored text holds no claim for
`parse_claims`; a request that comes to one raises (`ParseRaises`).

`GenomeGraph`: a path is a sequence of segments with stem and suffix, so that
`with_suffix`, `normpath` and `/` are operators on sequences; ids are hashes of
what they stand for, so a node is its kind, path and line. `Dotted` and `Lower` are
`startswith(".")` and `lower()` of the names there are. A client keeps the nodes and edges
of its pages, and whether one named the limitation. The tree is edited by
file and by import, and `ImportsFollowTheTree` compares the resolution before
and after each edit.

`Intelligence`: the score of a path is a function of the features in its row, so
rows stand for scores. The model may return any subset of the selected
documents, and an id that it made up.

`Registration`: the three queries of `create_repository` are three steps, each
of which sees what was committed before it; the commit that meets one of the two
unique constraints answers 500, as no handler catches it. `RepositorySystem`
lets connections be managed when one registration was accepted, since the steps
of the two commute (`OneRegistration`).

`Evolution`: the state is the history of the branch and the tree. `Mined` is the window of
its last `HistoryLimit` commits, in which merges count although their changes are left out
(`Merge`). What the code computes from the window are operators, and the properties compare
their results before and after a commit, which lets the oldest one of a full window go,
between files, and between the two ends of a relation. Scores are kept as the integers that the fractions of the code are
proportional to.

`Dashboard`: a request is sent, answered from the server's rows, and delivered,
in any order; the dialog can be opened again while a registration is under way, so several
may be. `Render` is a state change of the component with the clean-up of
the effects whose dependencies it changes (`Cancelled`) and the requests that
they send again. The server is as far abstracted as its answers allow: runs
that are queued, run and end, with snapshots numbered by repository.

## 3. What is checked

All runs of `PROJECT.json`, with their bounds. Counts of states are of
this version.

| run | instance | what it shows |
| --- | --- | --- |
| `concurrent` | 2 runs, 2 executions at once, 2 commits, history limit 2, at most 2 tries, failing attempts, crashes, exceptions before the `try` | Snapshots are consistent and immutable, and the pipeline implements `RunLedger` as long as no thread outlives its delivery |
| `redelivery` | 1 run, 2 tries, threads that outlive their jobs, failing attempts, crashes before the last try, fairness | The guarantees that survive zombies: `PipelineInv`, and that every accepted run settles in SUCCEEDED or FAILED |
| `sequential` | 2 clients, 2 keys, 2 bodies, one execution at a time, 3 commits, history limit 2 | POST analyses implements `IdempotentCreate`; repeated analyses reuse the snapshot, succeed, and cite ancestors only |
| `lost_enqueue` | 1 run, 1 client that retries | A **violation**: see section 6 |
| `repositories` | 3 requests, 2 keys, 3 bodies of 2 sources, 2 repositories; then 2 administrators, 1 thread, 3 puts, 3 revocations, failing requests, fetches, deletions | POST repositories implements `IdempotentCreate` and keeps a source once; a connected row has an envelope however PUT and DELETE overlap; requests that do not overlap erase the ciphertext |
| `mirror` | 2 syncs, 1 deletion, 4 inodes, failing git, killed threads | Locks belong to threads at work; every waiter returns; exclusive and whole mirrors until the lock file is unlinked |
| `rate_limiter` | 3 clients, window 3, limit 2, map 2, times up to 7 | `RateLimiter` implements `SlidingWindow`; the map grows by active clients only |
| `analyses` | all texts of up to 6 symbols of 6 kinds, at most 2 claims; histories of up to 4 commits and merges, a window of 3, 3 files, any files with a churn of 1 and some with 20, 2 commits cited, 1 impact | Sentences become claims; spans are right unless a bullet or other whitespace leads the claim, and repeated parsing unless a bullet or a full stop does; co-changes, hotspots, modules and impact follow the window |
| `audit_concurrent` | 2 reports, 2 requests, 3 bodies, one with a claim that does not parse, 2 paths, 2 commits | No orphans; verdicts whole and final; a first assessment that nothing overtook succeeds unless a claim does not parse |
| `intelligence` | 2 requests, 1 user, 1 answer, 2 commits of 2 paths, 2 payloads | Equal risk answers; citations resolve; feedback is whole and goes with its answer |
| `genome` | 4 files of which 2 at first, 8 kinds of import, 3 edits, 2 snapshots, pages of 2 | Closed graphs; imports accounted for; a walk over one snapshot has every node once, and every edge unless a page said that edges between pages are left out |
| `dashboard` | 2 repositories, 2 runs, 2 requests in flight when the user or the interval sends one, polls that fail | The ledger is the selection's and catches up unless somebody outruns the answers; the latest run is followed and what it published is shown, whatever anybody does |

Why the bounds are enough for the interesting cases. Races in this system are
between two actors over one row or file: two requests, two executions, an
administrator and a thread, two syncs and a deletion (a third one is needed for
a new inode to appear between a waiter and its lock, and four inodes let one be
free while each thread holds another). Two commits give an old and a new head,
three give one between that the history limit of two cuts off. Two tries give
one redelivery, beside the zombie of the first. Three requests with two keys are a
race for a key beside a race for a source. A window of three with
times up to seven passes over its edge twice, and two keys in a map of two are
the least that prune. Six symbols are the shortest texts with two claims that
have each a bullet or a blank to strip. Three edits add a file and two
imports of it, or remove it again; two snapshots are what a client can mix up.
Three commits are the fewest in which a pair that is listed changes again, a fourth
one moves the window of three, and a churn of 20 outweighs that of a commit more. Two repositories and two runs
are a selection and a run that can be late for another.

Bounds have names: `MaxCommit`, `MaxTries`, `MaxPuts`, `MaxRevocations`,
`MaxTime`, `MaxLength`, `MaxCommits`, `MaxEdits`, `MaxSnapshots`, `MaxHistory`,
`MaxRepositories`, `MaxRuns`, `MaxInFlight`, and `OneRegistration` in
`RepositorySystem`; `MaxClaims`, `HistoryLimit`, `Limit`, `Window`, `MaximumKeys`,
`EvidenceLimit`, `ImpactLimit`, `ViewLimit`, `CommitLimit` and `PageSize` are limits of the code itself, with smaller values.

Symmetry is used in runs of invariants, action properties and refinements over
interchangeable slots, and in none with a property under fairness.

`CHECK_DEADLOCK FALSE` stands where the system may stop: keys, times, edits or
answers are used up by a bound. A cfg that has it says so.

### Fairness

* `redelivery`: weak fairness of the handlers' commit and enqueue (the request is
  in a server thread), of every step of an execution (it is a thread with a
  core), and of `GiveUp`; **strong** fairness of `Deliver`, since arq polls the
  queue and a slot of the worker becomes free again and again. Nothing is
  assumed of clients, pushes, crashes or failing attempts. Crashes and shutdowns
  that use up the last try are left out of that run: after them the code itself
  never finishes a run (section 6).
* `mirror`: weak fairness of each thread's steps, strong fairness of `flock`,
  since the kernel grants a lock to its waiters in turn.
* `dashboard`: weak fairness of the runs' execution, of the answer and delivery of
  every kind of request but polls, and of the interval; strong fairness of the
  answer and the delivery of polls, which may fail, but not for ever. Nothing is
  assumed of the user and of other browsers.
* `ConnectionPromises.cfg` (section 6): weak fairness of commits, fetches and
  deletions.

## 4. What is proved

TLAPS checks the theorems for every value of the constants, under the
assumptions that the modules name (`StoreAssumption`, `ApiAssumption`,
`WorkerAssumption`, `ConnectionAssumption` and so on: bounds are natural numbers,
absent values are no values). TLC evaluates the assumptions in every run. A theorem that
needs more says so in its own `ASSUME`; section 6 has what happens without. Every
invariant, action property and refinement of the passing runs is stated by a theorem.

**Pipeline** (`AnalysisSystem_proofs`). `TypeCorrect` is
`Spec => []TypeOK`. `PipelineCorrect` proves the inductive invariant
`PipelineInv`. "A succeeded run is published" is not inductive: a thread sets
the state long after it inserted the snapshot, and between two loads of a row
that another attempt writes. `PipelineInv` therefore says of every execution
what its phase implies (`ExecutionInv`: the source is a commit of the
repository, the history it is about to cite is stored, a loaded row is no row
that could be flushed into a wrong success), of every request in flight that its
record is unique (`RequestInv`), of records that they name existing runs
(`RecordInv`), and that jobs belong to runs. Consequences: `SucceededRunsArePublished`,
`CitationsAreStored`, `RunsHaveOneKey`, `AnswersAgree`. All hold with zombies, crashes and
every fault. `AnalysesImplementCreate` is the refinement of
`IdempotentCreate`: the invariant gives that an answer was made from a record that
still stands, and each step binds a key, tells one client, or stutters. `SnapshotsAreImmutable` needs `ReuseAddsNothing`: a history
limit that cuts nothing, or sources in every commit. Otherwise a second run over a
snapshot without module candidates adds evidence that the first did not read.

`PipelineImplementsLedger`, the refinement of `RunLedger`, needs one thing more:
`"detach" \notin Faults`, that no thread outlives its delivery. `LedgerInv` then says that
a run has one execution, which finds the row as it left it (`AttemptInv`), that a run is
queued once, and that whoever published succeeded; each commit of a row is a step of the
ledger since what was loaded is what is stored. `TerminalRunsAreFinal` and
`FailedRunsPublishedNothing` follow. So zombies, and neither crashes, redeliveries nor
failing attempts, are what breaks these two promises (section 6).

Two properties hold for environments only, which the theorems name. `Alone` is one
execution at a time: under it the branch of the mirror stays where an execution pinned it
(`PinnedInv`), which gives `EvidenceIsPinned`. With attempts that do not fail and commits
that have sources, what an execution read of the snapshot's rows stays true until it
writes (`UndisturbedInv`), hence `UndisturbedRunsSucceed`.

**Registration and connection** (`RepositorySystem_proofs`). `RegistrationInv` says that records and
repositories are one to one, that repositories have different sources, and that a
handler past its commit holds what its record names. `UniqueSources` and the
refinement of `IdempotentCreate`, `RegistrationImplementsCreate`, follow for any number
of requests, keys and spellings. `ConnectionInv` adds to "connected has an
envelope" that the envelope a PUT is about to write is newer than any it has
loaded, so that the column is always named by its UPDATE, and that a revocation
loaded a connected row. From it follow `ConnectedCanDecrypt` and, with a second
invariant that a loaded row is the committed one while requests do not overlap,
`SequentialRevocations`. `RepositoriesCorrect` composes them: a step of one part
leaves the rows of the other alone, so each keeps what it keeps by itself.

**Mirror** (`MirrorLock_proofs`). `LocksInv`: the holder of an inode's lock is
a thread at work that has that inode open, also when inodes are unlinked and
reused. `SyncsExclude` adds that there is one lock file as long as nobody
unlinks it, for any number of threads and deletions.

**Delivery audit** (`DeliveryAudit_proofs`). `AuditInv` adds to the properties what a
request in flight has read: an assessment whose parent is still there inserts whole
verdicts. It is stated so that it holds on any database and for any paths: of rows
that retention orphaned it only says that nobody takes them up again. `AssessedWhole`,
`VerdictsStay` and `FirstAssessments` (an assessment raises only after another one or
retention committed, or for a claim that does not parse again) therefore assume nothing. `PurgedReportsAreGone` needs foreign keys;
`UnreportedAreUncited` needs foreign keys and paths without colons (`PlainPaths`).

**Intelligence** (`Intelligence_proofs`). The invariant says that the rows of a
snapshot are all of its risk or none, that whoever scored it holds the same
rows, and that documents on their way into an answer are stored. The unique
constraint does the rest: a conflict can only be with the full set. `RisksAgree` and
`AnswersResolve` follow for any documents, questions, and whatever a model returns, and
with foreign keys `NoOrphanedFeedback`. `SequentialFeedback`: while no two
posts overlap, what a post loaded is still stored when it commits, so that the columns
its UPDATE leaves out have the posted values already.

**Rate limiter** (`Clients_proofs`). `allow` cuts old times from the left of a list and
the specification filters a history, so the two meet in one operator: the part of
a sequence that is after a cutoff is unique when the times are sorted (`LimiterInv`). `LimiterImplementsWindow`
says, client by client, that the limiter's list is the recent part of the promised one,
also when the map was pruned in between; `GrowsByActiveClients` is the promise of the
pruning itself.

**Dashboard** (`Clients_proofs`). "The ledger is the selection's" is not inductive, since
what is in flight will be shown. `BrowserInv` says of each request and answer in flight
what it is whoever did what (`Sound`: the ledgers it carries hold existing runs, once
each), and what it is meant for unless somebody outran the answers (`Meant`). There is a
lemma for each action of the browser and the server; `BrowserCorrect` and
`LedgersAreOfSelections` follow. Requests are a bag: what sending, answering and delivering
do to its domain are lemmas too.

**Genome** (`Analyses_proofs`). `WalkInv` says that the pages a client has read are the first nodes, in
the order of the ids, of the snapshots it read them from, which a publication never
changes, and that a page without the limitation is the whole graph; with it
`WalksAreComplete` for any page size. `GraphsAreClosed`,
`ImportsFollow` and `ImportsAccounted` hold for any tree, symbols and specifiers. `normpath` is a fold
over segments, and that it yields segments is a lemma on folds.

**Evolution** (`Analyses_proofs`). `CoChangesFollow` compares the listed pairs, counts, confidences and
cited commits before and after a commit: its lemmas say what one commit that arrives and one
that leaves do to the commits of a file and of a pair, for any window. `RankingsFollow` goes from sums of churn and
counts to scores: a file that changed whenever another did is never cooler; module
candidates divide the tree. `ImpactFollows` maps the contributions to a file one to one to
those from it, so that scores differ by the direction's tenths only, and shows that
the limit keeps the strongest by the order the code sorts by.

**Claims** (`Analyses_proofs`). Matches of the pattern are apart, hence so are the claims;
`SentencesAreTaken` and `ClaimsAreFound` follow for texts of any length.

**Folds** (`Folds_proofs`). The library's induction theorems take an operator as
parameter, which the provers cannot instantiate. What is needed of them here is
first-order: a set of natural numbers that has an element has a least one, so a property
of partial folds or sums that fails somewhere fails first at a number whose
predecessor has it (`LeastNumber`, `Smallest`). From this come the lemmas on folds over
sequences and sets, and that sums add, are monotone and may be reindexed, which
the theorems on evolution, the genome and the dashboard cite.

**Only model-checked**: liveness, which is beyond the prover: `EveryRunSettles` of the
pipeline, `EveryThreadReturns` of the mirror, and `LatestRunIsFollowed`, `PublishedIsShown` and
`LedgerSettles` of the dashboard. The bounds of their runs are those of section 3.

## 5. What is not modelled

* The queries of `GET /architecture` other than its co-changes, the export of audit
  events, the remaining GETs and the download of reports: they read the rows of one
  session and write nothing.
* The error banner of the dashboard, `IntelligenceConsole`, `DeliveryAuditor` (which
  keeps the report of an earlier selection, as it has no `key`) and the layout.
* Imports of packages and assets in `Evolution`'s relations: nothing leads on from
  them.
* The analyzer of JavaScript and TypeScript: a walk over what tree-sitter returns,
  whose behaviour is the grammar's.
* Authentication, workspaces, configuration: each request is decided from its
  headers and one query, with no state between requests.
* Wording, scores of risk, rationale, materiality, file modes, sizes, and the limits of
  5000 changes and 250 diagnostics.
* Rounding to four places: a confidence or score that the properties call larger may be
  shown as equal when the difference is less.
* What PyDriller makes of a commit whose parent the mirror lacks. `clone_depth` and
  `max_history_commits` are both 200 by default (`A/config.py:17, 23`), so the oldest commit
  that is mined of a longer linear branch is the boundary of a fresh shallow clone.
  `Evolution` gives each commit one diff, which stays the same while it is mined: the diff
  to its parent.

## 6. What the code does not keep

Run `lost_enqueue` shows the one disagreement that the project keeps as a run:

* `create_analysis` commits the run and its record before it enqueues the job
  (`A/routes/analyses.py:105-107`), and a replay of the key returns the run
  without enqueueing it (65-73). A request that dies in between leaves a run that
  no retry starts. ARCHITECTURE.md:63: "Worker crash: idempotency key
  resumes/restarts un-published run."

The properties below are stated in the modules too. Each has a configuration
with which `tlc -config <cfg> <module>` finds the counterexample.

| cfg, module | property | what happens | what is said |
| --- | --- | --- | --- |
| `AnalysisZombies`, `MCAnalysisSystem` | `TerminalRunIsFinal` | A thread that outlived its job writes SUCCEEDED or FAILED over the terminal row of the next attempt (`structural_analysis.py:98, 566-571`) | "Immutable run history" (`genome-dashboard.tsx:383`) |
| the same | `FailedRunPublishedNothing` | The second attempt finds the snapshot that the first one's thread inserted, fails on the constraint and records FAILED | "No partial graph snapshot was published." (`structural_analysis.py:615`) |
| `AnalysisShutdown`, `MCAnalysisSystem` | `EveryRunSettles` | A worker is killed or shut down in the last try of a run: the run stays RUNNING, and nothing looks for it | "Worker crash: idempotency key resumes/restarts un-published run." (ARCHITECTURE.md:63) |
| `AnalysisTornEvidence`, `MCAnalysisSystem` | `EvidenceIsOfThePinnedCommit` | The history is read from the branch, after the mirror's lock is released; another run's fetch moves the branch, and a snapshot cites later commits | "Publish a pinned structural snapshot, or record a safe terminal failure." (`structural_analysis.py:434`) |
| `AnalysisNoSources`, `MCAnalysisSystem` | `UndisturbedRunSucceeds` | A snapshot without analyzable sources has file changes but no candidates; its next analysis inserts them again and fails (`structural_analysis.py:271`) | a repeated run is SUCCEEDED (`tests/test_structural_analysis.py:161-170`) |
| `RegistrationRetry`, `MCRepositorySystem` | `RetryIsAnswered` | A retry that found no record before its first request committed is told 409 REPOSITORY_EXISTS of the repository its own key names (`repositories.py:122-136`) | "Idempotent repository and analysis creation." (README.md:61) |
| `ConnectionPromises`, `Connection` | `RevokedIsErased` | A PUT that loaded the connected row writes the ciphertext but not `revoked_at`; a DELETE in between leaves a revoked row with a ciphertext | "Revocation erases ciphertext" (PILOT.md:26) |
| the same | `RevokedNeverFetches` | The credential is loaded before the fetch (`structural_analysis.py:459`) | "Disconnect/revoke must stop future fetches" (SECURITY.md:23) |
| the same | `QuietRevocationDeletesMirror` | arq keeps a job's result for an hour and refuses its id: a second revocation within it deletes nothing (`queue.py:38`) | "the worker mirror disappears" (PILOT.md:45) |
| `MirrorExclusion`, `MCMirrorLock` | `Exclusion` | The lock file is unlinked after the lock was released: a waiter and the next opener lock different inodes | "a locked, persistent bare GitHub mirror" (`repository.py:251`) |
| `ClaimPromises`, `ClaimParsing` | `SpansAreSource` | For "- -a" the text is "-a", the span starts at the a; after a no-break space the span starts at the space, which `strip()` removed from the text (`auditor.py:25, 26`) | "retain original source spans" (PRD.md:37) |
| the same | `ClaimsParseAgain` | A stored claim, "." of "-." or "-" of "- -", can clean to nothing when it is parsed again; `ValueError`, 500 each time, and no claim of the report gets a verdict (`delivery_reports.py:244`) | "run deterministic verification, 200" (API_SPEC.md:21) |
| `AuditPromises`, `MCDeliveryAudit` | `AssessmentSucceeds` | The second assessment inserts the unreported changes again; 500 (`delivery_reports.py:277`) | "run deterministic verification, 200" (API_SPEC.md:21) |
| the same | `VerifiedHasMatchingDiff` | Terms of the commit's message count like those of the path (`delivery_reports.py:216`) | "A claim with no matching diffs is not marked verified due only to a commit message." (TESTING_STRATEGY.md:23) |
| the same | `UnreportedIsNotCited` | `rsplit(":", 1)` takes what follows the last colon for the path (`delivery_reports.py:253`) | "but not cited by a claim" (286) |
| the same | `ObservedCommitsExist` | Every snapshot has its own rows of file changes; a commit is counted once for each | "Observed in N scoped commit(s)" (286) |
| `AuditSqlite`, `MCDeliveryAudit` | `NoOrphans` | SQLite enforces no foreign keys: an assessment that retention overtook leaves its rows | "reports/answers expire" (PILOT.md:42) |
| `IntelligenceScope`, `MCIntelligence` | `AnswersStayInScope` | An answer offers whatever commits are stored as evidence, also those of a history that is not published yet (`intelligence.py:238`) | "limited to the latest published repository evidence" (`engine.py:111`) |
| `AnalysesTies`, `MCAnalyses` | `ViewIsDetermined` | Pairs with equal counts and one left path are cut by LIMIT in any order (`architecture.py:64`): two requests for one snapshot may show different co-changes | `analyze_evolution` sorts by the right path too (`analyzer.py:36`) |
| `DashboardLate`, `Dashboard` | `LedgerNeverMixes` | The list or the created run of an earlier selection arrives late and is shown for the new one (`genome-dashboard.tsx:140, 208`) | "No analysis runs exist for this repository." (385): the ledger is the selected repository's |
| the same | `TerminalStaysTerminal` | Polls overlap; an older answer is put in front of a newer one (150) | "Immutable run history" (383) |
| the same | `EveryShownRunIsFollowed` | Only the first run of the ledger is polled; one behind it that is not terminal stays as it was listed (146-161) | "live job polling" (README.md:64) |
| the same | `ArchitectureIsShown` | GET architecture answers for the latest snapshot; if that is newer than the run's, the answer is dropped and no architecture is shown (192) | `setArchitecture` for the latest succeeded run (188-200) |

Each of these configurations lists the properties that do not hold; leave one at a
time to see its counterexample.

Without a configuration of their own:

* Every attempt starts over at progress 0.1 (`structural_analysis.py:467`); PRD.md:52
  asks for "resumable progress".
* `create_analysis` queues any number of runs of one repository; API_SPEC.md:70 lists
  "409 ANALYSIS_IN_PROGRESS".
* A line without a full stop that another line follows is no claim
  (`auditor.py:5`); PRD.md:21: "assess each atomic claim".
* Two overlapping posts of feedback can leave the rating of one with the comment of
  the other (`intelligence.py:344`).
* An import that means the root directory (`..` in `src/a.ts`) raises
  `ValueError` in `with_suffix` (`builder.py:67`) and fails the analysis of the
  repository. `./a.test` is taken for an asset when there is no such file, since
  `.test` is no source suffix.
* Files at the top of the tree and those of a directory named `repository-root` share
  a module candidate (`analyzer.py:10`).
* A file that imports itself impacts itself (`engine.py:60`).

## 7. Plan

Written and checked, in this order: the pipeline with its ledger; connections;
the mirror; the rate limiter; claims and the audit; the graph; intelligence;
registration with the idempotent create; the dashboard; evolution and impact.

The theorems came in the order of section 4. Worth doing next:

* The dashboard beside the real pipeline: its server is an abstraction of `RunLedger`'s
  readers, which a refinement of that module would state.
* A specification of what the dashboard promises its user, as `SlidingWindow` is for the
  limiter, with `LedgerSettles` as its fairness.
* The hazards of `PROJECT.json` that no property of a passing run covers are those
  that the code does not guard against (section 6): they become properties once it does.
