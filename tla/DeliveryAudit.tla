---------------------------- MODULE DeliveryAudit ----------------------------
(***************************************************************************)
(* Delivery reports: they are created with their claims and assessed       *)
(* against the file changes of published snapshots                         *)
(* (routes/delivery_reports.py, auditor.py), and retention deletes the old *)
(* ones (routes/operations.py).                                            *)
(*                                                                         *)
(* Requests run concurrently, each on a database session of its own, at    *)
(* READ COMMITTED.  A report is named by the idempotency key that created  *)
(* it: a key is recorded once and its record outlives the report.          *)
(***************************************************************************)
EXTENDS FiniteSets, Integers

CONSTANTS
  Reports,        \* idempotency keys, and the reports they name
  Requests,       \* concurrent requests
  None,           \* no report
  Claims,         \* what a claim may say
  Bodies,         \* the sets of claims that a report may consist of
  Unparsable,     \* claims such as "-", left of "- -", in which parse_claims finds no claim
  ClaimType,      \* "deployment", "test" or "repository_change"
  ClaimTerms,     \* the terms of a claim's text
  Paths,          \* the paths that change, in the order of their names
  PathTerms,      \* the terms in a path
  LastSegment,    \* what follows the last colon of a path
  MaxCommits,     \* bound: the commits of the repository
  Touched,        \* the paths that a commit changes
  Message,        \* the terms of a commit's message
  Scope,          \* the commits authored in the reports' date range
  EvidenceLimit,  \* 5: candidates cited for a claim
  ForeignKeys     \* TRUE: the database enforces them (PostgreSQL)

Commits == 1..MaxCommits

ASSUME AuditAssumption ==
  /\ None \notin Reports
  /\ MaxCommits \in Nat /\ EvidenceLimit \in Nat
  /\ Paths \subseteq Nat /\ IsFiniteSet(Paths)
  /\ Bodies \subseteq (SUBSET Claims) \ {{}}
  /\ Unparsable \subseteq Claims
  /\ ClaimType \in [Claims -> {"deployment", "test", "repository_change"}]
  /\ Touched \in [Commits -> SUBSET Paths]
  /\ Scope \subseteq Commits
  /\ ForeignKeys \in BOOLEAN

VARIABLES
  recorded,    \* reports that an idempotency record names
  reports,     \* rows of delivery_reports
  claims,      \* for each report, its rows of delivery_claims
  verdicts,    \* for each report, its rows of delivery_assessments
  unreported,  \* for each report, its rows of unreported_changes
  expired,     \* reports that are older than the retention period
  published,   \* heads of the published snapshots
  request      \* what each request is doing

vars == <<recorded, reports, claims, verdicts, unreported, expired, published, request>>

Status == {"VERIFIED", "PARTIALLY_VERIFIED", "NO_SUPPORTING_EVIDENCE", "EXTERNAL_EVIDENCE_REQUIRED"}

\* Evidence is cited as change:sha:path.
Evidence == Commits \X Paths

Verdict == [claim : Claims, status : Status, evidence : SUBSET Evidence]

\* A path nobody cited, and the number of changes its explanation speaks of.
Unreported == [path : Paths, observed : Nat]

Phase == {"idle", "create", "search", "assess", "purge"}

\* The report a request is about, the rows it loaded, and the rows it is going to insert.
Request ==
  {x \in [pc : Phase, report : Reports \cup {None}, claims : SUBSET Claims, heads : SUBSET Commits,
          verdicts : SUBSET Verdict, unreported : SUBSET Unreported, expired : SUBSET Reports] :
     x.pc \in {"create", "search", "assess"} => x.report \in Reports}

Idle == [pc |-> "idle", report |-> None, claims |-> {}, heads |-> {},
         verdicts |-> {}, unreported |-> {}, expired |-> {}]

TypeOK ==
  /\ recorded \subseteq Reports /\ reports \subseteq recorded /\ expired \subseteq recorded
  /\ claims \in [Reports -> SUBSET Claims]
  /\ verdicts \in [Reports -> SUBSET Verdict]
  /\ unreported \in [Reports -> SUBSET Unreported]
  /\ published \subseteq Commits
  /\ request \in [Requests -> Request]

Init ==
  /\ recorded = {} /\ reports = {} /\ expired = {} /\ published = {}
  /\ claims = [r \in Reports |-> {}]
  /\ verdicts = [r \in Reports |-> {}]
  /\ unreported = [r \in Reports |-> {}]
  /\ request = [q \in Requests |-> Idle]

Done(q) == request' = [request EXCEPT ![q] = Idle]

-----------------------------------------------------------------------------
(* Assessing a claim                                                        *)

\* file_changes: a snapshot has the changes of the commits behind its head, so the changes of
\* a commit are stored once for each snapshot that contains it.
Changes(heads) ==
  {c \in [head : heads, sha : Scope, path : Paths] : c.sha <= c.head /\ c.path \in Touched[c.sha]}

\* The terms of a candidate are those of its path and of its commit's message.
Overlap(claim, change) ==
  Cardinality(ClaimTerms[claim] \cap (PathTerms[change.path] \cup Message[change.sha]))

Candidates(claim, changes) == {c \in changes : Overlap(claim, c) > 0}

\* Ranked by score, then by evidence id.
Before(claim, c, d) ==
  \/ Overlap(claim, c) > Overlap(claim, d)
  \/ /\ Overlap(claim, c) = Overlap(claim, d)
     /\ \/ c.sha < d.sha
        \/ c.sha = d.sha /\ c.path < d.path
        \/ c.sha = d.sha /\ c.path = d.path /\ c.head < d.head

Ahead(claim, changes, c) == {d \in Candidates(claim, changes) : Before(claim, d, c)}

\* The ids of the first EvidenceLimit candidates.
Cited(claim, changes) ==
  {<<c.sha, c.path>> :
     c \in {c \in Candidates(claim, changes) : Cardinality(Ahead(claim, changes, c)) < EvidenceLimit}}

Terms(claim) == Cardinality(ClaimTerms[claim])

\* best >= 0.6, best >= 0.25
StatusOf(claim, changes) ==
  CASE ClaimType[claim] # "repository_change" -> "EXTERNAL_EVIDENCE_REQUIRED"
    [] \E c \in Candidates(claim, changes) : 5 * Overlap(claim, c) >= 3 * Terms(claim) -> "VERIFIED"
    [] \E c \in Candidates(claim, changes) : 4 * Overlap(claim, c) >= Terms(claim) ->
         "PARTIALLY_VERIFIED"
    [] OTHER -> "NO_SUPPORTING_EVIDENCE"

AssessClaim(claim, changes) ==
  [claim |-> claim, status |-> StatusOf(claim, changes),
   evidence |-> IF ClaimType[claim] = "deployment" THEN {} ELSE Cited(claim, changes)]

\* evidence.rsplit(":", 1)[-1]
CitedPaths(rows) == {LastSegment[e[2]] : e \in UNION {v.evidence : v \in rows}}

\* One row for each changed path that no verdict cites.
UnreportedOf(changes, cited) ==
  {[path |-> p, observed |-> Cardinality({c \in changes : c.path = p})] :
     p \in {c.path : c \in changes} \ cited}

-----------------------------------------------------------------------------
(* Requests                                                                 *)

\* POST /delivery-reports without a record of its key; a replay only reads.
ReceiveCreate(q) ==
  /\ request[q].pc = "idle"
  /\ \E r \in Reports \ recorded, body \in Bodies :
       request' = [request EXCEPT ![q] = [Idle EXCEPT !.pc = "create", !.report = r, !.claims = body]]
  /\ UNCHANGED <<recorded, reports, claims, verdicts, unreported, expired, published>>

\* uq_idempotency_scope refuses the second commit of a key.
CommitCreate(q) ==
  LET r == request[q].report IN
  /\ request[q].pc = "create"
  /\ IF r \in recorded THEN UNCHANGED <<recorded, reports, claims>>
     ELSE /\ recorded' = recorded \cup {r}
          /\ reports' = reports \cup {r}
          /\ claims' = [claims EXCEPT ![r] = request[q].claims]
  /\ Done(q)
  /\ UNCHANGED <<verdicts, unreported, expired, published>>

\* The report, its claims and the changes in its scope are loaded.
LoadReport(q) ==
  /\ request[q].pc = "idle"
  /\ \E r \in reports :
       request' = [request EXCEPT ![q] =
         [Idle EXCEPT !.pc = "search", !.report = r, !.claims = claims[r], !.heads = published]]
  /\ UNCHANGED <<recorded, reports, claims, verdicts, unreported, expired, published>>

\* Mutant: the evidence of earlier verdicts does not count as cited.
NoneCited(rows) == {}

EarlierCited(rows) == CitedPaths(rows)

\* Mutant: a claim that no change supports is left out.
OnlySupported(c, changes) == Candidates(c, changes) # {}

\* Every claim without a verdict is assessed.
ToAssess(c, changes) == TRUE

\* The verdicts that a request finds, and the claims it finds none of.
Earlier(q) == {v \in verdicts[request[q].report] : v.claim \in request[q].claims}

Open(q) == {c \in request[q].claims : \A v \in Earlier(q) : v.claim # c}

\* Claims that have a verdict are passed over, the others are parsed again and assessed; nothing
\* is committed yet.
Assess(q) ==
  LET changes == Changes(request[q].heads)
      new == {AssessClaim(c, changes) : c \in {c \in Open(q) : ToAssess(c, changes)}}
  IN /\ request[q].pc = "search" /\ Open(q) \cap Unparsable = {}
     /\ request' = [request EXCEPT ![q] =
          [Idle EXCEPT !.pc = "assess", !.report = request[q].report, !.claims = request[q].claims,
             !.verdicts = new,
             !.unreported = UnreportedOf(changes, CitedPaths(new) \cup EarlierCited(Earlier(q)))]]
     /\ UNCHANGED <<recorded, reports, claims, verdicts, unreported, expired, published>>

\* parse_claims raises ValueError for the text of one claim, which no handler catches: the answer
\* is 500, and no claim gets a verdict.
ParseRaises(q) ==
  /\ request[q].pc = "search" /\ Open(q) \cap Unparsable # {}
  /\ Done(q)
  /\ UNCHANGED <<recorded, reports, claims, verdicts, unreported, expired, published>>

\* Mutant: claim_id is not unique.
PathAgain(q) ==
  \E a \in request[q].unreported, b \in unreported[request[q].report] : a.path = b.path

\* claim_id is unique, and so is a path among the unreported changes of a report.
RowAgain(q) ==
  \/ \E a \in request[q].verdicts, b \in verdicts[request[q].report] : a.claim = b.claim
  \/ PathAgain(q)

\* Mutant: claim_id is not a foreign key.
ReportGone(q) ==
  ForeignKeys /\ request[q].unreported # {} /\ request[q].report \notin reports

\* A verdict refers to its claim, an unreported change to its report.
ParentGone(q) ==
  LET r == request[q].report IN
  /\ ForeignKeys
  /\ \/ \E v \in request[q].verdicts : v.claim \notin claims[r]
     \/ request[q].unreported # {} /\ r \notin reports

CommitAssessment(q) ==
  LET r == request[q].report IN
  /\ request[q].pc = "assess" /\ ~RowAgain(q) /\ ~ParentGone(q)
  /\ verdicts' = [verdicts EXCEPT ![r] = verdicts[r] \cup request[q].verdicts]
  /\ unreported' = [unreported EXCEPT ![r] = unreported[r] \cup request[q].unreported]
  /\ Done(q)
  /\ UNCHANGED <<recorded, reports, claims, expired, published>>

\* The commit raises IntegrityError, which no handler catches: the answer is 500.
AssessmentRaises(q) ==
  /\ request[q].pc = "assess" /\ (RowAgain(q) \/ ParentGone(q))
  /\ Done(q)
  /\ UNCHANGED <<recorded, reports, claims, verdicts, unreported, expired, published>>

\* An assessment answers 500.
Raises(q) == ParseRaises(q) \/ AssessmentRaises(q)

\* Retention, not as a dry run.
SelectExpired(q) ==
  /\ request[q].pc = "idle" /\ reports \cap expired # {}
  /\ request' = [request EXCEPT ![q] = [Idle EXCEPT !.pc = "purge", !.expired = reports \cap expired]]
  /\ UNCHANGED <<recorded, reports, claims, verdicts, unreported, expired, published>>

\* The rows that remain when those of some reports are deleted.
Without(rows, gone) == [r \in Reports |-> IF r \in gone THEN {} ELSE rows[r]]

\* Mutant: the reports themselves are kept.
PurgeChildren(q) ==
  /\ request[q].pc = "purge"
  /\ claims' = Without(claims, request[q].expired)
  /\ verdicts' = Without(verdicts, request[q].expired)
  /\ unreported' = Without(unreported, request[q].expired)
  /\ Done(q)
  /\ UNCHANGED <<recorded, reports, expired, published>>

\* The rows of the selected reports are deleted in one transaction.
Purge(q) ==
  /\ request[q].pc = "purge"
  /\ reports' = reports \ request[q].expired
  /\ claims' = Without(claims, request[q].expired)
  /\ verdicts' = Without(verdicts, request[q].expired)
  /\ unreported' = Without(unreported, request[q].expired)
  /\ Done(q)
  /\ UNCHANGED <<recorded, expired, published>>

\* A request ends before its commit.
RequestDies(q) ==
  /\ request[q].pc # "idle"
  /\ Done(q)
  /\ UNCHANGED <<recorded, reports, claims, verdicts, unreported, expired, published>>

Handle(q) ==
  \/ ReceiveCreate(q) \/ CommitCreate(q)
  \/ LoadReport(q) \/ Assess(q) \/ CommitAssessment(q) \/ Raises(q)
  \/ SelectExpired(q) \/ Purge(q)
  \/ RequestDies(q)

-----------------------------------------------------------------------------
(* The rest of the system                                                   *)

\* An analysis publishes a snapshot of a later head.
Publish ==
  /\ \E h \in Commits : (\A g \in published : g < h) /\ published' = published \cup {h}
  /\ UNCHANGED <<recorded, reports, claims, verdicts, unreported, expired, request>>

\* A report passes the retention period.
Expire ==
  /\ \E r \in reports \ expired : expired' = expired \cup {r}
  /\ UNCHANGED <<recorded, reports, claims, verdicts, unreported, published, request>>

Next == Publish \/ Expire \/ \E q \in Requests : Handle(q)

Spec == Init /\ [][Next]_vars

-----------------------------------------------------------------------------
(* Properties                                                               *)

\* PILOT.md 42: "reports/answers expire".  Nothing is left of a report that retention deleted,
\* also if it was being assessed.
NoOrphans ==
  \A r \in Reports \ reports : claims[r] = {} /\ verdicts[r] = {} /\ unreported[r] = {}

Assessed(r) == {v.claim : v \in verdicts[r]}

\* The limitation "Assessment has not run yet." stands for all claims of a report or for none:
\* however assessments overlap, a report is assessed whole or not at all.
AssessmentIsWhole == \A r \in reports : Assessed(r) \in {{}, claims[r]}

\* Whatever is published or requested later, a verdict of a report that is still there stays as
\* it is and stays the only one of its claim.
VerdictsAreFinal ==
  [][\A r \in reports \cap reports' : verdicts[r] # {} => verdicts'[r] = verdicts[r]]_vars

\* "Observed in ... but not cited by a claim." (delivery_reports.py 286): what is shown as
\* unreported is no evidence of a claim of the same report.
UnreportedIsNotCited ==
  \A r \in Reports : \A u \in unreported[r], v \in verdicts[r] : \A e \in v.evidence : e[2] # u.path

\* No path has a colon, so that an evidence id ends in its path.
PlainPaths == \A p \in Paths : LastSegment[p] = p

NoneCites(paths, rows) ==
  PlainPaths => \A u \in paths, v \in rows : \A e \in v.evidence : e[2] # u.path

\* What a request that is under way knows of its report, as long as retention leaves it.
Pending(q) ==
  LET r == request[q].report IN
  /\ request[q].pc = "create" => r \in Reports /\ request[q].claims \in Bodies
  /\ request[q].pc \in {"search", "assess"} =>
       r \in recorded /\ (r \in reports => request[q].claims = claims[r])
  /\ request[q].pc = "assess" =>
       /\ NoneCites(request[q].unreported, request[q].verdicts)
       /\ r \in reports =>
            /\ {v.claim : v \in request[q].verdicts} \in {{}, request[q].claims}
            /\ request[q].verdicts = {} =>
                 verdicts[r] # {} /\ NoneCites(request[q].unreported, verdicts[r])

\* The inductive invariant: nothing is left of a deleted report if the database has foreign
\* keys; a report has claims, is assessed whole or not at all, has unreported changes with its
\* verdicts only, and none that they cite; a request that found all claims assessed found the
\* verdicts that are there for good.
AuditInv ==
  /\ \A r \in Reports \ reports : claims[r] = {}
  /\ \A r \in Reports \ recorded : verdicts[r] = {} /\ unreported[r] = {}
  /\ ForeignKeys => NoOrphans
  /\ AssessmentIsWhole
  /\ \A r \in reports : /\ claims[r] # {} /\ (unreported[r] # {} => verdicts[r] # {})
                        /\ NoneCites(unreported[r], verdicts[r])
  /\ \A q \in Requests : Pending(q)

\* An assessment that answers 500 found its report gone or assessed, or the report has a claim
\* that does not parse: the first assessment of any other report that stays succeeds, whatever
\* was published and requested while it was under way.
FirstAssessmentSucceeds ==
  [][\A q \in Requests :
       Raises(q) =>
         LET r == request[q].report
         IN r \notin reports \/ verdicts[r] # {} \/ claims[r] \cap Unparsable # {}]_vars

\* The same line, "Observed in N scoped commit(s)": N commits changed the path.
ObservedCommitsExist ==
  \A r \in Reports : \A u \in unreported[r] :
    u.observed <= Cardinality({k \in Scope : u.path \in Touched[k]})

\* API_SPEC.md 21: an assessment answers 200.  Asked of one request at a time.
AssessmentSucceeds == [][\A q \in Requests : ~Raises(q)]_vars

\* TESTING_STRATEGY.md 23: "A claim with no matching diffs is not marked verified due only to a
\* commit message."
VerifiedHasMatchingDiff ==
  \A r \in Reports : \A v \in verdicts[r] :
    v.status = "VERIFIED" => \E e \in v.evidence : PathTerms[e[2]] \cap ClaimTerms[v.claim] # {}
=============================================================================
