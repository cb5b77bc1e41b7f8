----------------------------- MODULE Intelligence -----------------------------
(***************************************************************************)
(* What is asked of published snapshots (routes/intelligence.py): risk     *)
(* scores, computed when they are first asked for; grounded answers, with  *)
(* or without a model behind them; feedback on an answer; and retention,   *)
(* which deletes old answers (routes/operations.py).                       *)
(*                                                                         *)
(* Requests run concurrently, each on a database session of its own, at    *)
(* READ COMMITTED.  A snapshot is named by the commit it pins, and commits *)
(* are numbered in the order of the history.                               *)
(***************************************************************************)
EXTENDS FiniteSets, Integers

CONSTANTS
  Requests,       \* concurrent requests
  Answers,        \* ids of answers, each drawn once
  Users,
  None,           \* no row, no answer
  MaxCommits,     \* bound: the commits of the repository
  Paths,          \* the paths that change, in the order of their names
  Touched,        \* the paths that a commit changes
  Churn,          \* the lines that a commit adds and deletes
  Modules,        \* the directories of the files at a commit
  Questions,      \* what may be asked
  Recent,         \* the questions that ask for recent changes
  QuestionTerms,  \* the terms of a question
  Terms,          \* the terms of a document
  Limit,          \* 5: documents selected for an answer
  CommitLimit,    \* 200: commits offered as documents
  Model,          \* TRUE: an API key of Gemini is configured
  Payloads,       \* ratings and comments of feedback
  ForeignKeys     \* TRUE: the database enforces them (PostgreSQL)

Commits == 1..MaxCommits

Payload == [rating : {p.rating : p \in Payloads}, comment : {p.comment : p \in Payloads}]

ASSUME IntelligenceAssumption ==
  /\ MaxCommits \in Nat /\ Limit \in Nat /\ CommitLimit \in Nat
  /\ Touched \in [Commits -> SUBSET Paths]
  /\ Payloads \subseteq Payload
  /\ Churn \in [Commits -> Nat]
  /\ Recent \subseteq Questions
  /\ Model \in BOOLEAN /\ ForeignKeys \in BOOLEAN

VARIABLES
  stored,     \* the newest commit of repository_commits
  latest,     \* the snapshot that was published last, 0 before there is one
  risk,       \* for each snapshot, its rows of risk_scores
  told,       \* the risk answers that were given, each with its snapshot
  answers,    \* grounded_answers
  old,        \* answers past the retention period
  feedback,   \* for each answer and user, the row of answer_feedback
  posted,     \* for each answer and user, what was posted as feedback
  request     \* what each request is doing

vars == <<stored, latest, risk, told, answers, old, feedback, posted, request>>

-----------------------------------------------------------------------------
(* Risk scores                                                              *)

\* The commits of a snapshot's history that change a path.
Changing(s, p) == {k \in 1..s : p \in Touched[k]}

\* The paths with a hotspot.
Hot(s) == {p \in Paths : Changing(s, p) # {}}

\* The share of a path in the churn of a commit: at least one line.
Share(k) == IF Churn[k] \div Cardinality(Touched[k]) = 0 THEN 1 ELSE Churn[k] \div Cardinality(Touched[k])

Sum(f, S) == LET sum[T \in SUBSET S] ==
                   IF T = {} THEN 0 ELSE LET k == CHOOSE k \in T : TRUE IN f[k] + sum[T \ {k}]
             IN sum[S]

\* score_risks of the hotspots of a snapshot: the features of each, of which its score is a
\* function, given the maxima of the snapshot.
Scored(s) ==
  {[path |-> p, commits |-> Cardinality(Changing(s, p)),
    churn |-> Sum([k \in Changing(s, p) |-> Share(k)], Changing(s, p))] : p \in Hot(s)}

Row == UNION {Scored(s) : s \in Commits}

-----------------------------------------------------------------------------
(* Answers                                                                  *)

Document ==
  [kind : {"commit", "hotspot", "module"}, of : Commits \cup Paths \cup UNION {Modules[s] : s \in Commits}]

\* What an evidence id may refer to: the hotspots and modules of the snapshot, and the commits
\* of the repository.
Citable(s, newest) ==
  [kind : {"commit"}, of : 1..newest] \cup [kind : {"hotspot"}, of : Hot(s)]
    \cup [kind : {"module"}, of : Modules[s]]

\* The documents that are offered; of the commits only the newest CommitLimit.
Documents(s, newest) == {d \in Citable(s, newest) : d.kind = "commit" => d.of > newest - CommitLimit}

Overlap(question, d) == Cardinality(QuestionTerms[question] \cap Terms[d])

\* By score, then by id: the kind comes first in it, and commits and paths are numbered in
\* the order of their names.
Ahead(question, c, d) ==
  \/ Overlap(question, c) > Overlap(question, d)
  \/ /\ Overlap(question, c) = Overlap(question, d)
     /\ \/ <<c.kind, d.kind>> \in {<<"commit", "hotspot">>, <<"commit", "module">>, <<"hotspot", "module">>}
        \/ c.kind = d.kind /\ c.of < d.of

\* answer_question: the newest commits, or the documents that share the most terms.
Selected(question, documents) ==
  LET commits == {d \in documents : d.kind = "commit"}
      matching == {d \in documents : Overlap(question, d) > 0}
  IN IF question \in Recent
     THEN {d \in commits : Cardinality({c \in commits : c.of > d.of}) < Limit}
     ELSE {d \in matching : Cardinality({c \in matching : Ahead(question, c, d)}) < Limit}

\* An id that the model made up.
Invented == [kind |-> "commit", of |-> 0]

\* Mutant: the citations of the model are taken as they are.
AnyCited(cited, selected) == cited # {}

\* The model must cite something, and nothing but what was selected.
Acceptable(cited, selected) == cited # {} /\ cited \subseteq selected

-----------------------------------------------------------------------------

\* What a user may have posted on an answer, or None.
Feedback == Payload \cup {None}

Answer == [status : {"none", "stored", "deleted"}, scope : 0..MaxCommits, cites : SUBSET Document]

NoAnswer == [status |-> "none", scope |-> 0, cites |-> {}]

Request ==
  [pc : {"idle", "fill", "reread", "ask", "generate", "answer", "feedback", "purge"},
   snapshot : 0..MaxCommits, rows : SUBSET Row, cites : SUBSET Document,
   about : (Answers \X Users) \cup {None}, loaded : Feedback, payload : Feedback, old : SUBSET Answers]

Idle == [pc |-> "idle", snapshot |-> 0, rows |-> {}, cites |-> {}, about |-> None, loaded |-> None,
         payload |-> None, old |-> {}]

TypeOK ==
  /\ stored \in 0..MaxCommits /\ latest \in 0..stored
  /\ risk \in [Commits -> SUBSET Row]
  /\ told \subseteq [snapshot : Commits, rows : SUBSET Row]
  /\ answers \in [Answers -> Answer] /\ old \subseteq Answers
  /\ feedback \in [Answers \X Users -> Feedback]
  /\ posted \in [Answers \X Users -> SUBSET Payload]
  /\ request \in [Requests -> Request]

Init ==
  /\ stored = 0 /\ latest = 0 /\ told = {} /\ old = {}
  /\ risk = [s \in Commits |-> {}]
  /\ answers = [a \in Answers |-> NoAnswer]
  /\ feedback = [x \in Answers \X Users |-> None]
  /\ posted = [x \in Answers \X Users |-> {}]
  /\ request = [q \in Requests |-> Idle]

Become(q, r) == request' = [request EXCEPT ![q] = r]

-----------------------------------------------------------------------------
(* GET /repositories/{id}/risk                                              *)

\* The answer is what is stored, if anything is; otherwise the hotspots are scored.
LoadRisk(q) ==
  /\ request[q].pc = "idle" /\ latest # 0
  /\ IF risk[latest] # {}
     THEN told' = told \cup {[snapshot |-> latest, rows |-> risk[latest]]} /\ UNCHANGED request
     ELSE /\ Become(q, [Idle EXCEPT !.pc = "fill", !.snapshot = latest, !.rows = Scored(latest)])
          /\ UNCHANGED told
  /\ UNCHANGED <<stored, latest, risk, answers, old, feedback, posted>>

\* uq_snapshot_risk_path
Conflict(q) ==
  \E a \in request[q].rows, b \in risk[request[q].snapshot] : a.path = b.path

\* Mutant: each row is committed by itself.
CommitRowByRow(q) ==
  LET s == request[q].snapshot IN
  /\ request[q].pc = "fill"
  /\ \E a \in request[q].rows :
       /\ risk' = [risk EXCEPT ![s] = risk[s] \cup {a}]
       /\ Become(q, [request[q] EXCEPT !.rows = @ \ {a}, !.pc = IF request[q].rows = {a} THEN "reread" ELSE "fill"])
  /\ UNCHANGED <<stored, latest, told, answers, old, feedback, posted>>

\* All rows are inserted, or none: the loser of a race rolls back.
CommitRisk(q) ==
  LET s == request[q].snapshot IN
  /\ request[q].pc = "fill"
  /\ risk' = IF Conflict(q) THEN risk ELSE [risk EXCEPT ![s] = risk[s] \cup request[q].rows]
  /\ Become(q, [request[q] EXCEPT !.pc = "reread"])
  /\ UNCHANGED <<stored, latest, told, answers, old, feedback, posted>>

\* The answer is read back.
RereadRisk(q) ==
  LET s == request[q].snapshot IN
  /\ request[q].pc = "reread"
  /\ told' = told \cup {[snapshot |-> s, rows |-> risk[s]]}
  /\ Become(q, Idle)
  /\ UNCHANGED <<stored, latest, risk, answers, old, feedback, posted>>

-----------------------------------------------------------------------------
(* POST /chat/answers                                                       *)

FindSnapshot(q) ==
  /\ request[q].pc = "idle" /\ latest # 0
  /\ Become(q, [Idle EXCEPT !.pc = "ask", !.snapshot = latest])
  /\ UNCHANGED <<stored, latest, risk, told, answers, old, feedback, posted>>

\* The documents are those of the snapshot and whatever commits are stored by now.
Retrieve(q) ==
  LET s == request[q].snapshot IN
  /\ request[q].pc = "ask"
  /\ \E question \in Questions :
       LET selected == Selected(question, Documents(s, stored)) IN
       Become(q, [request[q] EXCEPT !.pc = IF Model /\ selected # {} THEN "generate" ELSE "answer",
                                    !.cites = selected])
  /\ UNCHANGED <<stored, latest, risk, told, answers, old, feedback, posted>>

\* The model answers with citations, or fails; what is not acceptable is replaced by the
\* extractive answer.
Generate(q) ==
  /\ request[q].pc = "generate"
  /\ \E cited \in SUBSET (request[q].cites \cup {Invented}) :
       Become(q, [request[q] EXCEPT !.pc = "answer",
                    !.cites = IF Acceptable(cited, request[q].cites) THEN cited ELSE request[q].cites])
  /\ UNCHANGED <<stored, latest, risk, told, answers, old, feedback, posted>>

CommitAnswer(q) ==
  /\ request[q].pc = "answer"
  /\ \E a \in Answers :
       /\ answers[a].status = "none"
       /\ answers' = [answers EXCEPT ![a] =
            [status |-> "stored", scope |-> request[q].snapshot, cites |-> request[q].cites]]
  /\ Become(q, Idle)
  /\ UNCHANGED <<stored, latest, risk, told, old, feedback, posted>>

-----------------------------------------------------------------------------
(* POST /chat/answers/{id}/feedback                                         *)

\* The answer is looked up, then the user's feedback on it.
LoadFeedback(q) ==
  /\ request[q].pc = "idle"
  /\ \E x \in Answers \X Users, p \in Payloads :
       /\ answers[x[1]].status = "stored"
       /\ Become(q, [Idle EXCEPT !.pc = "feedback", !.about = x, !.loaded = feedback[x], !.payload = p])
  /\ UNCHANGED <<stored, latest, risk, told, answers, old, feedback, posted>>

\* The UPDATE of a flushed row names a column only if its value differs from the loaded one.
Column(committed, loaded, assigned) == IF assigned = loaded THEN committed ELSE assigned

\* Mutant: the comment of an update is not assigned.
RatingOnly(row, loaded, payload) ==
  [rating |-> Column(row.rating, loaded.rating, payload.rating), comment |-> row.comment]

Flushed(row, loaded, payload) ==
  [rating |-> Column(row.rating, loaded.rating, payload.rating),
   comment |-> Column(row.comment, loaded.comment, payload.comment)]

\* Mutant: answer_id is not a foreign key.
RefusedAgain(q) == request[q].loaded = None /\ feedback[request[q].about] # None

\* An insertion fails on uq_answer_feedback_user or without its answer, an update if the row is
\* gone and a column of it changes; nothing catches either.
Refused(q) ==
  LET x == request[q].about IN
  IF request[q].loaded = None
  THEN feedback[x] # None \/ (ForeignKeys /\ answers[x[1]].status = "deleted")
  ELSE feedback[x] = None /\ request[q].payload # request[q].loaded

\* The row after the commit: new, or updated if it is there.
Written(q) ==
  LET row == feedback[request[q].about]
      r == request[q]
  IN IF r.loaded = None THEN r.payload
     ELSE IF row = None THEN None ELSE Flushed(row, r.loaded, r.payload)

CommitFeedback(q) ==
  LET x == request[q].about
      p == request[q].payload
  IN /\ request[q].pc = "feedback" /\ ~Refused(q)
     /\ feedback' = [feedback EXCEPT ![x] = Written(q)]
     /\ posted' = [posted EXCEPT ![x] = posted[x] \cup {p}]
     /\ Become(q, Idle)
     /\ UNCHANGED <<stored, latest, risk, told, answers, old>>

FeedbackRaises(q) ==
  /\ request[q].pc = "feedback" /\ Refused(q)
  /\ Become(q, Idle)
  /\ UNCHANGED <<stored, latest, risk, told, answers, old, feedback, posted>>

-----------------------------------------------------------------------------
(* Retention, not as a dry run                                              *)

SelectOld(q) ==
  LET ids == {a \in old : answers[a].status = "stored"} IN
  /\ request[q].pc = "idle" /\ ids # {}
  /\ Become(q, [Idle EXCEPT !.pc = "purge", !.old = ids])
  /\ UNCHANGED <<stored, latest, risk, told, answers, old, feedback, posted>>

\* Feedback and answers are deleted in one transaction; a foreign key takes the feedback that
\* was posted after the statement that deletes it along with its answer.
Purge(q) ==
  /\ request[q].pc = "purge"
  /\ answers' = [a \in Answers |->
       IF a \in request[q].old THEN [NoAnswer EXCEPT !.status = "deleted"] ELSE answers[a]]
  /\ feedback' = [x \in Answers \X Users |-> IF x[1] \in request[q].old THEN None ELSE feedback[x]]
  /\ Become(q, Idle)
  /\ UNCHANGED <<stored, latest, risk, told, old, posted>>

-----------------------------------------------------------------------------

\* A request ends before its commit.
RequestDies(q) ==
  /\ request[q].pc # "idle"
  /\ Become(q, Idle)
  /\ UNCHANGED <<stored, latest, risk, told, answers, old, feedback, posted>>

Handle(q) ==
  \/ LoadRisk(q) \/ CommitRisk(q) \/ RereadRisk(q)
  \/ FindSnapshot(q) \/ Retrieve(q) \/ Generate(q) \/ CommitAnswer(q)
  \/ LoadFeedback(q) \/ CommitFeedback(q) \/ FeedbackRaises(q)
  \/ SelectOld(q) \/ Purge(q)
  \/ RequestDies(q)

\* An analysis stores the history of a later commit, then publishes the snapshot of the commit
\* it has read, or fails.
StoreHistory ==
  /\ \E k \in stored + 1..MaxCommits : stored' = k
  /\ UNCHANGED <<latest, risk, told, answers, old, feedback, posted, request>>

Publish ==
  /\ \E k \in 1..stored \ {latest} : latest' = k
  /\ UNCHANGED <<stored, risk, told, answers, old, feedback, posted, request>>

\* An answer passes the retention period.
Age ==
  /\ \E a \in Answers \ old : answers[a].status = "stored" /\ old' = old \cup {a}
  /\ UNCHANGED <<stored, latest, risk, told, answers, feedback, posted, request>>

Next == StoreHistory \/ Publish \/ Age \/ \E q \in Requests : Handle(q)

Spec == Init /\ [][Next]_vars

-----------------------------------------------------------------------------
(* Properties                                                               *)

\* Whoever asks for the risk of a snapshot, first, again or at the same time, is told the same:
\* every hotspot of the snapshot, scored from its own history.
RiskAnswersAgree == \A t \in told : t.rows = Scored(t.snapshot)

\* Every evidence id of an answer is of something that is stored: the history, or the snapshot
\* that the answer names as its scope.
CitationsResolve ==
  \A a \in Answers :
    answers[a].status = "stored" =>
      /\ answers[a].scope \in Commits
      /\ answers[a].cites \subseteq Citable(answers[a].scope, stored)

\* Nothing remains of the feedback on an answer that retention deleted, also if it was posted
\* at that moment.
FeedbackHasAnswer ==
  \A x \in Answers \X Users : feedback[x] # None => answers[x[1]].status = "stored"

\* No two requests are about to post feedback of one user on one answer.
OnePost ==
  \A p, q \in Requests :
    request[p].pc = "feedback" /\ request[q].pc = "feedback" /\ request[p].about = request[q].about
      => p = q

FeedbackWasPosted == \A x \in Answers \X Users : feedback[x] \in posted[x] \cup {None}

\* Feedback that is posted one request at a time is stored as it was posted, rating and comment
\* of one payload, whatever other users post and retention deletes meanwhile.
SequentialFeedbackIsWhole == []OnePost => []FeedbackWasPosted

\* Inductive with FeedbackWasPosted as long as OnePost: the feedback that a request loaded is
\* still there, or gone.
FeedbackIsHeld ==
  \A q \in Requests :
    request[q].pc = "feedback" => feedback[request[q].about] \in {request[q].loaded, None}

\* The inductive invariant: rows of risk_scores are those of their snapshot or none, a request
\* inserts nothing else, and an answer under way cites what is stored.
IntelligenceInv ==
  /\ RiskAnswersAgree
  /\ CitationsResolve
  /\ ForeignKeys => FeedbackHasAnswer
  /\ \A s \in Commits : risk[s] \in {{}, Scored(s)}
  /\ \A q \in Requests :
       /\ request[q].pc \in {"fill", "reread"} => request[q].snapshot \in Commits
       /\ request[q].pc = "fill" => request[q].rows = Scored(request[q].snapshot)
       /\ request[q].pc = "reread" => risk[request[q].snapshot] = Scored(request[q].snapshot)
       /\ request[q].pc \in {"ask", "generate", "answer"} => request[q].snapshot \in Commits
       /\ request[q].pc \in {"generate", "answer"} =>
            request[q].cites \subseteq Citable(request[q].snapshot, stored)
       /\ request[q].pc = "feedback" =>
            /\ request[q].about \in Answers \X Users
            /\ answers[request[q].about[1]].status # "none"
            /\ request[q].payload \in Payload

\* "limited to the latest published repository evidence" (engine.py 111): an answer cites no
\* commit after the one that its scope pins.
AnswersStayInScope ==
  \A a \in Answers : \A d \in answers[a].cites : d.kind = "commit" => d.of <= answers[a].scope
=============================================================================
