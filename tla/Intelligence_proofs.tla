-------------------------- MODULE Intelligence_proofs --------------------------
(* Proofs about Intelligence, for any requests, answers, users and history:     *)
(* risk answers agree, citations resolve, and no feedback outlives its answer.  *)
EXTENDS Intelligence, TLAPS

USE IntelligenceAssumption

\* A scored row is of the snapshot's own set, and that set is typed.
LEMMA ScoredTyped == \A s \in Commits : Scored(s) \subseteq Row
BY DEF Row

\* What may be cited of a snapshot are documents, and more may be cited of a longer history.
LEMMA CitableTyped ==
  ASSUME NEW s \in Commits, NEW n \in 0..MaxCommits
  PROVE  Citable(s, n) \subseteq Document
<1>1. Hot(s) \subseteq Paths
  BY DEF Hot
<1>2. 1..n \subseteq Commits
  BY DEF Commits
<1> QED
  BY <1>1, <1>2 DEF Citable, Document

LEMMA CitableGrows ==
  ASSUME NEW s, NEW m \in 0..MaxCommits, NEW n \in 0..MaxCommits, m <= n
  PROVE  Citable(s, m) \subseteq Citable(s, n)
<1>1. 1..m \subseteq 1..n
  OBVIOUS
<1> QED
  BY <1>1 DEF Citable

\* Whatever is asked, what is selected was offered, and may be cited.
LEMMA SelectedIsCitable ==
  ASSUME NEW question, NEW s, NEW n
  PROVE  Selected(question, Documents(s, n)) \subseteq Citable(s, n)
<1>1. Documents(s, n) \subseteq Citable(s, n)
  BY DEF Documents
<1>2. Selected(question, Documents(s, n)) \subseteq Documents(s, n)
  BY DEF Selected
<1> QED
  BY <1>1, <1>2

\* An update of a row writes columns of payloads.
LEMMA FlushedTyped ==
  ASSUME NEW row \in Payload, NEW loaded \in Payload, NEW payload \in Payload
  PROVE  Flushed(row, loaded, payload) \in Payload
BY DEF Flushed, Column, Payload

-----------------------------------------------------------------------------

\* The part of the invariant that is about one request.
RequestInv(q) ==
  /\ request[q].pc \in {"fill", "reread"} => request[q].snapshot \in Commits
  /\ request[q].pc = "fill" => request[q].rows = Scored(request[q].snapshot)
  /\ request[q].pc = "reread" => risk[request[q].snapshot] = Scored(request[q].snapshot)
  /\ request[q].pc \in {"ask", "generate", "answer"} => request[q].snapshot \in Commits
  /\ request[q].pc \in {"generate", "answer"} =>
       request[q].cites \subseteq Citable(request[q].snapshot, stored)
  /\ request[q].pc = "feedback" =>
       /\ request[q].about \in Answers \X Users
       /\ answers[request[q].about[1]].status # "none"
       /\ request[q].payload \in Payload

\* Foreign keys or not.
FeedbackBelongs == ForeignKeys => FeedbackHasAnswer

RiskInv == \A s \in Commits : risk[s] \in {{}, Scored(s)}

\* Types, and the inductive invariant by its parts.
Inv ==
  /\ TypeOK /\ RiskAnswersAgree /\ CitationsResolve /\ FeedbackBelongs /\ RiskInv
  /\ \A q \in Requests : RequestInv(q)

LEMMA InvIsIntelligenceInv == Inv => IntelligenceInv
BY DEF Inv, IntelligenceInv, FeedbackBelongs, RiskInv, RequestInv

\* A step that only changes one request, to a record that satisfies its part, keeps the invariant.
LEMMA OneRequestMoves ==
  ASSUME Inv, NEW q \in Requests, NEW r \in Request, Become(q, r), RequestInv(q)',
         UNCHANGED <<stored, latest, risk, told, answers, old, feedback, posted>>
  PROVE  Inv'
<1> USE DEF Inv
<1>1. TypeOK'
  BY DEF TypeOK, Become
<1>2. ASSUME NEW p \in Requests PROVE RequestInv(p)'
  <2>1. CASE p = q
    BY <2>1
  <2>2. CASE p # q
    <3>1. request'[p] = request[p]
      BY <2>2 DEF Become, TypeOK
    <3> QED
      BY <3>1 DEF RequestInv
  <2> QED
    BY <2>1, <2>2
<1>3. RiskAnswersAgree' /\ CitationsResolve' /\ FeedbackBelongs' /\ RiskInv'
  BY DEF RiskAnswersAgree, CitationsResolve, FeedbackBelongs, FeedbackHasAnswer, RiskInv
<1> QED
  BY <1>1, <1>2, <1>3

LEMMA IdleIsTyped == Idle \in Request
BY DEF Idle, Request, Feedback

\* A request that becomes idle keeps the invariant.
LEMMA RequestEnds ==
  ASSUME Inv, NEW q \in Requests, Become(q, Idle),
         UNCHANGED <<stored, latest, risk, told, answers, old, feedback, posted>>
  PROVE  Inv'
<1>1. request'[q] = Idle
  BY DEF Become, Inv, TypeOK
<1>2. RequestInv(q)'
  BY <1>1 DEF RequestInv, Idle
<1> QED
  BY <1>2, IdleIsTyped, OneRequestMoves

-----------------------------------------------------------------------------

LEMMA InitInv == Init => Inv
<1> SUFFICES ASSUME Init PROVE Inv
  OBVIOUS
<1>1. TypeOK
  BY IdleIsTyped DEF Init, TypeOK, NoAnswer, Answer, Feedback
<1>2. \A q \in Requests : RequestInv(q)
  BY DEF Init, RequestInv, Idle
<1>3. CitationsResolve
  BY DEF Init, CitationsResolve, NoAnswer
<1> QED
  BY <1>1, <1>2, <1>3 DEF Init, Inv, RiskAnswersAgree, FeedbackBelongs, FeedbackHasAnswer, RiskInv

\* GET risk: what is loaded or scored is the snapshot's own; a committed set is all of it.
LEMMA LoadRiskInv == ASSUME Inv, NEW q \in Requests, LoadRisk(q) PROVE Inv'
<1>0. latest \in Commits
  BY DEF LoadRisk, Inv, TypeOK, Commits
<1>1. CASE risk[latest] # {}
  <2>1. risk[latest] = Scored(latest)
    BY <1>0, <1>1 DEF Inv, RiskInv
  <2>2. told' = told \cup {[snapshot |-> latest, rows |-> Scored(latest)]}
    BY <1>1, <2>1 DEF LoadRisk
  <2>3. UNCHANGED <<stored, latest, risk, answers, old, feedback, posted, request>>
    BY <1>1 DEF LoadRisk
  <2>4. TypeOK'
    BY <1>0, <2>2, <2>3, ScoredTyped DEF Inv, TypeOK
  <2>5. RiskAnswersAgree'
    BY <2>2 DEF Inv, RiskAnswersAgree
  <2>6. \A p \in Requests : RequestInv(p)'
    BY <2>3 DEF Inv, RequestInv
  <2>7. CitationsResolve' /\ FeedbackBelongs' /\ RiskInv'
    BY <2>3 DEF Inv, CitationsResolve, FeedbackBelongs, FeedbackHasAnswer, RiskInv
  <2> QED
    BY <2>4, <2>5, <2>6, <2>7 DEF Inv
<1>2. CASE risk[latest] = {}
  <2> DEFINE r == [Idle EXCEPT !.pc = "fill", !.snapshot = latest, !.rows = Scored(latest)]
  <2>1. r \in Request
    <3>1. Scored(latest) \in SUBSET Row /\ latest \in 0..MaxCommits
      BY <1>0, ScoredTyped DEF Commits
    <3> QED
      BY <3>1 DEF Idle, Request, Feedback
  <2>2. Become(q, r) /\ UNCHANGED <<stored, latest, risk, told, answers, old, feedback, posted>>
    BY <1>2 DEF LoadRisk
  <2>3. request'[q] = r
    BY <2>2 DEF Become, Inv, TypeOK
  <2>4. r.pc = "fill" /\ r.snapshot = latest /\ r.rows = Scored(latest)
    BY DEF Idle
  <2> HIDE DEF r
  <2>5. RequestInv(q)'
    BY <1>0, <2>3, <2>4 DEF RequestInv
  <2> QED
    BY <2>1, <2>2, <2>5, OneRequestMoves
<1> QED
  BY <1>1, <1>2

LEMMA CommitRiskInv == ASSUME Inv, NEW q \in Requests, CommitRisk(q) PROVE Inv'
<1> DEFINE s == request[q].snapshot
           r == [request[q] EXCEPT !.pc = "reread"]
<1>0. request[q] \in Request
  BY DEF Inv, TypeOK
<1>1. s \in Commits /\ request[q].rows = Scored(s) /\ request[q].pc = "fill"
  BY DEF CommitRisk, Inv, RequestInv
<1>2. r \in Request
  BY <1>0 DEF Request
<1>3. r.pc = "reread" /\ r.snapshot = s
  BY <1>0 DEF Request
<1>4. request' = [request EXCEPT ![q] = r]
  BY DEF CommitRisk, Become
<1>5. UNCHANGED <<stored, latest, told, answers, old, feedback, posted>>
  BY DEF CommitRisk
<1>6. risk \in [Commits -> SUBSET Row] /\ risk[s] \in {{}, Scored(s)}
  BY <1>1 DEF Inv, TypeOK, RiskInv
\* A conflict leaves the rows of the winner; without one there was no row, unless there are none.
<1>7. risk' = [risk EXCEPT ![s] = Scored(s)]
  <2>1. CASE Conflict(q)
    <3>1. risk[s] # {}
      BY <2>1 DEF Conflict
    <3>2. risk[s] = Scored(s) /\ risk' = risk
      BY <2>1, <3>1, <1>6 DEF CommitRisk
    <3> QED
      BY <3>2, <1>6, <1>1
  <2>2. CASE ~Conflict(q)
    <3>1. risk' = [risk EXCEPT ![s] = risk[s] \cup Scored(s)]
      BY <2>2, <1>1 DEF CommitRisk
    <3>2. risk[s] \cup Scored(s) = Scored(s)
      BY <1>6
    <3> QED
      BY <3>1, <3>2
  <2> QED
    BY <2>1, <2>2
<1> HIDE DEF r, s
<1>8. TypeOK'
  BY <1>1, <1>2, <1>4, <1>5, <1>6, <1>7, ScoredTyped DEF Inv, TypeOK
<1>9. RiskInv'
  BY <1>1, <1>6, <1>7 DEF Inv, RiskInv
<1>10. ASSUME NEW p \in Requests PROVE RequestInv(p)'
  <2>1. CASE p = q
    <3>1. request'[p] = r
      BY <2>1, <1>4 DEF Inv, TypeOK
    <3>2. risk'[s] = Scored(s)
      BY <1>1, <1>6, <1>7
    <3> QED
      BY <3>1, <3>2, <1>1, <1>3 DEF RequestInv
  <2>2. CASE p # q
    <3>1. request'[p] = request[p] /\ RequestInv(p)
      BY <2>2, <1>4 DEF Inv, TypeOK
    <3>2. request[p].pc = "reread" => risk'[request[p].snapshot] = Scored(request[p].snapshot)
      BY <3>1, <1>1, <1>6, <1>7 DEF RequestInv
    <3> QED
      BY <3>1, <3>2, <1>5 DEF RequestInv
  <2> QED
    BY <2>1, <2>2
<1>11. RiskAnswersAgree' /\ CitationsResolve' /\ FeedbackBelongs'
  BY <1>5 DEF Inv, RiskAnswersAgree, CitationsResolve, FeedbackBelongs, FeedbackHasAnswer
<1> QED
  BY <1>8, <1>9, <1>10, <1>11 DEF Inv

LEMMA RereadRiskInv == ASSUME Inv, NEW q \in Requests, RereadRisk(q) PROVE Inv'
<1> DEFINE s == request[q].snapshot
<1>1. s \in Commits /\ risk[s] = Scored(s)
  BY DEF RereadRisk, Inv, RequestInv
<1>2. told' = told \cup {[snapshot |-> s, rows |-> Scored(s)]}
  BY <1>1 DEF RereadRisk
<1>3. request' = [request EXCEPT ![q] = Idle]
  BY DEF RereadRisk, Become
<1>4. UNCHANGED <<stored, latest, risk, answers, old, feedback, posted>>
  BY DEF RereadRisk
<1> HIDE DEF s
<1>5. TypeOK'
  BY <1>1, <1>2, <1>3, <1>4, IdleIsTyped, ScoredTyped DEF Inv, TypeOK
<1>6. RiskAnswersAgree'
  BY <1>2 DEF Inv, RiskAnswersAgree
<1>7. ASSUME NEW p \in Requests PROVE RequestInv(p)'
  <2>1. request'[p] \in {request[p], Idle}
    BY <1>3 DEF Inv, TypeOK
  <2>2. RequestInv(p)
    BY DEF Inv
  <2> QED
    BY <2>1, <2>2, <1>4 DEF RequestInv, Idle
<1>8. CitationsResolve' /\ FeedbackBelongs' /\ RiskInv'
  BY <1>4 DEF Inv, CitationsResolve, FeedbackBelongs, FeedbackHasAnswer, RiskInv
<1> QED
  BY <1>5, <1>6, <1>7, <1>8 DEF Inv

\* POST answers: what is retrieved, or accepted from the model, was offered.
LEMMA FindSnapshotInv == ASSUME Inv, NEW q \in Requests, FindSnapshot(q) PROVE Inv'
<1> DEFINE r == [Idle EXCEPT !.pc = "ask", !.snapshot = latest]
<1>1. latest \in Commits /\ latest \in 0..MaxCommits
  BY DEF FindSnapshot, Inv, TypeOK, Commits
<1>2. r \in Request
  BY <1>1 DEF Idle, Request, Feedback
<1>3. r.pc = "ask" /\ r.snapshot = latest
  BY DEF Idle
<1>4. Become(q, r) /\ UNCHANGED <<stored, latest, risk, told, answers, old, feedback, posted>>
  BY DEF FindSnapshot
<1> HIDE DEF r
<1>5. request'[q] = r
  BY <1>4 DEF Become, Inv, TypeOK
<1>6. RequestInv(q)'
  BY <1>1, <1>3, <1>5 DEF RequestInv
<1> QED
  BY <1>2, <1>4, <1>6, OneRequestMoves

\* A request that goes on to answer with citable documents keeps the invariant.
LEMMA RequestCites ==
  ASSUME Inv, NEW q \in Requests, request[q].pc \in {"ask", "generate"},
         NEW cites, cites \subseteq Citable(request[q].snapshot, stored),
         NEW pc \in {"generate", "answer"},
         Become(q, [request[q] EXCEPT !.pc = pc, !.cites = cites]),
         UNCHANGED <<stored, latest, risk, told, answers, old, feedback, posted>>
  PROVE  Inv'
<1> DEFINE r == [request[q] EXCEPT !.pc = pc, !.cites = cites]
<1>1. request[q] \in Request /\ stored \in 0..MaxCommits
  BY DEF Inv, TypeOK
<1>2. request[q].snapshot \in Commits
  BY DEF Inv, RequestInv
<1>3. cites \in SUBSET Document
  BY <1>1, <1>2, CitableTyped
<1>4. r \in Request /\ r.pc = pc /\ r.cites = cites /\ r.snapshot = request[q].snapshot
  BY <1>1, <1>3 DEF Request
<1> HIDE DEF r
<1>5. request' = [request EXCEPT ![q] = r]
  BY DEF Become, r
<1>6. request'[q] = r
  BY <1>5 DEF Inv, TypeOK
<1>7. RequestInv(q)'
  BY <1>2, <1>4, <1>6 DEF RequestInv
<1> QED
  BY <1>4, <1>5, <1>7, OneRequestMoves DEF Become

LEMMA RetrieveInv == ASSUME Inv, NEW q \in Requests, Retrieve(q) PROVE Inv'
<1>1. PICK question \in Questions :
        Become(q, [request[q] EXCEPT
          !.pc = IF Model /\ Selected(question, Documents(request[q].snapshot, stored)) # {}
                 THEN "generate" ELSE "answer",
          !.cites = Selected(question, Documents(request[q].snapshot, stored))])
  BY DEF Retrieve
<1> DEFINE cites == Selected(question, Documents(request[q].snapshot, stored))
           pc == IF Model /\ cites # {} THEN "generate" ELSE "answer"
<1>2. cites \subseteq Citable(request[q].snapshot, stored)
  BY SelectedIsCitable
<1>3. pc \in {"generate", "answer"}
  OBVIOUS
<1>4. Become(q, [request[q] EXCEPT !.pc = pc, !.cites = cites])
  BY <1>1
<1>5. request[q].pc \in {"ask", "generate"}
  BY DEF Retrieve
<1>6. UNCHANGED <<stored, latest, risk, told, answers, old, feedback, posted>>
  BY DEF Retrieve
<1> HIDE DEF cites, pc
<1> QED
  BY <1>2, <1>3, <1>4, <1>5, <1>6, RequestCites

LEMMA GenerateInv == ASSUME Inv, NEW q \in Requests, Generate(q) PROVE Inv'
<1>1. PICK cited \in SUBSET (request[q].cites \cup {Invented}) :
        Become(q, [request[q] EXCEPT !.pc = "answer",
          !.cites = IF Acceptable(cited, request[q].cites) THEN cited ELSE request[q].cites])
  BY DEF Generate
<1> DEFINE cites == IF Acceptable(cited, request[q].cites) THEN cited ELSE request[q].cites
<1>2. request[q].cites \subseteq Citable(request[q].snapshot, stored)
  BY DEF Generate, Inv, RequestInv
<1>3. cites \subseteq Citable(request[q].snapshot, stored)
  BY <1>2 DEF Acceptable
<1>4. Become(q, [request[q] EXCEPT !.pc = "answer", !.cites = cites])
  BY <1>1
<1>5. request[q].pc \in {"ask", "generate"}
  BY DEF Generate
<1>6. UNCHANGED <<stored, latest, risk, told, answers, old, feedback, posted>>
  BY DEF Generate
<1> HIDE DEF cites
<1> QED
  BY <1>3, <1>4, <1>5, <1>6, RequestCites

LEMMA CommitAnswerInv == ASSUME Inv, NEW q \in Requests, CommitAnswer(q) PROVE Inv'
<1> DEFINE row == [status |-> "stored", scope |-> request[q].snapshot, cites |-> request[q].cites]
<1>1. PICK a \in Answers : answers[a].status = "none" /\ answers' = [answers EXCEPT ![a] = row]
  BY DEF CommitAnswer
<1>2. request' = [request EXCEPT ![q] = Idle]
  BY DEF CommitAnswer, Become
<1>3. UNCHANGED <<stored, latest, risk, told, old, feedback, posted>>
  BY DEF CommitAnswer
<1>4. /\ request[q].snapshot \in Commits
      /\ request[q].cites \subseteq Citable(request[q].snapshot, stored)
  BY DEF CommitAnswer, Inv, RequestInv
<1>5. row \in Answer
  BY DEF Inv, TypeOK, Request, Answer
<1>6. row.status = "stored" /\ row.scope \in Commits /\ row.cites \subseteq Citable(row.scope, stored)
  BY <1>4
<1> HIDE DEF row
<1>7. answers'[a] = row /\ \A b \in Answers \ {a} : answers'[b] = answers[b]
  BY <1>1 DEF Inv, TypeOK
<1>8. TypeOK'
  BY <1>1, <1>2, <1>3, <1>5, IdleIsTyped DEF Inv, TypeOK
<1>9. CitationsResolve'
  BY <1>3, <1>6, <1>7 DEF Inv, CitationsResolve
<1>10. FeedbackBelongs'
  BY <1>3, <1>6, <1>7 DEF Inv, FeedbackBelongs, FeedbackHasAnswer
<1>11. ASSUME NEW p \in Requests PROVE RequestInv(p)'
  <2>1. request'[p] \in {request[p], Idle}
    BY <1>2 DEF Inv, TypeOK
  <2>2. CASE request'[p] = Idle
    BY <2>2 DEF RequestInv, Idle
  <2>3. CASE request'[p] = request[p]
    <3>1. RequestInv(p)
      BY DEF Inv
    <3>2. request[p].pc = "feedback" => answers'[request[p].about[1]].status # "none"
      BY <3>1, <1>6, <1>7 DEF RequestInv
    <3> QED
      BY <2>3, <3>1, <3>2, <1>3 DEF RequestInv
  <2> QED
    BY <2>1, <2>2, <2>3
<1>12. RiskAnswersAgree' /\ RiskInv'
  BY <1>3 DEF Inv, RiskAnswersAgree, RiskInv
<1> QED
  BY <1>8, <1>9, <1>10, <1>11, <1>12 DEF Inv

\* POST feedback: a row is inserted only next to its answer, and updated only where one is.
LEMMA LoadFeedbackInv == ASSUME Inv, NEW q \in Requests, LoadFeedback(q) PROVE Inv'
<1>1. PICK x \in Answers \X Users, p \in Payloads :
        /\ answers[x[1]].status = "stored"
        /\ Become(q, [Idle EXCEPT !.pc = "feedback", !.about = x, !.loaded = feedback[x],
                                  !.payload = p])
  BY DEF LoadFeedback
<1> DEFINE r == [Idle EXCEPT !.pc = "feedback", !.about = x, !.loaded = feedback[x], !.payload = p]
<1>2. feedback[x] \in Feedback /\ p \in Payload
  BY DEF Inv, TypeOK
<1>3. r \in Request
  <2>1. x \in (Answers \X Users) \cup {None} /\ p \in Feedback
    BY <1>2 DEF Feedback
  <2>2. Idle \in Request
    BY IdleIsTyped
  <2> QED
    BY <1>2, <2>1, <2>2 DEF Request
<1>4. r.pc = "feedback" /\ r.about = x /\ r.payload = p
  BY DEF Idle
<1>5. Become(q, r) /\ UNCHANGED <<stored, latest, risk, told, answers, old, feedback, posted>>
  BY <1>1 DEF LoadFeedback
<1> HIDE DEF r
<1>6. request'[q] = r
  BY <1>5 DEF Become, Inv, TypeOK
<1>7. RequestInv(q)'
  BY <1>1, <1>2, <1>4, <1>5, <1>6 DEF RequestInv
<1> QED
  BY <1>3, <1>5, <1>7, OneRequestMoves

LEMMA CommitFeedbackInv ==
  ASSUME Inv, NEW q \in Requests, CommitFeedback(q) PROVE Inv'
<1> DEFINE x == request[q].about
           p == request[q].payload
           row == Written(q)
<1>1. x \in Answers \X Users /\ answers[x[1]].status # "none" /\ p \in Payload
  BY DEF CommitFeedback, Inv, RequestInv
<1>2. ~Refused(q) /\ feedback' = [feedback EXCEPT ![x] = row]
  BY DEF CommitFeedback
<1>3. posted' = [posted EXCEPT ![x] = posted[x] \cup {p}]
  BY DEF CommitFeedback
<1>4. request' = [request EXCEPT ![q] = Idle]
  BY DEF CommitFeedback, Become
<1>5. UNCHANGED <<stored, latest, risk, told, answers, old>>
  BY DEF CommitFeedback
<1>6. row \in Feedback /\ (ForeignKeys /\ row # None => answers[x[1]].status = "stored")
  <2>1. CASE request[q].loaded = None
    <3>1. row = p
      BY <2>1 DEF Written
    <3>2. ForeignKeys => answers[x[1]].status # "deleted"
      BY <2>1, <1>2 DEF Refused
    <3>3. answers[x[1]] \in Answer
      BY <1>1 DEF Inv, TypeOK
    <3>4. ForeignKeys => answers[x[1]].status = "stored"
      BY <3>2, <3>3, <1>1 DEF Answer
    <3> QED
      BY <3>1, <3>4, <1>1 DEF Feedback
  <2>2. CASE request[q].loaded # None /\ feedback[x] = None
    BY <2>2 DEF Written, Feedback
  <2>3. CASE request[q].loaded # None /\ feedback[x] # None
    <3>1. feedback[x] \in Payload /\ request[q].loaded \in Payload
      BY <2>3, <1>1 DEF Inv, TypeOK, Request, Feedback
    <3>2. row = Flushed(feedback[x], request[q].loaded, p)
      BY <2>3 DEF Written
    <3>3. row \in Payload
      BY <3>1, <3>2, <1>1, FlushedTyped
    <3>4. ForeignKeys => answers[x[1]].status = "stored"
      BY <2>3, <1>1 DEF Inv, FeedbackBelongs, FeedbackHasAnswer
    <3> QED
      BY <3>3, <3>4 DEF Feedback
  <2> QED
    BY <2>1, <2>2, <2>3
<1> HIDE DEF x, p, row
<1>8. TypeOK'
  <2>1. feedback' \in [Answers \X Users -> Feedback]
    BY <1>1, <1>2, <1>6 DEF Inv, TypeOK
  <2>2. posted' \in [Answers \X Users -> SUBSET Payload]
    BY <1>1, <1>3 DEF Inv, TypeOK
  <2>3. request' \in [Requests -> Request]
    BY <1>4, IdleIsTyped DEF Inv, TypeOK
  <2> QED
    BY <2>1, <2>2, <2>3, <1>5 DEF Inv, TypeOK
<1>9. FeedbackBelongs'
  <2>1. \A y \in (Answers \X Users) \ {x} : feedback'[y] = feedback[y]
    BY <1>1, <1>2 DEF Inv, TypeOK
  <2> QED
    BY <2>1, <1>1, <1>2, <1>5, <1>6 DEF Inv, TypeOK, FeedbackBelongs, FeedbackHasAnswer
<1>10. ASSUME NEW r \in Requests PROVE RequestInv(r)'
  <2>1. request'[r] \in {request[r], Idle} /\ RequestInv(r)
    BY <1>4 DEF Inv, TypeOK
  <2> QED
    BY <2>1, <1>5 DEF RequestInv, Idle
<1>11. RiskAnswersAgree' /\ CitationsResolve' /\ RiskInv'
  BY <1>5 DEF Inv, RiskAnswersAgree, CitationsResolve, RiskInv
<1> QED
  BY <1>8, <1>9, <1>10, <1>11 DEF Inv

\* Retention: feedback goes with its answer.
LEMMA SelectOldInv == ASSUME Inv, NEW q \in Requests, SelectOld(q) PROVE Inv'
<1> DEFINE r == [Idle EXCEPT !.pc = "purge", !.old = {a \in old : answers[a].status = "stored"}]
<1>1. r \in Request
  <2>1. {a \in old : answers[a].status = "stored"} \subseteq Answers
    BY DEF Inv, TypeOK
  <2>2. Idle \in Request
    BY IdleIsTyped
  <2> QED
    BY <2>1, <2>2 DEF Request
<1>2. r.pc = "purge"
  BY DEF Idle
<1>3. Become(q, r) /\ UNCHANGED <<stored, latest, risk, told, answers, old, feedback, posted>>
  BY DEF SelectOld
<1> HIDE DEF r
<1>4. request'[q] = r
  BY <1>3 DEF Become, Inv, TypeOK
<1>5. RequestInv(q)'
  BY <1>2, <1>4 DEF RequestInv
<1> QED
  BY <1>1, <1>3, <1>5, OneRequestMoves

LEMMA PurgeInv == ASSUME Inv, NEW q \in Requests, Purge(q) PROVE Inv'
<1> DEFINE gone == [NoAnswer EXCEPT !.status = "deleted"]
<1>1. gone \in Answer /\ gone.status = "deleted"
  BY DEF NoAnswer, Answer
<1>2. answers' = [a \in Answers |-> IF a \in request[q].old THEN gone ELSE answers[a]]
  BY DEF Purge
<1>3. feedback' = [x \in Answers \X Users |-> IF x[1] \in request[q].old THEN None ELSE feedback[x]]
  BY DEF Purge
<1>4. request' = [request EXCEPT ![q] = Idle]
  BY DEF Purge, Become
<1>5. UNCHANGED <<stored, latest, risk, told, old, posted>>
  BY DEF Purge
<1> HIDE DEF gone
<1>6. TypeOK'
  <2>1. answers' \in [Answers -> Answer]
    BY <1>1, <1>2 DEF Inv, TypeOK
  <2>2. feedback' \in [Answers \X Users -> Feedback]
    BY <1>3 DEF Inv, TypeOK, Feedback
  <2>3. request' \in [Requests -> Request]
    BY <1>4, IdleIsTyped DEF Inv, TypeOK
  <2> QED
    BY <2>1, <2>2, <2>3, <1>5 DEF Inv, TypeOK
<1>7. CitationsResolve'
  BY <1>1, <1>2, <1>5 DEF Inv, CitationsResolve
<1>8. FeedbackBelongs'
  BY <1>2, <1>3 DEF Inv, FeedbackBelongs, FeedbackHasAnswer
<1>9. ASSUME NEW p \in Requests PROVE RequestInv(p)'
  <2>1. request'[p] \in {request[p], Idle} /\ RequestInv(p)
    BY <1>4 DEF Inv, TypeOK
  <2>2. CASE request'[p] = Idle
    BY <2>2 DEF RequestInv, Idle
  <2>3. CASE request'[p] = request[p]
    <3>1. request[p].pc = "feedback" => answers'[request[p].about[1]].status # "none"
      BY <2>1, <1>1, <1>2 DEF RequestInv
    <3> QED
      BY <2>1, <2>3, <3>1, <1>5 DEF RequestInv
  <2> QED
    BY <2>1, <2>2, <2>3
<1>10. RiskAnswersAgree' /\ RiskInv'
  BY <1>5 DEF Inv, RiskAnswersAgree, RiskInv
<1> QED
  BY <1>6, <1>7, <1>8, <1>9, <1>10 DEF Inv

-----------------------------------------------------------------------------

\* An analysis only adds to what may be cited.
LEMMA StoreHistoryInv == ASSUME Inv, StoreHistory PROVE Inv'
<1>1. stored \in 0..MaxCommits /\ stored' \in 0..MaxCommits /\ stored <= stored'
  BY DEF Inv, TypeOK, StoreHistory
<1>2. UNCHANGED <<latest, risk, told, answers, old, feedback, posted, request>>
  BY DEF StoreHistory
<1>3. \A s : Citable(s, stored) \subseteq Citable(s, stored')
  BY <1>1, CitableGrows
<1>4. TypeOK'
  BY <1>1, <1>2 DEF Inv, TypeOK
<1>5. CitationsResolve'
  BY <1>2, <1>3 DEF Inv, CitationsResolve
<1>6. \A q \in Requests : RequestInv(q)'
  BY <1>2, <1>3 DEF Inv, RequestInv
<1>7. RiskAnswersAgree' /\ FeedbackBelongs' /\ RiskInv'
  BY <1>2 DEF Inv, RiskAnswersAgree, FeedbackBelongs, FeedbackHasAnswer, RiskInv
<1> QED
  BY <1>4, <1>5, <1>6, <1>7 DEF Inv

\* Neither a publication nor the age of an answer is read by the invariant.
LEMMA LatestOrOldInv ==
  ASSUME Inv, latest' \in 0..stored, old' \subseteq Answers,
         UNCHANGED <<stored, risk, told, answers, feedback, posted, request>>
  PROVE  Inv'
BY DEF Inv, TypeOK, RiskAnswersAgree, CitationsResolve, FeedbackBelongs, FeedbackHasAnswer, RiskInv, RequestInv

LEMMA NextInv == ASSUME Inv, [Next]_vars PROVE Inv'
<1>1. CASE StoreHistory
  BY <1>1, StoreHistoryInv
<1>2. CASE Publish
  <2>1. latest' \in 0..stored
    BY <1>2 DEF Publish, Inv, TypeOK
  <2> QED
    BY <1>2, <2>1, LatestOrOldInv DEF Publish, Inv, TypeOK
<1>3. CASE Age
  BY <1>3, LatestOrOldInv DEF Age, Inv, TypeOK
<1>4. ASSUME NEW q \in Requests, Handle(q) PROVE Inv'
  <2>1. CASE LoadRisk(q)
    BY <2>1, LoadRiskInv
  <2>2. CASE CommitRisk(q)
    BY <2>2, CommitRiskInv
  <2>3. CASE RereadRisk(q)
    BY <2>3, RereadRiskInv
  <2>4. CASE FindSnapshot(q)
    BY <2>4, FindSnapshotInv
  <2>5. CASE Retrieve(q)
    BY <2>5, RetrieveInv
  <2>6. CASE Generate(q)
    BY <2>6, GenerateInv
  <2>7. CASE CommitAnswer(q)
    BY <2>7, CommitAnswerInv
  <2>8. CASE LoadFeedback(q)
    BY <2>8, LoadFeedbackInv
  <2>9. CASE CommitFeedback(q)
    BY <2>9, CommitFeedbackInv
  <2>10. CASE FeedbackRaises(q) \/ RequestDies(q)
    BY <2>10, RequestEnds DEF FeedbackRaises, RequestDies
  <2>11. CASE SelectOld(q)
    BY <2>11, SelectOldInv
  <2>12. CASE Purge(q)
    BY <2>12, PurgeInv
  <2> QED
    BY <1>4, <2>1, <2>2, <2>3, <2>4, <2>5, <2>6, <2>7, <2>8, <2>9, <2>10, <2>11, <2>12 DEF Handle
<1>5. CASE UNCHANGED vars
  BY <1>5, LatestOrOldInv DEF vars, Inv, TypeOK
<1> QED
  BY <1>1, <1>2, <1>3, <1>4, <1>5 DEF Next

\* For any requests, users, questions, history and documents, and whatever the model returns: risk
\* answers on a snapshot agree, citations resolve, and on a database with foreign keys feedback
\* does not outlive its answer, with all that the argument needs beside them.
THEOREM IntelligenceCorrect == Spec => [](TypeOK /\ IntelligenceInv)
<1>1. Init => Inv
  BY InitInv
<1>2. Inv /\ [Next]_vars => Inv'
  BY NextInv
<1>3. Inv => TypeOK /\ IntelligenceInv
  BY InvIsIntelligenceInv DEF Inv
<1> QED
  BY <1>1, <1>2, <1>3, PTL DEF Spec

\* The risk of a snapshot is the same in every answer.
THEOREM RisksAgree == Spec => []RiskAnswersAgree
<1>1. TypeOK /\ IntelligenceInv => RiskAnswersAgree
  BY DEF IntelligenceInv
<1> QED
  BY <1>1, IntelligenceCorrect, PTL

\* Every evidence id of an answer is of stored evidence.
THEOREM AnswersResolve == Spec => []CitationsResolve
<1>1. TypeOK /\ IntelligenceInv => CitationsResolve
  BY DEF IntelligenceInv
<1> QED
  BY <1>1, IntelligenceCorrect, PTL

\* With foreign keys no feedback is left of an answer that retention deleted.
THEOREM NoOrphanedFeedback == ASSUME ForeignKeys PROVE Spec => []FeedbackHasAnswer
<1>1. ASSUME ForeignKeys PROVE TypeOK /\ IntelligenceInv => FeedbackHasAnswer
  BY DEF IntelligenceInv
<1> QED
  BY <1>1, IntelligenceCorrect, PTL

-----------------------------------------------------------------------------

\* What is flushed over the row that was loaded is what was posted.
LEMMA FlushedIsPosted ==
  ASSUME NEW row \in Payload, NEW payload \in Payload
  PROVE  Flushed(row, row, payload) = payload
BY DEF Flushed, Column, Payload

PostInv == FeedbackWasPosted /\ FeedbackIsHeld

LEMMA InitPost == Init => PostInv
BY DEF Init, PostInv, FeedbackWasPosted, FeedbackIsHeld, Idle

\* A request that is not about to write feedback holds nothing.
LEMMA OtherMoves ==
  ASSUME PostInv, TypeOK, NEW q \in Requests, UNCHANGED <<feedback, posted>>,
         NEW r \in Request, Become(q, r), r.pc # "feedback"
  PROVE  PostInv'
<1>1. FeedbackWasPosted'
  BY DEF PostInv, FeedbackWasPosted
<1>2. ASSUME NEW p \in Requests, request'[p].pc = "feedback"
      PROVE  feedback'[request'[p].about] \in {request'[p].loaded, None}
  <2>1. request'[p] = request[p]
    BY <1>2 DEF Become, TypeOK
  <2> QED
    BY <1>2, <2>1 DEF PostInv, FeedbackIsHeld
<1> QED
  BY <1>1, <1>2 DEF PostInv, FeedbackIsHeld

\* Feedback is held when it is loaded.
LEMMA LoadFeedbackPost ==
  ASSUME PostInv, TypeOK, NEW q \in Requests, LoadFeedback(q) PROVE PostInv'
<1>1. PICK x \in Answers \X Users, p \in Payloads :
        Become(q, [Idle EXCEPT !.pc = "feedback", !.about = x, !.loaded = feedback[x],
                               !.payload = p])
  BY DEF LoadFeedback
<1> DEFINE r == [Idle EXCEPT !.pc = "feedback", !.about = x, !.loaded = feedback[x], !.payload = p]
<1>2. r.about = x /\ r.loaded = feedback[x]
  BY DEF Idle
<1>3. request' = [request EXCEPT ![q] = r] /\ UNCHANGED <<feedback, posted>>
  BY <1>1 DEF LoadFeedback, Become
<1> HIDE DEF r
<1>4. FeedbackWasPosted'
  BY <1>3 DEF PostInv, FeedbackWasPosted
<1>5. ASSUME NEW k \in Requests, request'[k].pc = "feedback"
      PROVE  feedback'[request'[k].about] \in {request'[k].loaded, None}
  <2>1. CASE k = q
    BY <2>1, <1>2, <1>3 DEF TypeOK
  <2>2. CASE k # q
    <3>1. request'[k] = request[k]
      BY <2>2, <1>3 DEF TypeOK
    <3> QED
      BY <3>1, <1>3, <1>5 DEF PostInv, FeedbackIsHeld
  <2> QED
    BY <2>1, <2>2
<1> QED
  BY <1>4, <1>5 DEF PostInv, FeedbackIsHeld

\* What is committed is what was posted, if what was loaded is still there; and nobody else
\* holds feedback of the user on the answer.
LEMMA CommitFeedbackPost ==
  ASSUME PostInv, OnePost, Inv, NEW q \in Requests, CommitFeedback(q) PROVE PostInv'
<1> DEFINE x == request[q].about
           p == request[q].payload
           row == Written(q)
<1>1. x \in Answers \X Users /\ p \in Payload /\ request[q].pc = "feedback"
  BY DEF CommitFeedback, Inv, RequestInv
<1>2. ~Refused(q) /\ feedback' = [feedback EXCEPT ![x] = row]
  BY DEF CommitFeedback
<1>3. posted' = [posted EXCEPT ![x] = posted[x] \cup {p}]
  BY DEF CommitFeedback
<1>4. request' = [request EXCEPT ![q] = Idle]
  BY DEF CommitFeedback, Become
<1>5. row \in {p, None}
  <2>1. CASE request[q].loaded = None
    BY <2>1 DEF Written
  <2>2. CASE request[q].loaded # None /\ feedback[x] = None
    BY <2>2 DEF Written
  <2>3. CASE request[q].loaded # None /\ feedback[x] # None
    <3>1. feedback[x] = request[q].loaded
      BY <2>3, <1>1 DEF PostInv, FeedbackIsHeld
    <3>2. feedback[x] \in Payload
      BY <2>3, <1>1 DEF Inv, TypeOK, Feedback
    <3>3. row = Flushed(feedback[x], feedback[x], p)
      BY <2>3, <3>1 DEF Written
    <3> QED
      BY <3>2, <3>3, <1>1, FlushedIsPosted
  <2> QED
    BY <2>1, <2>2, <2>3
<1> HIDE DEF row
<1>6. FeedbackWasPosted'
  <2>1. ASSUME NEW y \in Answers \X Users PROVE feedback'[y] \in posted'[y] \cup {None}
    <3>1. CASE y = x
      BY <3>1, <1>1, <1>2, <1>3, <1>5 DEF Inv, TypeOK
    <3>2. CASE y # x
      <4>1. feedback'[y] = feedback[y] /\ posted'[y] = posted[y]
        BY <3>2, <1>1, <1>2, <1>3 DEF Inv, TypeOK
      <4> QED
        BY <4>1 DEF PostInv, FeedbackWasPosted
    <3> QED
      BY <3>1, <3>2
  <2> QED
    BY <2>1 DEF FeedbackWasPosted
<1>7. ASSUME NEW k \in Requests, request'[k].pc = "feedback"
      PROVE  feedback'[request'[k].about] \in {request'[k].loaded, None}
  <2>1. k # q
    BY <1>4, <1>7 DEF Idle, Inv, TypeOK
  <2>2. request'[k] = request[k]
    BY <2>1, <1>4 DEF Inv, TypeOK
  <2>3. request[k].about # x
    BY <2>1, <2>2, <1>1, <1>7 DEF OnePost
  <2>4. request[k].about \in Answers \X Users
    BY <2>2, <1>7 DEF Inv, RequestInv
  <2>5. feedback'[request[k].about] = feedback[request[k].about]
    BY <2>3, <2>4, <1>2 DEF Inv, TypeOK
  <2> QED
    BY <2>2, <2>5, <1>7 DEF PostInv, FeedbackIsHeld
<1> QED
  BY <1>6, <1>7 DEF PostInv, FeedbackIsHeld

\* Retention takes feedback away.
LEMMA PurgePost == ASSUME PostInv, Inv, NEW q \in Requests, Purge(q) PROVE PostInv'
<1>1. \A x \in Answers \X Users : feedback'[x] \in {feedback[x], None}
  BY DEF Purge
<1>2. request' = [request EXCEPT ![q] = Idle] /\ posted' = posted
  BY DEF Purge, Become
<1>3. FeedbackWasPosted'
  BY <1>1, <1>2 DEF PostInv, FeedbackWasPosted
<1>4. ASSUME NEW k \in Requests, request'[k].pc = "feedback"
      PROVE  feedback'[request'[k].about] \in {request'[k].loaded, None}
  <2>1. request'[k] = request[k]
    BY <1>2, <1>4 DEF Idle, Inv, TypeOK
  <2>2. request[k].about \in Answers \X Users
    BY <2>1, <1>4 DEF Inv, RequestInv
  <2> QED
    BY <2>1, <2>2, <1>1, <1>4 DEF PostInv, FeedbackIsHeld
<1> QED
  BY <1>3, <1>4 DEF PostInv, FeedbackIsHeld

\* No other step of a request touches feedback, or loads any.
LEMMA HandlePost ==
  ASSUME PostInv, OnePost, Inv, Inv', NEW q \in Requests, Handle(q) PROVE PostInv'
<1>0. TypeOK /\ TypeOK' /\ request[q] \in Request /\ request'[q] \in Request
  BY DEF Inv, TypeOK
<1>1. CASE LoadFeedback(q)
  BY <1>0, <1>1, LoadFeedbackPost
<1>2. CASE CommitFeedback(q)
  BY <1>2, CommitFeedbackPost
<1>3. CASE Purge(q)
  BY <1>3, PurgePost
<1>4. CASE LoadRisk(q) /\ request' = request
  BY <1>4 DEF LoadRisk, PostInv, FeedbackWasPosted, FeedbackIsHeld
<1>5. ASSUME NEW r, Become(q, r), r.pc # "feedback", UNCHANGED <<feedback, posted>>
      PROVE  PostInv'
  <2>1. request'[q] = r
    BY <1>0, <1>5 DEF Become, TypeOK
  <2> QED
    BY <2>1, <1>0, <1>5, OtherMoves
<1>6. CASE LoadRisk(q) /\ request' # request
  <2> DEFINE r == [Idle EXCEPT !.pc = "fill", !.snapshot = latest, !.rows = Scored(latest)]
  <2>1. Become(q, r) /\ UNCHANGED <<feedback, posted>>
    BY <1>6 DEF LoadRisk
  <2>2. r.pc # "feedback"
    BY DEF Idle
  <2> QED
    BY <2>1, <2>2, <1>5
<1>7. CASE CommitRisk(q)
  <2>1. [request[q] EXCEPT !.pc = "reread"].pc # "feedback"
    BY <1>0 DEF Request
  <2> QED
    BY <2>1, <1>5, <1>7 DEF CommitRisk
<1>8. CASE RereadRisk(q) \/ CommitAnswer(q) \/ FeedbackRaises(q) \/ RequestDies(q)
  <2>1. Become(q, Idle) /\ UNCHANGED <<feedback, posted>> /\ Idle.pc # "feedback"
    BY <1>8 DEF RereadRisk, CommitAnswer, FeedbackRaises, RequestDies, Idle
  <2> QED
    BY <2>1, <1>5
<1>9. CASE FindSnapshot(q)
  <2>1. [Idle EXCEPT !.pc = "ask", !.snapshot = latest].pc # "feedback"
    BY DEF Idle
  <2> QED
    BY <2>1, <1>5, <1>9 DEF FindSnapshot
<1>10. CASE Retrieve(q)
  <2>1. PICK question \in Questions :
          Become(q, [request[q] EXCEPT
            !.pc = IF Model /\ Selected(question, Documents(request[q].snapshot, stored)) # {}
                   THEN "generate" ELSE "answer",
            !.cites = Selected(question, Documents(request[q].snapshot, stored))])
    BY <1>10 DEF Retrieve
  <2> DEFINE cites == Selected(question, Documents(request[q].snapshot, stored))
             pc == IF Model /\ cites # {} THEN "generate" ELSE "answer"
  <2>2. Become(q, [request[q] EXCEPT !.pc = pc, !.cites = cites])
    BY <2>1
  <2>3. pc # "feedback"
    OBVIOUS
  <2> HIDE DEF cites, pc
  <2>4. [request[q] EXCEPT !.pc = pc, !.cites = cites].pc # "feedback"
    BY <1>0, <2>3 DEF Request
  <2> QED
    BY <2>2, <2>4, <1>5, <1>10 DEF Retrieve
<1>11. CASE Generate(q)
  <2>1. PICK cites : Become(q, [request[q] EXCEPT !.pc = "answer", !.cites = cites])
    BY <1>11 DEF Generate
  <2>2. [request[q] EXCEPT !.pc = "answer", !.cites = cites].pc # "feedback"
    BY <1>0 DEF Request
  <2> QED
    BY <2>1, <2>2, <1>5, <1>11 DEF Generate
<1>12. CASE SelectOld(q)
  <2>1. PICK ids : Become(q, [Idle EXCEPT !.pc = "purge", !.old = ids])
    BY <1>12 DEF SelectOld
  <2>2. [Idle EXCEPT !.pc = "purge", !.old = ids].pc # "feedback"
    BY DEF Idle
  <2> QED
    BY <2>1, <2>2, <1>5, <1>12 DEF SelectOld
<1> QED
  BY <1>1, <1>2, <1>3, <1>4, <1>6, <1>7, <1>8, <1>9, <1>10, <1>11, <1>12 DEF Handle

LEMMA NextPost ==
  ASSUME PostInv, OnePost, Inv, Inv', [Next]_vars PROVE PostInv'
<1>1. CASE StoreHistory \/ Publish \/ Age \/ UNCHANGED vars
  BY <1>1 DEF StoreHistory, Publish, Age, vars, PostInv, FeedbackWasPosted, FeedbackIsHeld
<1>2. CASE \E q \in Requests : Handle(q)
  BY <1>2, HandlePost
<1> QED
  BY <1>1, <1>2 DEF Next

\* As long as a user posts on an answer one request at a time,
\* what is stored is what was posted, whatever other users, the model and retention do.
THEOREM SequentialFeedback == Spec => SequentialFeedbackIsWhole
<1>1. Init => Inv /\ PostInv
  BY InitInv, InitPost
<1>2. Inv /\ [Next]_vars => Inv'
  BY NextInv
<1>3. Inv /\ Inv' /\ PostInv /\ OnePost /\ [Next]_vars => PostInv'
  BY NextPost
<1>4. PostInv => FeedbackWasPosted
  BY DEF PostInv
<1> QED
  BY <1>1, <1>2, <1>3, <1>4, PTL DEF Spec, SequentialFeedbackIsWhole
=============================================================================
