------------------------ MODULE DeliveryAudit_proofs ------------------------
(***************************************************************************)
(* Proofs about DeliveryAudit: for any number of requests, reports, claims *)
(* and commits, whatever the texts of claims, paths and messages.          *)
(***************************************************************************)
EXTENDS DeliveryAudit, FiniteSetTheorems, TLAPS

USE AuditAssumption

-----------------------------------------------------------------------------
(* Types                                                                    *)

\* The changes of published snapshots are finitely many.
LEMMA ChangesFinite ==
  ASSUME NEW heads \in SUBSET Commits
  PROVE  IsFiniteSet(Changes(heads))
<1> DEFINE P == (heads \X Scope) \X Paths
           R == [head : heads, sha : Scope, path : Paths]
           f == [t \in P |-> [head |-> t[1][1], sha |-> t[1][2], path |-> t[2]]]
<1>1. IsFiniteSet(heads) /\ IsFiniteSet(Scope)
  <2>1. IsFiniteSet(Commits)
    BY FS_Interval DEF Commits
  <2> QED BY <2>1, FS_Subset
<1>2. IsFiniteSet(P)
  <2>1. IsFiniteSet(heads \X Scope)
    BY <1>1, FS_Product
  <2> QED BY <2>1, FS_Product
<1>3. f \in Surjection(P, R)
  <2>1. f \in [P -> R]
    OBVIOUS
  <2>2. ASSUME NEW c \in R PROVE \E t \in P : f[t] = c
    <3>1. <<<<c.head, c.sha>>, c.path>> \in P
      OBVIOUS
    <3>2. f[<<<<c.head, c.sha>>, c.path>>] = c
      BY <3>1
    <3> QED BY <3>1, <3>2
  <2> QED BY <2>1, <2>2 DEF Surjection
<1>4. IsFiniteSet(R)
  BY <1>2, <1>3, FS_Surjection
<1>5. Changes(heads) \subseteq R
  BY DEF Changes
<1> QED BY <1>4, <1>5, FS_Subset

\* A claim is assessed with a status and cites changes that exist.
LEMMA AssessClaimTyped ==
  ASSUME NEW claim \in Claims, NEW heads \in SUBSET Commits
  PROVE  AssessClaim(claim, Changes(heads)) \in Verdict
<1>1. StatusOf(claim, Changes(heads)) \in Status
  BY DEF StatusOf, Status
<1>2. Cited(claim, Changes(heads)) \subseteq Evidence
  <2>1. ASSUME NEW c \in Changes(heads) PROVE <<c.sha, c.path>> \in Evidence
    BY DEF Changes, Evidence
  <2> QED BY <2>1 DEF Cited, Candidates
<1>3. {} \subseteq Evidence
  OBVIOUS
<1> QED BY <1>1, <1>2, <1>3 DEF AssessClaim, Verdict

\* Unreported changes have a path of the repository and a number.
LEMMA UnreportedTyped ==
  ASSUME NEW heads \in SUBSET Commits, NEW cited
  PROVE  UnreportedOf(Changes(heads), cited) \subseteq Unreported
<1> SUFFICES ASSUME NEW p \in {c.path : c \in Changes(heads)}
             PROVE  [path |-> p, observed |-> Cardinality({c \in Changes(heads) : c.path = p})]
                      \in Unreported
  BY DEF UnreportedOf
<1>1. p \in Paths
  BY DEF Changes
<1>2. IsFiniteSet({c \in Changes(heads) : c.path = p})
  BY ChangesFinite, FS_Subset
<1>3. Cardinality({c \in Changes(heads) : c.path = p}) \in Nat
  BY <1>2, FS_CardinalityType
<1> QED BY <1>1, <1>3 DEF Unreported

\* Every variable keeps its type, and every report has its idempotency record.
THEOREM AuditTyped == Spec => []TypeOK
<1>1. Init => TypeOK
  BY DEF Init, TypeOK, Idle, Request, Phase
<1>2. TypeOK /\ [Next]_vars => TypeOK'
  <2> SUFFICES ASSUME TypeOK, [Next]_vars PROVE TypeOK'
    OBVIOUS
  <2> USE DEF TypeOK
  <2>0. Idle \in Request
    BY DEF Idle, Request, Phase
  <2>1. ASSUME NEW q \in Requests, ReceiveCreate(q) PROVE TypeOK'
    <3>1. PICK r \in Reports, body \in Bodies :
            request' = [request EXCEPT ![q] = [Idle EXCEPT !.pc = "create", !.report = r, !.claims = body]]
      BY <2>1 DEF ReceiveCreate
    <3>2. [Idle EXCEPT !.pc = "create", !.report = r, !.claims = body] \in Request
      BY DEF Idle, Request, Phase
    <3> QED BY <2>1, <3>1, <3>2 DEF ReceiveCreate
  <2>2. ASSUME NEW q \in Requests, CommitCreate(q) PROVE TypeOK'
    <3>1. request[q].report \in Reports \cup {None} /\ request[q].claims \subseteq Claims
      BY DEF Request
    <3>2. request' \in [Requests -> Request]
      BY <2>2, <2>0 DEF CommitCreate, Done
    <3>3. CASE UNCHANGED <<recorded, reports, claims>>
      BY <2>2, <3>2, <3>3 DEF CommitCreate
    <3>4. CASE ~UNCHANGED <<recorded, reports, claims>>
      <4> DEFINE r == request[q].report
      <4>1. /\ recorded' = recorded \cup {r} /\ reports' = reports \cup {r}
            /\ claims' = [claims EXCEPT ![r] = request[q].claims]
        BY <2>2, <3>4 DEF CommitCreate
      <4>2. r \in Reports
        BY <2>2 DEF CommitCreate, Request
      <4> QED BY <2>2, <3>1, <3>2, <4>1, <4>2 DEF CommitCreate
    <3> QED BY <3>3, <3>4
  <2>3. ASSUME NEW q \in Requests, LoadReport(q) PROVE TypeOK'
    <3>1. PICK r \in reports :
            request' = [request EXCEPT ![q] =
              [Idle EXCEPT !.pc = "search", !.report = r, !.claims = claims[r], !.heads = published]]
      BY <2>3 DEF LoadReport
    <3>2. [Idle EXCEPT !.pc = "search", !.report = r, !.claims = claims[r], !.heads = published]
            \in Request
      BY DEF Idle, Request, Phase
    <3> QED BY <2>3, <3>1, <3>2 DEF LoadReport
  <2>4. ASSUME NEW q \in Requests, Assess(q) PROVE TypeOK'
    <3>1. /\ request[q].heads \in SUBSET Commits /\ request[q].claims \subseteq Claims
          /\ request[q].report \in Reports
      BY <2>4 DEF Assess, Request
    <3>2. \A c \in request[q].claims : AssessClaim(c, Changes(request[q].heads)) \in Verdict
      BY <3>1, AssessClaimTyped
    <3>3. \A cited : UnreportedOf(Changes(request[q].heads), cited) \subseteq Unreported
      BY <3>1, UnreportedTyped
    <3>30. \A open \in SUBSET request[q].claims :
             {AssessClaim(c, Changes(request[q].heads)) : c \in open} \subseteq Verdict
      BY <3>2
    <3>31. {c \in Open(q) : ToAssess(c, Changes(request[q].heads))} \in SUBSET request[q].claims
      BY DEF Open
    <3>4. PICK new \in SUBSET Verdict, paths \in SUBSET Unreported :
            request' = [request EXCEPT ![q] =
              [Idle EXCEPT !.pc = "assess", !.report = request[q].report,
                           !.claims = request[q].claims, !.verdicts = new, !.unreported = paths]]
      BY <2>4, <3>30, <3>31, <3>3 DEF Assess
    <3>5. [Idle EXCEPT !.pc = "assess", !.report = request[q].report,
                       !.claims = request[q].claims, !.verdicts = new, !.unreported = paths] \in Request
      BY <3>1 DEF Idle, Request, Phase
    <3> QED BY <2>4, <3>4, <3>5 DEF Assess
  <2>5. ASSUME NEW q \in Requests, CommitAssessment(q) PROVE TypeOK'
    <3>1. request[q].verdicts \subseteq Verdict /\ request[q].unreported \subseteq Unreported
      BY DEF Request
    <3>2. verdicts' \in [Reports -> SUBSET Verdict]
      BY <2>5, <3>1 DEF CommitAssessment
    <3>3. unreported' \in [Reports -> SUBSET Unreported]
      BY <2>5, <3>1 DEF CommitAssessment
    <3> QED BY <2>5, <2>0, <3>2, <3>3 DEF CommitAssessment, Done
  <2>6. ASSUME NEW q \in Requests, Raises(q) \/ RequestDies(q) PROVE TypeOK'
    BY <2>6, <2>0 DEF Raises, ParseRaises, AssessmentRaises, RequestDies, Done
  <2>7. ASSUME NEW q \in Requests, SelectExpired(q) PROVE TypeOK'
    <3>1. [Idle EXCEPT !.pc = "purge", !.expired = reports \cap expired] \in Request
      BY DEF Idle, Request, Phase
    <3> QED BY <2>7, <3>1 DEF SelectExpired
  <2>8. ASSUME NEW q \in Requests, Purge(q) PROVE TypeOK'
    <3>1. request' \in [Requests -> Request]
      BY <2>8, <2>0 DEF Purge, Done
    <3>2. /\ claims' \in [Reports -> SUBSET Claims]
          /\ verdicts' \in [Reports -> SUBSET Verdict]
          /\ unreported' \in [Reports -> SUBSET Unreported]
      BY <2>8 DEF Purge, Without
    <3> QED BY <2>8, <3>1, <3>2 DEF Purge
  <2>9. CASE Publish
    BY <2>9 DEF Publish
  <2>10. CASE Expire
    BY <2>10 DEF Expire
  <2>11. CASE UNCHANGED vars
    BY <2>11 DEF vars
  <2> QED BY <2>1, <2>2, <2>3, <2>4, <2>5, <2>6, <2>7, <2>8, <2>9, <2>10, <2>11
       DEF Next, Handle, Raises
<1> QED BY <1>1, <1>2, PTL DEF Spec

-----------------------------------------------------------------------------
(* The inductive invariant                                                  *)

\* A request that does not move keeps its promise while the reports it knows keep their claims
\* and their verdicts.
LEMMA OthersPending ==
  ASSUME NEW p \in Requests, Pending(p), request'[p] = request[p], recorded \subseteq recorded',
         \A r \in recorded : r \in reports' =>
           /\ r \in reports /\ claims'[r] = claims[r]
           /\ verdicts[r] # {} => verdicts'[r] = verdicts[r]
  PROVE  Pending(p)'
<1> DEFINE r == request[p].report
<1>1. request'[p].report = r
  OBVIOUS
<1>2. ASSUME request[p].pc \in {"search", "assess"}
      PROVE  r \in recorded' /\ (r \in reports' => request'[p].claims = claims'[r])
  BY <1>2 DEF Pending
<1>3. ASSUME request[p].pc = "assess", r \in reports', request[p].verdicts = {}
      PROVE  verdicts'[r] # {} /\ NoneCites(request[p].unreported, verdicts'[r])
  <2>1. r \in recorded /\ r \in reports
    BY <1>3 DEF Pending
  <2>2. verdicts[r] # {} /\ NoneCites(request[p].unreported, verdicts[r])
    BY <1>3, <2>1 DEF Pending
  <2> QED BY <1>3, <2>1, <2>2
<1>4. ASSUME request[p].pc = "assess"
      PROVE  /\ NoneCites(request[p].unreported, request[p].verdicts)
             /\ r \in reports' => {v.claim : v \in request[p].verdicts} \in {{}, request[p].claims}
  BY <1>2, <1>4 DEF Pending
<1> QED BY <1>1, <1>2, <1>3, <1>4 DEF Pending, NoneCites

\* A step of one request that writes no row keeps the invariant if it keeps that request's
\* promise.
LEMMA ReadersKeep ==
  ASSUME AuditInv, NEW q \in Requests, Pending(q)',
         \A p \in Requests \ {q} : request'[p] = request[p],
         UNCHANGED <<recorded, reports, claims, verdicts, unreported>>
  PROVE  AuditInv'
<1>1. \A p \in Requests : Pending(p)'
  BY OthersPending DEF AuditInv
<1>2. (ForeignKeys => NoOrphans') /\ AssessmentIsWhole'
  BY DEF AuditInv, NoOrphans, AssessmentIsWhole, Assessed
<1> QED BY <1>1, <1>2 DEF AuditInv, NoneCites

\* A request that has ended promises nothing.
LEMMA EndedPending ==
  ASSUME TypeOK, NEW q \in Requests, Done(q)
  PROVE  Pending(q)' /\ \A p \in Requests \ {q} : request'[p] = request[p]
<1>1. request'[q] = Idle
  BY DEF Done, TypeOK
<1>2. \A p \in Requests \ {q} : request'[p] = request[p]
  BY DEF Done, TypeOK
<1> QED BY <1>1, <1>2 DEF Pending, Idle

\* What is reported as unreported is not cited.
LEMMA UnreportedUncited ==
  ASSUME NEW changes, NEW cited, NEW u \in UnreportedOf(changes, cited)
  PROVE  u.path \notin cited
<1>1. PICK p \in {c.path : c \in changes} \ cited :
        u = [path |-> p, observed |-> Cardinality({c \in changes : c.path = p})]
  BY DEF UnreportedOf
<1> QED BY <1>1

\* What is going to be inserted: verdicts of all claims or of none, and paths that no verdict
\* cites, neither a new one nor one that was found.
LEMMA AssessPending ==
  ASSUME TypeOK, AuditInv, NEW q \in Requests, Assess(q)
  PROVE  Pending(q)'
<1> DEFINE r == request[q].report
           changes == Changes(request[q].heads)
           earlier == {v \in verdicts[r] : v.claim \in request[q].claims}
           open == {c \in request[q].claims : \A v \in earlier : v.claim # c}
           new == {AssessClaim(c, changes) : c \in open}
           paths == UnreportedOf(changes, CitedPaths(new) \cup CitedPaths(earlier))
<1>1. request' = [request EXCEPT ![q] =
        [Idle EXCEPT !.pc = "assess", !.report = r, !.claims = request[q].claims,
                     !.verdicts = new, !.unreported = paths]]
  BY DEF Assess, ToAssess, EarlierCited, Earlier, Open
<1>2. /\ request'[q].pc = "assess" /\ request'[q].report = r
      /\ request'[q].claims = request[q].claims
      /\ request'[q].verdicts = new /\ request'[q].unreported = paths
  BY <1>1 DEF TypeOK, Idle
<1>3. UNCHANGED <<recorded, reports, claims, verdicts>> /\ request[q].pc = "search"
  BY DEF Assess
<1>4. r \in recorded /\ (r \in reports => request[q].claims = claims[r])
  BY <1>3 DEF AuditInv, Pending
<1>5. r \in Reports /\ request[q].claims \subseteq Claims /\ request[q].heads \subseteq Commits
  BY <1>3 DEF TypeOK, Request
<1>6. earlier \subseteq Verdict /\ new \subseteq Verdict
  <2>1. verdicts[r] \subseteq Verdict
    BY <1>5 DEF TypeOK
  <2>2. \A c \in open : AssessClaim(c, changes) \in Verdict
    BY <1>5, AssessClaimTyped
  <2> QED BY <2>1, <2>2
<1>7. {v.claim : v \in new} = open
  <2> HIDE DEF open, changes
  <2>1. \A c \in open : AssessClaim(c, changes).claim = c
    BY DEF AssessClaim
  <2> QED BY <2>1
<1>8. ASSUME r \in reports PROVE open \in {{}, request[q].claims}
  <2>1. Assessed(r) \in {{}, request[q].claims}
    BY <1>4, <1>8 DEF AuditInv, AssessmentIsWhole
  <2>2. CASE verdicts[r] = {}
    BY <2>2
  <2>3. CASE verdicts[r] # {} /\ Assessed(r) = request[q].claims
    BY <2>3 DEF Assessed
  <2> QED BY <2>1, <2>2, <2>3 DEF Assessed
<1>9. ASSUME PlainPaths, NEW v \in earlier \cup new, NEW u \in paths, NEW e \in v.evidence
      PROVE  e[2] # u.path
  <2>1. v.evidence \subseteq Evidence
    BY <1>6 DEF Verdict
  <2>2. LastSegment[e[2]] = e[2]
    BY <2>1, <1>9 DEF Evidence, PlainPaths
  <2>3. LastSegment[e[2]] \in CitedPaths(new) \cup CitedPaths(earlier)
    BY <1>9 DEF CitedPaths
  <2>4. u.path \notin CitedPaths(new) \cup CitedPaths(earlier)
    BY <1>9, UnreportedUncited
  <2> QED BY <2>2, <2>3, <2>4
<1>10. ASSUME r \in reports, new = {}
       PROVE  verdicts[r] # {} /\ NoneCites(paths, verdicts[r])
  <2>1. request[q].claims # {} /\ request[q].claims = claims[r]
    BY <1>4, <1>10 DEF AuditInv
  <2>2. open = {}
    BY <1>7, <1>10
  <2>3. Assessed(r) = claims[r]
    <3>1. verdicts[r] # {}
      BY <2>1, <2>2
    <3> QED BY <1>10, <3>1 DEF AuditInv, AssessmentIsWhole, Assessed
  <2>4. earlier = verdicts[r]
    BY <2>1, <2>3 DEF Assessed
  <2> QED BY <1>9, <2>1, <2>3, <2>4 DEF Assessed, NoneCites
<1>11. r \in reports => {v.claim : v \in request'[q].verdicts} \in {{}, request'[q].claims}
  BY <1>2, <1>7, <1>8
<1>12. NoneCites(paths, new)
  BY <1>9 DEF NoneCites
<1> QED BY <1>2, <1>3, <1>4, <1>10, <1>11, <1>12 DEF Pending, NoneCites

\* A report that is created has claims, and neither verdicts nor unreported changes.
LEMMA CreateKeeps ==
  ASSUME TypeOK, AuditInv, NEW q \in Requests, CommitCreate(q)
  PROVE  AuditInv'
<1> DEFINE r == request[q].report
<1>1. Pending(q)' /\ \A p \in Requests \ {q} : request'[p] = request[p]
  BY EndedPending DEF CommitCreate
<1>2. CASE r \in recorded
  BY <1>1, <1>2, ReadersKeep DEF CommitCreate
<1>3. CASE r \notin recorded
  <2>1. r \in Reports /\ request[q].claims \in Bodies
    BY DEF AuditInv, Pending, CommitCreate
  <2>2. /\ recorded' = recorded \cup {r} /\ reports' = reports \cup {r}
        /\ claims'[r] = request[q].claims /\ \A s \in Reports \ {r} : claims'[s] = claims[s]
        /\ UNCHANGED <<verdicts, unreported>>
    BY <1>3, <2>1 DEF CommitCreate, TypeOK
  <2>3. r \notin reports /\ verdicts[r] = {} /\ unreported[r] = {}
    BY <1>3, <2>1 DEF TypeOK, AuditInv
  <2>4. \A p \in Requests : Pending(p)'
    <3>1. \A s \in recorded : s \in reports' => s \in reports /\ claims'[s] = claims[s]
      BY <1>3, <2>2 DEF TypeOK
    <3> QED BY <1>1, <2>2, <3>1, OthersPending DEF AuditInv
  <2>5. /\ \A s \in Reports \ reports' : claims'[s] = {}
        /\ \A s \in Reports \ recorded' : verdicts'[s] = {} /\ unreported'[s] = {}
        /\ ForeignKeys => NoOrphans'
    BY <2>2 DEF AuditInv, NoOrphans
  <2>6. AssessmentIsWhole'
    <3>1. ASSUME NEW s \in reports' PROVE Assessed(s)' \in {{}, claims'[s]}
      <4>1. CASE s = r
        BY <2>2, <2>3, <4>1 DEF Assessed
      <4>2. CASE s # r
        BY <2>2, <3>1, <4>2 DEF AuditInv, AssessmentIsWhole, Assessed, TypeOK
      <4> QED BY <4>1, <4>2
    <3> QED BY <3>1 DEF AssessmentIsWhole
  <2>7. ASSUME NEW s \in reports'
        PROVE  /\ claims'[s] # {} /\ (unreported'[s] # {} => verdicts'[s] # {})
               /\ NoneCites(unreported'[s], verdicts'[s])
    <3>1. CASE s = r
      BY <2>1, <2>2, <2>3, <3>1 DEF NoneCites
    <3>2. CASE s # r
      BY <2>2, <2>7, <3>2 DEF AuditInv, TypeOK
    <3> QED BY <3>1, <3>2
  <2> QED BY <2>4, <2>5, <2>6, <2>7 DEF AuditInv, NoneCites
<1> QED BY <1>2, <1>3

\* What a request that commits finds and inserts, if its report is still there: no verdict, and
\* nothing of the report that is cited; or verdicts of all claims of a report that had none.
LEMMA Committed ==
  ASSUME TypeOK, AuditInv, NEW q \in Requests, CommitAssessment(q), request[q].report \in reports
  PROVE  LET r == request[q].report
             new == request[q].verdicts
         IN \/ /\ new = {} /\ verdicts[r] # {}
               /\ NoneCites(request[q].unreported, verdicts[r])
            \/ /\ new # {} /\ verdicts[r] = {} /\ unreported[r] = {}
               /\ {v.claim : v \in new} = claims[r]
               /\ NoneCites(request[q].unreported, new)
<1> DEFINE r == request[q].report
           new == request[q].verdicts
<1>1. request[q].pc = "assess" /\ ~RowAgain(q)
  BY DEF CommitAssessment
<1>2. /\ {v.claim : v \in new} \in {{}, claims[r]}
      /\ NoneCites(request[q].unreported, new)
      /\ new = {} => verdicts[r] # {} /\ NoneCites(request[q].unreported, verdicts[r])
  BY <1>1 DEF AuditInv, Pending
<1>3. CASE new = {}
  BY <1>2, <1>3
<1>4. CASE new # {}
  <2>1. {v.claim : v \in new} = claims[r]
    BY <1>2, <1>4
  <2>2. \A v \in new, w \in verdicts[r] : v.claim # w.claim
    BY <1>1 DEF RowAgain
  <2>3. Assessed(r) # claims[r]
    BY <1>4, <2>1, <2>2 DEF Assessed
  <2>4. verdicts[r] = {}
    BY <2>3 DEF AuditInv, AssessmentIsWhole, Assessed
  <2>5. unreported[r] = {}
    BY <2>4 DEF AuditInv
  <2> QED BY <1>2, <1>4, <2>1, <2>4, <2>5
<1> QED BY <1>3, <1>4

\* An assessment that is committed leaves its report assessed whole, and nothing it reports as
\* unreported cited.
LEMMA CommitKeeps ==
  ASSUME TypeOK, AuditInv, NEW q \in Requests, CommitAssessment(q)
  PROVE  AuditInv'
<1> DEFINE r == request[q].report
           new == request[q].verdicts
           paths == request[q].unreported
<1>1. Pending(q)' /\ \A p \in Requests \ {q} : request'[p] = request[p]
  BY EndedPending DEF CommitAssessment
<1>2. r \in Reports /\ r \in recorded
  BY DEF CommitAssessment, TypeOK, Request, AuditInv, Pending
<1>3. /\ verdicts'[r] = verdicts[r] \cup new /\ unreported'[r] = unreported[r] \cup paths
      /\ \A s \in Reports \ {r} : verdicts'[s] = verdicts[s] /\ unreported'[s] = unreported[s]
      /\ UNCHANGED <<recorded, reports, claims>>
  BY <1>2 DEF CommitAssessment, TypeOK
<1>4. r \in reports =>
        \/ new = {} /\ verdicts[r] # {} /\ NoneCites(paths, verdicts[r])
        \/ /\ new # {} /\ verdicts[r] = {} /\ unreported[r] = {}
           /\ {v.claim : v \in new} = claims[r] /\ NoneCites(paths, new)
  BY Committed
<1>5. \A s \in reports : verdicts[s] # {} => verdicts'[s] = verdicts[s]
  BY <1>3, <1>4 DEF TypeOK
<1>6. \A p \in Requests : Pending(p)'
  BY <1>1, <1>3, <1>5, OthersPending DEF AuditInv
<1>7. /\ \A s \in Reports \ reports' : claims'[s] = {}
      /\ \A s \in Reports \ recorded' : verdicts'[s] = {} /\ unreported'[s] = {}
  BY <1>2, <1>3 DEF AuditInv
<1>8. ForeignKeys => NoOrphans'
  <2> SUFFICES ASSUME ForeignKeys, NEW s \in Reports \ reports'
               PROVE  claims'[s] = {} /\ verdicts'[s] = {} /\ unreported'[s] = {}
    BY DEF NoOrphans
  <2>1. claims[s] = {} /\ verdicts[s] = {} /\ unreported[s] = {}
    BY <1>3 DEF AuditInv, NoOrphans
  <2>2. s = r => new = {} /\ paths = {}
    BY <1>3, <2>1 DEF CommitAssessment, ParentGone
  <2> QED BY <1>3, <2>1, <2>2
<1>9. AssessmentIsWhole'
  <2>1. ASSUME NEW s \in reports' PROVE Assessed(s)' \in {{}, claims'[s]}
    <3>1. CASE verdicts'[s] = verdicts[s]
      BY <1>3, <2>1, <3>1 DEF AuditInv, AssessmentIsWhole, Assessed
    <3>2. CASE verdicts'[s] # verdicts[s]
      <4>1. s = r /\ s \in reports
        BY <1>3, <2>1, <3>2 DEF TypeOK
      <4>2. verdicts'[s] = new /\ {v.claim : v \in new} = claims[s]
        BY <1>3, <1>4, <3>2, <4>1
      <4> QED BY <1>3, <4>2 DEF Assessed
    <3> QED BY <3>1, <3>2
  <2> QED BY <2>1 DEF AssessmentIsWhole
<1>10. ASSUME NEW s \in reports'
       PROVE  /\ claims'[s] # {} /\ (unreported'[s] # {} => verdicts'[s] # {})
              /\ NoneCites(unreported'[s], verdicts'[s])
  <2>1. s \in reports /\ s \in Reports
    BY <1>3, <1>10 DEF TypeOK
  <2>2. claims[s] # {} /\ (unreported[s] # {} => verdicts[s] # {}) /\ NoneCites(unreported[s], verdicts[s])
    BY <2>1 DEF AuditInv
  <2>3. CASE s = r
    BY <1>3, <1>4, <2>1, <2>2, <2>3 DEF NoneCites
  <2>4. CASE s # r
    BY <1>3, <2>1, <2>2, <2>4
  <2> QED BY <2>3, <2>4
<1> QED BY <1>6, <1>7, <1>8, <1>9, <1>10 DEF AuditInv, NoneCites

\* Retention deletes a report with all its rows.
LEMMA PurgeKeeps ==
  ASSUME TypeOK, AuditInv, NEW q \in Requests, Purge(q)
  PROVE  AuditInv'
<1> DEFINE gone == request[q].expired
<1>1. Pending(q)' /\ \A p \in Requests \ {q} : request'[p] = request[p]
  BY EndedPending DEF Purge
<1>2. /\ reports' = reports \ gone /\ recorded' = recorded
      /\ \A s \in Reports : /\ claims'[s] = IF s \in gone THEN {} ELSE claims[s]
                            /\ verdicts'[s] = IF s \in gone THEN {} ELSE verdicts[s]
                            /\ unreported'[s] = IF s \in gone THEN {} ELSE unreported[s]
  BY DEF Purge, Without
<1>3. \A p \in Requests : Pending(p)'
  <2>1. recorded \subseteq Reports
    BY DEF TypeOK
  <2> QED BY <1>1, <1>2, <2>1, OthersPending DEF AuditInv
<1>4. /\ \A s \in Reports \ reports' : claims'[s] = {}
      /\ \A s \in Reports \ recorded' : verdicts'[s] = {} /\ unreported'[s] = {}
      /\ ForeignKeys => NoOrphans'
  BY <1>2 DEF AuditInv, NoOrphans
<1>5. \A s \in reports' : s \in reports /\ s \in Reports /\ claims'[s] = claims[s]
        /\ verdicts'[s] = verdicts[s] /\ unreported'[s] = unreported[s]
  BY <1>2 DEF TypeOK
<1>6. AssessmentIsWhole'
  BY <1>5 DEF AuditInv, AssessmentIsWhole, Assessed
<1>7. \A s \in reports' : /\ claims'[s] # {} /\ (unreported'[s] # {} => verdicts'[s] # {})
                          /\ NoneCites(unreported'[s], verdicts'[s])
  BY <1>5 DEF AuditInv
<1> QED BY <1>3, <1>4, <1>6, <1>7 DEF AuditInv, NoneCites

\* Every step keeps the invariant.
LEMMA AuditStep ==
  ASSUME TypeOK, AuditInv, [Next]_vars
  PROVE  AuditInv'
<1>1. ASSUME NEW q \in Requests, ReceiveCreate(q) PROVE AuditInv'
  <2>1. PICK r \in Reports \ recorded, body \in Bodies :
          request' = [request EXCEPT ![q] = [Idle EXCEPT !.pc = "create", !.report = r, !.claims = body]]
    BY <1>1 DEF ReceiveCreate
  <2>2. /\ request'[q].pc = "create" /\ request'[q].report = r /\ request'[q].claims = body
        /\ \A p \in Requests \ {q} : request'[p] = request[p]
    BY <2>1 DEF TypeOK, Idle
  <2>3. Pending(q)'
    BY <2>2 DEF Pending
  <2> QED BY <1>1, <2>2, <2>3, ReadersKeep DEF ReceiveCreate
<1>2. ASSUME NEW q \in Requests, LoadReport(q) PROVE AuditInv'
  <2>1. PICK r \in reports :
          request' = [request EXCEPT ![q] =
            [Idle EXCEPT !.pc = "search", !.report = r, !.claims = claims[r], !.heads = published]]
    BY <1>2 DEF LoadReport
  <2>2. /\ request'[q].pc = "search" /\ request'[q].report = r /\ request'[q].claims = claims[r]
        /\ \A p \in Requests \ {q} : request'[p] = request[p]
    BY <2>1 DEF TypeOK, Idle
  <2>3. r \in recorded' /\ claims'[r] = claims[r]
    BY <1>2 DEF LoadReport, TypeOK
  <2>4. Pending(q)'
    BY <2>2, <2>3 DEF Pending
  <2> QED BY <1>2, <2>2, <2>4, ReadersKeep DEF LoadReport
<1>3. ASSUME NEW q \in Requests, Assess(q) PROVE AuditInv'
  <2>1. \A p \in Requests \ {q} : request'[p] = request[p]
    BY <1>3 DEF Assess, TypeOK
  <2>2. Pending(q)'
    BY <1>3, AssessPending
  <2> QED BY <1>3, <2>1, <2>2, ReadersKeep DEF Assess
<1>4. ASSUME NEW q \in Requests, Raises(q) \/ RequestDies(q) PROVE AuditInv'
  BY <1>4, EndedPending, ReadersKeep DEF Raises, ParseRaises, AssessmentRaises, RequestDies
<1>5. ASSUME NEW q \in Requests, SelectExpired(q) PROVE AuditInv'
  <2>1. /\ request'[q].pc = "purge" /\ \A p \in Requests \ {q} : request'[p] = request[p]
    BY <1>5 DEF SelectExpired, TypeOK, Idle
  <2>2. Pending(q)'
    BY <2>1 DEF Pending
  <2> QED BY <1>5, <2>1, <2>2, ReadersKeep DEF SelectExpired
<1>6. CASE Publish \/ Expire \/ UNCHANGED vars
  <2>1. UNCHANGED <<recorded, reports, claims, verdicts, unreported, request>>
    BY <1>6 DEF Publish, Expire, vars
  <2>2. \A p \in Requests : Pending(p)'
    BY <2>1 DEF AuditInv, Pending, NoneCites
  <2>3. (ForeignKeys => NoOrphans') /\ AssessmentIsWhole'
    BY <2>1 DEF AuditInv, NoOrphans, AssessmentIsWhole, Assessed
  <2> QED BY <2>1, <2>2, <2>3 DEF AuditInv, NoneCites
<1> QED BY <1>1, <1>2, <1>3, <1>4, <1>5, <1>6, CreateKeeps, CommitKeeps, PurgeKeeps
     DEF Next, Handle, Raises

\* However requests overlap, on any database and for any paths, the inductive invariant holds.
THEOREM AuditCorrect == Spec => []AuditInv
<1>1. Init => AuditInv
  BY DEF Init, AuditInv, NoOrphans, AssessmentIsWhole, Assessed, NoneCites, Pending, Idle
<1>2. TypeOK /\ AuditInv /\ [Next]_vars => AuditInv'
  BY AuditStep
<1> QED BY <1>1, <1>2, AuditTyped, PTL DEF Spec

\* On a database with foreign keys, nothing is left of a deleted report, also if it was being
\* assessed.
THEOREM PurgedReportsAreGone == ASSUME ForeignKeys PROVE Spec => []NoOrphans
<1>1. AuditInv => NoOrphans
  BY DEF AuditInv
<1> QED BY <1>1, AuditCorrect, PTL

\* However many assessments of a report overlap, all its claims have a verdict or none has.
THEOREM AssessedWhole == Spec => []AssessmentIsWhole
<1>1. AuditInv => AssessmentIsWhole
  BY DEF AuditInv
<1> QED BY <1>1, AuditCorrect, PTL

\* No path is reported as unreported that a claim of the same report cites, if no path has a
\* colon: on a database with foreign keys, as nothing is then left of a deleted report.
THEOREM UnreportedAreUncited ==
  ASSUME ForeignKeys, PlainPaths
  PROVE  Spec => []UnreportedIsNotCited
<1>1. AuditInv => UnreportedIsNotCited
  BY DEF AuditInv, NoOrphans, NoneCites, UnreportedIsNotCited
<1> QED BY <1>1, AuditCorrect, PTL

\* A verdict is given once: as long as its report exists, no step changes it.
THEOREM VerdictsStay == Spec => VerdictsAreFinal
<1> DEFINE Stay == \A r \in reports \cap reports' : verdicts[r] # {} => verdicts'[r] = verdicts[r]
<1>1. ASSUME TypeOK, AuditInv, [Next]_vars PROVE Stay
  <2>1. ASSUME NEW q \in Requests, CommitAssessment(q) PROVE Stay
    <3>1. \A r \in Reports : verdicts'[r] # verdicts[r] =>
            r = request[q].report /\ verdicts'[r] = verdicts[r] \cup request[q].verdicts
      BY <2>1 DEF CommitAssessment, TypeOK
    <3>2. request[q].report \in reports =>
            request[q].verdicts = {} \/ verdicts[request[q].report] = {}
      BY <1>1, <2>1, Committed
    <3> QED BY <1>1, <3>1, <3>2 DEF TypeOK
  <2>2. ASSUME NEW q \in Requests, Purge(q) PROVE Stay
    BY <1>1, <2>2 DEF Purge, Without, TypeOK
  <2>3. CASE UNCHANGED verdicts
    BY <2>3
  <2> QED BY <1>1, <2>1, <2>2, <2>3
        DEF Next, Handle, vars, Publish, Expire, ReceiveCreate, CommitCreate, LoadReport, Assess,
            Raises, ParseRaises, AssessmentRaises, SelectExpired, RequestDies
<1>2. Spec => []TypeOK /\ []AuditInv
  BY AuditTyped, AuditCorrect
<1>3. TypeOK /\ AuditInv /\ [Next]_vars => [Stay]_vars
  BY <1>1
<1> QED BY <1>2, <1>3, PTL DEF Spec, VerdictsAreFinal

\* Only a second assessment of a report can answer 500, one that retention overtook, or one of a
\* report with a claim that does not parse.
THEOREM FirstAssessments == Spec => FirstAssessmentSucceeds
<1> DEFINE Excused(q) == request[q].report \notin reports \/ verdicts[request[q].report] # {}
                           \/ claims[request[q].report] \cap Unparsable # {}
           Excuse == \A q \in Requests : Raises(q) => Excused(q)
<1>1. ASSUME TypeOK, AuditInv, NEW q \in Requests, AssessmentRaises(q) PROVE Excused(q)
  <2> DEFINE r == request[q].report
  <2> SUFFICES ASSUME r \in reports PROVE verdicts[r] # {}
    OBVIOUS
  <2>1. request[q].pc = "assess" /\ (RowAgain(q) \/ ParentGone(q))
    BY <1>1 DEF AssessmentRaises
  <2>2. request[q].claims = claims[r] /\ (unreported[r] # {} => verdicts[r] # {})
    BY <1>1, <2>1 DEF AuditInv, Pending
  <2>3. {v.claim : v \in request[q].verdicts} \in {{}, request[q].claims}
    BY <1>1, <2>1 DEF AuditInv, Pending
  <2>4. \A v \in request[q].verdicts : v.claim \in claims[r]
    BY <2>2, <2>3
  <2>5. ~ParentGone(q)
    BY <2>4 DEF ParentGone
  <2>6. RowAgain(q)
    BY <2>1, <2>5
  <2> QED BY <2>2, <2>6 DEF RowAgain, PathAgain
<1>2. ASSUME TypeOK, AuditInv, NEW q \in Requests, ParseRaises(q) PROVE Excused(q)
  <2> SUFFICES ASSUME request[q].report \in reports
               PROVE  claims[request[q].report] \cap Unparsable # {}
    OBVIOUS
  <2>1. request[q].pc = "search" /\ Open(q) \cap Unparsable # {}
    BY <1>2 DEF ParseRaises
  <2>2. request[q].claims = claims[request[q].report]
    BY <1>2, <2>1 DEF AuditInv, Pending
  <2> QED BY <2>1, <2>2 DEF Open
<1>3. TypeOK /\ AuditInv => Excuse
  BY <1>1, <1>2 DEF Raises
<1>4. Spec => []TypeOK /\ []AuditInv
  BY AuditTyped, AuditCorrect
<1>5. Excuse => [Excuse]_vars
  OBVIOUS
<1> QED BY <1>3, <1>4, <1>5, PTL DEF FirstAssessmentSucceeds
=============================================================================
