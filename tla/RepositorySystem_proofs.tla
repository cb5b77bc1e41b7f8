---------------------- MODULE RepositorySystem_proofs ----------------------
(***************************************************************************)
(* Proofs about routes/repositories.py.                                    *)
(*                                                                         *)
(* POST /repositories keeps records, repositories and sources one to one,  *)
(* and implements IdempotentCreate, for any clients, keys and bodies.      *)
(* Connections hold their promises for any number of administrators and    *)
(* threads, every backend and every combination of faults.  Both hold of   *)
(* the system composed of the two.                                         *)
(***************************************************************************)
EXTENDS RepositorySystem, TLAPS

USE ConnectionAssumption, RegistrationAssumption

-----------------------------------------------------------------------------
(* Connections                                                             *)

\* Flushing typed columns leaves a typed row.
LEMMA FlushTyped ==
  ASSUME connection \in Row, NEW loaded, NEW envelope \in Envelope, NEW revoked \in BOOLEAN,
         Flush(loaded, [envelope |-> envelope, revoked |-> revoked])
  PROVE  connection' \in Row
<1>1. /\ Column(connection.envelope, loaded.envelope, envelope) \in Envelope
      /\ Column(connection.revoked, loaded.revoked, revoked) \in BOOLEAN
  BY DEF Column, Row
<1> QED BY <1>1 DEF Flush, Row

\* Every variable keeps its type.
THEOREM ConnectionTyped == Spec => []TypeOK
<1>1. Init => TypeOK
  <2>1. 0 \in Envelope /\ 0 \in Pending
    BY DEF Envelope, Pending
  <2>2. NoRow \in Row
    BY <2>1 DEF NoRow, Row
  <2>3. Idle \in Request /\ Resting \in Thread
    BY <2>1, <2>2 DEF Idle, Request, Resting, Thread
  <2>4. [pending |-> 0, result |-> FALSE] \in [pending : Pending, result : BOOLEAN]
    BY <2>1
  <2>5. ASSUME Init PROVE request \in [Admins -> Request] /\ thread \in [Threads -> Thread]
    BY <2>3, <2>5 DEF Init
  <2>6. ASSUME Init PROVE deletion \in [pending : Pending, result : BOOLEAN]
    BY <2>4, <2>6 DEF Init
  <2>7. ASSUME Init PROVE connection \in Row /\ mirror \in BOOLEAN
    BY <2>2, <2>7 DEF Init
  <2>8. ASSUME Init PROVE puts \in Envelope /\ revocations \in Nat
    BY <2>1, <2>8 DEF Init
  <2> QED BY <2>5, <2>6, <2>7, <2>8 DEF TypeOK
<1>2. TypeOK /\ [Next]_vars => TypeOK'
  <2> SUFFICES ASSUME TypeOK, [Next]_vars PROVE TypeOK'
    OBVIOUS
  <2> USE DEF TypeOK
  <2>0. Idle \in Request /\ Resting \in Thread
    BY DEF Idle, NoRow, Row, Request, Resting, Thread, Envelope
  <2>1. ASSUME NEW a \in Admins, LoadForPut(a) PROVE TypeOK'
    <3>1. puts + 1 \in Envelope
      BY <2>1 DEF LoadForPut, Envelope
    <3>2. [pc |-> "put", row |-> connection, envelope |-> puts + 1] \in Request
      BY <3>1 DEF Request
    <3> QED BY <2>1, <3>1, <3>2 DEF LoadForPut
  <2>2. ASSUME NEW a \in Admins, CommitPut(a) PROVE TypeOK'
    <3>1. request[a].row \in Row /\ request[a].envelope \in Envelope
      BY DEF Request
    <3>2. connection' \in Row
      <4>1. CASE UNCHANGED connection
        BY <4>1
      <4>2. CASE connection' = [present |-> TRUE, envelope |-> request[a].envelope,
                                revoked |-> FALSE]
        BY <4>2, <3>1 DEF Row
      <4>3. CASE Flush(request[a].row, [envelope |-> request[a].envelope, revoked |-> FALSE])
        BY <4>3, <3>1, FlushTyped
      <4> QED BY <2>2, <4>1, <4>2, <4>3 DEF CommitPut
    <3> QED BY <2>2, <2>0, <3>2 DEF CommitPut
  <2>3. ASSUME NEW a \in Admins, LoadForRevoke(a) PROVE TypeOK'
    <3>1. [pc |-> "revoke", row |-> connection, envelope |-> 0] \in Request
      BY DEF Request, Envelope
    <3> QED BY <2>3, <3>1 DEF LoadForRevoke
  <2>4. ASSUME NEW a \in Admins, CommitRevoke(a) PROVE TypeOK'
    <3>1. connection' \in Row
      <4>1. Flush(request[a].row, [envelope |-> 0, revoked |-> TRUE])
        BY <2>4 DEF CommitRevoke, Revoked
      <4>2. 0 \in Envelope
        BY DEF Envelope
      <4> QED BY <4>1, <4>2, FlushTyped
    <3>2. [Idle EXCEPT !.pc = "enqueue"] \in Request
      BY <2>0 DEF Request
    <3> QED BY <2>4, <3>1, <3>2 DEF CommitRevoke
  <2>5. ASSUME NEW a \in Admins, EnqueueDeletion(a) PROVE TypeOK'
    <3>1. deletion.pending \in Pending
      OBVIOUS
    <3>2. CASE Backend = "inline"
      BY <2>5, <2>0, <3>1, <3>2 DEF EnqueueDeletion, Enqueued, Pending
    <3>3. CASE Backend # "inline" /\ deletion' = deletion
      BY <2>5, <2>0, <3>3 DEF EnqueueDeletion
    <3>4. CASE Backend # "inline" /\ deletion' = [deletion EXCEPT !.pending = 1]
      <4>1. 1 \in Pending
        BY <3>4 DEF Pending
      <4> QED BY <2>5, <2>0, <3>4, <4>1 DEF EnqueueDeletion
    <3> QED BY <2>5, <3>2, <3>3, <3>4 DEF EnqueueDeletion, Enqueued
  <2>6. ASSUME NEW a \in Admins, RequestDies(a) PROVE TypeOK'
    BY <2>6, <2>0 DEF RequestDies
  <2>7. ASSUME NEW t \in Threads, LoadCredential(t) PROVE TypeOK'
    <3>1. \A v \in Envelope : [pc |-> "fetch", envelope |-> v] \in Thread
      BY DEF Thread
    <3>2. connection.envelope \in Envelope /\ 0 \in Envelope
      BY DEF Row, Envelope
    <3> QED BY <2>7, <3>1, <3>2 DEF LoadCredential
  <2>8. ASSUME NEW t \in Threads, Fetch(t) \/ FetchRefused(t) PROVE TypeOK'
    BY <2>8, <2>0 DEF Fetch, FetchRefused
  <2>9. CASE DeleteMirror \/ DeletionFails
    <3>1. deletion.pending \in Pending /\ deletion.pending > 0
      BY <2>9 DEF DeleteMirror, DeletionFails
    <3>2. deletion.pending - 1 \in Pending
      BY <3>1 DEF Pending
    <3>3. Executed \in [pending : Pending, result : BOOLEAN]
      BY <3>2 DEF Executed
    <3> QED BY <2>9, <3>3 DEF DeleteMirror, DeletionFails
  <2>10. CASE ResultExpires
    BY <2>10 DEF ResultExpires
  <2>11. CASE UNCHANGED vars
    BY <2>11 DEF vars
  <2> QED BY <2>1, <2>2, <2>3, <2>4, <2>5, <2>6, <2>7, <2>8, <2>9, <2>10, <2>11 DEF Next, Admin
<1> QED BY <1>1, <1>2, PTL DEF Spec

\* The promises about a request survive a step that touches no request and takes no envelope back.
LEMMA RequestsFrame ==
  ASSUME TypeOK, ConnectionInv, UNCHANGED <<request, connection, puts>>
  PROVE  ConnectionInv'
BY DEF ConnectionInv, ConnectedHasEnvelope

\* A request that ends leaves the promises of the others.
LEMMA RequestEnds ==
  ASSUME TypeOK, ConnectionInv, NEW a \in Admins,
         \/ request' = [request EXCEPT ![a] = Idle]
         \/ request' = [request EXCEPT ![a] = [Idle EXCEPT !.pc = "enqueue"]],
         UNCHANGED puts, connection'.envelope <= puts, ConnectedHasEnvelope'
  PROVE  ConnectionInv'
BY DEF ConnectionInv, TypeOK, Request, Idle, NoRow, Envelope

\* Every step keeps the envelopes fresh and the connected row decryptable.
THEOREM ConnectionCorrect == Spec => []ConnectionInv
<1>1. Init => ConnectionInv
  BY DEF Init, ConnectionInv, ConnectedHasEnvelope, NoRow, Idle
<1>2. TypeOK /\ ConnectionInv /\ [Next]_vars => ConnectionInv'
  <2> SUFFICES ASSUME TypeOK, ConnectionInv, [Next]_vars PROVE ConnectionInv'
    OBVIOUS
  <2>1. ASSUME NEW a \in Admins, LoadForPut(a) PROVE ConnectionInv'
    <3>1. request'[a] = [pc |-> "put", row |-> connection, envelope |-> puts + 1]
      BY <2>1 DEF LoadForPut, TypeOK
    <3>2. \A b \in Admins \ {a} : request'[b] = request[b]
      BY <2>1 DEF LoadForPut, TypeOK
    <3>3. connection \in Row /\ puts \in Nat /\ puts' = puts + 1 /\ connection' = connection
      BY <2>1 DEF LoadForPut, TypeOK, Envelope
    <3>4. \A b \in Admins : request[b] \in Request
      BY DEF TypeOK
    <3> QED BY <3>1, <3>2, <3>3, <3>4 DEF ConnectionInv, ConnectedHasEnvelope, Row, Request, Envelope
  <2>2. ASSUME NEW a \in Admins, CommitPut(a) PROVE ConnectionInv'
    <3> DEFINE q == request[a]
    <3>1. q.pc = "put" /\ q \in Request
      BY <2>2 DEF CommitPut, TypeOK
    <3>2. q.row.envelope < q.envelope /\ q.envelope <= puts
      BY <3>1 DEF ConnectionInv
    <3>3. connection' = connection \/ connection'.envelope = q.envelope
      <4>1. q.row.envelope # q.envelope
        BY <3>1, <3>2 DEF Request, Row, Envelope
      <4>2. CASE Flush(q.row, [envelope |-> q.envelope, revoked |-> FALSE])
        BY <4>1, <4>2 DEF Flush, Column
      <4> QED BY <2>2, <4>2 DEF CommitPut
    <3>4. q.envelope # 0 /\ q.envelope \in Nat
      BY <3>1, <3>2 DEF Request, Row, Envelope
    <3> QED BY <2>2, <3>2, <3>3, <3>4, RequestEnds
            DEF CommitPut, ConnectionInv, ConnectedHasEnvelope
  <2>3. ASSUME NEW a \in Admins, LoadForRevoke(a) PROVE ConnectionInv'
    <3>1. request'[a] = [pc |-> "revoke", row |-> connection, envelope |-> 0]
      BY <2>3 DEF LoadForRevoke, TypeOK
    <3>2. \A b \in Admins \ {a} : request'[b] = request[b]
      BY <2>3 DEF LoadForRevoke, TypeOK
    <3> QED BY <2>3, <3>1, <3>2 DEF LoadForRevoke, ConnectionInv, ConnectedHasEnvelope
  <2>4. ASSUME NEW a \in Admins, CommitRevoke(a) PROVE ConnectionInv'
    <3> DEFINE q == request[a]
    <3>1. q.row.envelope # 0 /\ ~q.row.revoked /\ q \in Request
      BY <2>4 DEF CommitRevoke, ConnectionInv, TypeOK
    <3>2. connection'.envelope = 0 /\ connection'.revoked
      BY <2>4, <3>1 DEF CommitRevoke, Flush, Column, Revoked, Request, Row
    <3>3. 0 <= puts
      BY DEF TypeOK, Envelope
    <3> QED BY <2>4, <3>2, <3>3, RequestEnds DEF CommitRevoke, ConnectedHasEnvelope
  <2>5. ASSUME NEW a \in Admins, EnqueueDeletion(a) \/ RequestDies(a) PROVE ConnectionInv'
    BY <2>5, RequestEnds DEF EnqueueDeletion, RequestDies, ConnectionInv, ConnectedHasEnvelope
  <2>6. ASSUME NEW t \in Threads, LoadCredential(t) \/ Fetch(t) \/ FetchRefused(t)
        PROVE  ConnectionInv'
    BY <2>6, RequestsFrame DEF LoadCredential, Fetch, FetchRefused
  <2>7. CASE DeleteMirror \/ DeletionFails \/ ResultExpires
    BY <2>7, RequestsFrame DEF DeleteMirror, DeletionFails, ResultExpires
  <2>8. CASE UNCHANGED vars
    BY <2>8, RequestsFrame DEF vars
  <2> QED BY <2>1, <2>2, <2>3, <2>4, <2>5, <2>6, <2>7, <2>8 DEF Next, Admin
<1> QED BY <1>1, <1>2, ConnectionTyped, PTL DEF Spec

\* Whatever puts and revocations overlap, a connected repository has an envelope to decrypt.
THEOREM ConnectedCanDecrypt == Spec => []ConnectedHasEnvelope
<1>1. ConnectionInv => ConnectedHasEnvelope
  BY DEF ConnectionInv
<1> QED BY <1>1, ConnectionCorrect, PTL

-----------------------------------------------------------------------------
(* Requests one at a time                                                   *)

\* What a request loaded is what is committed when nobody else commits.
LoadedIsCommitted ==
  /\ RevokedIsErased
  /\ \A a \in Admins : request[a].pc \in {"put", "revoke"} => request[a].row = connection

LEMMA LoadedStep ==
  ASSUME TypeOK, ConnectionInv, OneAtATime, LoadedIsCommitted, [Next]_vars
  PROVE  LoadedIsCommitted'
<1>1. ASSUME UNCHANGED connection, NEW a \in Admins,
             \A b \in Admins \ {a} : request'[b] = request[b],
             request'[a].pc \in {"put", "revoke"} => request'[a].row = connection
      PROVE  LoadedIsCommitted'
  BY <1>1 DEF LoadedIsCommitted, RevokedIsErased
<1>2. ASSUME NEW a \in Admins, request[a].pc # "idle",
             \A b \in Admins \ {a} : request'[b] = request[b],
             request'[a].pc \notin {"put", "revoke"},
             connection'.revoked => connection'.envelope = 0
      PROVE  LoadedIsCommitted'
  <2>1. \A b \in Admins \ {a} : request[b].pc = "idle"
    BY <1>2 DEF OneAtATime
  <2> QED BY <1>2, <2>1 DEF LoadedIsCommitted, RevokedIsErased
<1>3. ASSUME NEW a \in Admins, LoadForPut(a) \/ LoadForRevoke(a) PROVE LoadedIsCommitted'
  BY <1>1, <1>3 DEF LoadForPut, LoadForRevoke, TypeOK
<1>4. ASSUME NEW a \in Admins, EnqueueDeletion(a) \/ RequestDies(a) PROVE LoadedIsCommitted'
  BY <1>1, <1>4 DEF EnqueueDeletion, RequestDies, Idle, TypeOK
<1>5. ASSUME NEW a \in Admins, CommitPut(a) PROVE LoadedIsCommitted'
  <2>1. request[a].row = connection
    BY <1>5 DEF CommitPut, LoadedIsCommitted
  <2>2. ~connection'.revoked
    <3>1. CASE ~connection.present
      BY <1>5, <2>1, <3>1 DEF CommitPut
    <3>2. CASE connection.present
      <4>1. Flush(connection, [envelope |-> request[a].envelope, revoked |-> FALSE])
        BY <1>5, <2>1, <3>2 DEF CommitPut
      <4> QED BY <4>1 DEF Flush, Column
    <3> QED BY <3>1, <3>2
  <2> QED BY <1>2, <1>5, <2>2 DEF CommitPut, Idle, TypeOK
<1>6. ASSUME NEW a \in Admins, CommitRevoke(a) PROVE LoadedIsCommitted'
  <2>1. request[a].row = connection
    BY <1>6 DEF CommitRevoke, LoadedIsCommitted
  <2>2. connection'.envelope = 0
    BY <1>6, <2>1 DEF CommitRevoke, Flush, Column, Revoked
  <2> QED BY <1>2, <1>6, <2>2 DEF CommitRevoke, Idle, TypeOK
<1>7. CASE UNCHANGED <<connection, request>>
  BY <1>7 DEF LoadedIsCommitted, RevokedIsErased
<1> QED BY <1>3, <1>4, <1>5, <1>6, <1>7
        DEF Next, Admin, LoadCredential, Fetch, FetchRefused, DeleteMirror, DeletionFails,
            ResultExpires, vars

\* Revocations that nothing overlaps leave no ciphertext behind.
THEOREM SequentialRevocations == Spec => SequentialRevocationErases
<1>1. Init => LoadedIsCommitted
  BY DEF Init, LoadedIsCommitted, RevokedIsErased, NoRow, Idle
<1>2. TypeOK /\ ConnectionInv /\ OneAtATime /\ LoadedIsCommitted /\ [Next]_vars => LoadedIsCommitted'
  BY LoadedStep
<1>3. LoadedIsCommitted => RevokedIsErased
  BY DEF LoadedIsCommitted
<1> QED BY <1>1, <1>2, <1>3, ConnectionTyped, ConnectionCorrect, PTL
        DEF Spec, SequentialRevocationErases

-----------------------------------------------------------------------------
(* Registration                                                            *)

HandlerType == [pc : {"idle", "lookup", "insert", "respond", "answered"},
            key : Keys \cup {NoRepository}, body : Bodies \cup {NoRepository},
            outcome : {"none", "accepted", "conflict", "exists", "error"},
            repository : Repositories \cup {NoRepository}]

HandlersInv == \A c \in Clients : HandlerInv(client[c])

\* What every step does to the tables, as far as handlers depend on them.
Keeps ==
  /\ \A k \in Keys : record[k] # NoRecord => record'[k] = record[k]
  /\ \A r \in Repositories : repository[r] # NoRepository => repository'[r] = repository[r]

-----------------------------------------------------------------------------

LEMMA NamedIsThere ==
  ASSUME RegistrationTypeOK, NEW k \in Keys, NEW body, NEW r, RecordNames(k, body, r)
  PROVE  record[k] # NoRecord /\ repository[r] # NoRepository
BY DEF RecordNames, NoRecord

\* A handler keeps its invariant while the tables only grow.
LEMMA HandlerFrame ==
  ASSUME RegistrationTypeOK, Keeps, NEW h \in HandlerType, HandlerInv(h)
  PROVE  HandlerInv(h)'
<1>1. h.pc = "respond" => RecordNames(h.key, h.body, h.repository)'
  <2> SUFFICES ASSUME h.pc = "respond" PROVE RecordNames(h.key, h.body, h.repository)'
    OBVIOUS
  <2>1. h.key \in Keys /\ RecordNames(h.key, h.body, h.repository)
    BY DEF HandlerInv
  <2>2. record[h.key] # NoRecord /\ repository[h.repository] # NoRepository
    BY <2>1, NamedIsThere
  <2> QED BY <2>1, <2>2 DEF RecordNames, Keeps
<1>2. h.outcome = "exists" => h.body \in Bodies /\ Registered(Source[h.body])'
  BY DEF HandlerInv, Registered, Keeps
<1> QED BY <1>1, <1>2 DEF HandlerInv

\* A step of one handler that leaves the tables alone.
LEMMA QuietStep ==
  ASSUME RegistrationTypeOK, RegistrationInv, UNCHANGED <<repository, record>>,
         NEW c \in Clients, NEW h \in HandlerType, Step(c, h), HandlerInv(h)
  PROVE  RegistrationTypeOK' /\ RegistrationInv'
<1>1. Keeps
  BY DEF Keeps
<1>2. client' \in [Clients -> HandlerType] /\ client'[c] = h
      /\ \A d \in Clients \ {c} : client'[d] = client[d]
  BY DEF RegistrationTypeOK, Step, HandlerType
<1>3. \A g : HandlerInv(g) => HandlerInv(g)'
  BY DEF HandlerInv, RecordNames, Registered
<1>4. HandlersInv'
  BY <1>2, <1>3 DEF HandlersInv, RegistrationInv
<1>5. RegistrationTypeOK'
  BY <1>2 DEF RegistrationTypeOK, HandlerType
<1> QED BY <1>4, <1>5 DEF RegistrationInv, HandlersInv, RecordNames

LEMMA RegisterInv ==
  ASSUME RegistrationTypeOK, RegistrationInv, NEW c \in Clients, NEW k \in Keys, NEW body \in Bodies,
         Register(c, k, body)
  PROVE  RegistrationTypeOK' /\ RegistrationInv'
<1>1. PICK pc \in {"lookup", "answered"}, outcome \in {"none", "conflict", "accepted"},
           r \in Repositories \cup {NoRepository} : Step(c, Handler(pc, k, body, outcome, r))
                                                   /\ (pc = "lookup" => outcome = "none")
  BY DEF Register, RegistrationTypeOK
<1> DEFINE h == Handler(pc, k, body, outcome, r)
<1>2. h \in HandlerType /\ HandlerInv(h)
  BY <1>1 DEF Handler, HandlerType, HandlerInv
<1> QED BY <1>1, <1>2, QuietStep DEF Register

LEMMA AnswerInv ==
  ASSUME RegistrationTypeOK, RegistrationInv, UNCHANGED <<repository, record>>, NEW c \in Clients,
         NEW outcome \in {"accepted", "exists", "error"}, NEW r \in Repositories \cup {NoRepository},
         Answer(c, outcome, r),
         outcome = "exists" => client[c].body \in Bodies /\ Registered(Source[client[c].body])
  PROVE  RegistrationTypeOK' /\ RegistrationInv'
<1> DEFINE h == Handler("answered", client[c].key, client[c].body, outcome, r)
<1>1. h \in HandlerType /\ HandlerInv(h)
  BY DEF Handler, HandlerType, HandlerInv, RegistrationTypeOK
<1> QED BY <1>1, QuietStep DEF Answer

\* What a row of the records says.
LEMMA RecordSays ==
  ASSUME RegistrationTypeOK, RegistrationInv, NEW j \in Keys, record[j].repository # NoRepository
  PROVE  /\ record[j] # NoRecord
         /\ RecordNames(j, record[j].body, record[j].repository)
         /\ repository[record[j].repository] # NoRepository
<1>1. record[j] # NoRecord
  BY DEF NoRecord
<1>2. RecordNames(j, record[j].body, record[j].repository)
  BY <1>1 DEF RegistrationInv
<1> QED BY <1>1, <1>2, NamedIsThere

\* The commit: a free key and a free source are bound to a new repository.
LEMMA InsertInv ==
  ASSUME RegistrationTypeOK, RegistrationInv, NEW c \in Clients, NEW k \in Keys,
         NEW body \in Bodies, NEW r \in Repositories, NEW h \in HandlerType,
         h.pc = "respond", h.key = k, h.body = body, h.outcome = "none", h.repository = r,
         record[k] = NoRecord, \A s \in Repositories : repository[s] # Source[body],
         repository[r] = NoRepository,
         repository' = [repository EXCEPT ![r] = Source[body]],
         record' = [record EXCEPT ![k] = [body |-> body, repository |-> r]],
         Step(c, h)
  PROVE  RegistrationTypeOK' /\ RegistrationInv'
<1>1. /\ record'[k] = [body |-> body, repository |-> r]
      /\ \A j \in Keys \ {k} : record'[j] = record[j]
  BY DEF RegistrationTypeOK
<1>2. repository'[r] = Source[body] /\ \A s \in Repositories \ {r} : repository'[s] = repository[s]
  BY DEF RegistrationTypeOK
<1>3. Keeps
  BY <1>1, <1>2 DEF Keeps
<1>4. client' \in [Clients -> HandlerType] /\ client'[c] = h
      /\ \A d \in Clients \ {c} : client'[d] = client[d]
  BY DEF RegistrationTypeOK, Step, HandlerType
<1>5. RecordNames(k, body, r)'
  BY <1>1, <1>2 DEF RecordNames
<1>6. HandlersInv'
  <2>1. HandlerInv(h)'
    BY <1>5 DEF HandlerInv
  <2>2. ASSUME NEW g \in HandlerType, HandlerInv(g) PROVE HandlerInv(g)'
    BY <1>3, <2>2, HandlerFrame
  <2>3. ASSUME NEW d \in Clients PROVE HandlerInv(client[d])'
    <3>1. CASE d = c
      BY <1>4, <2>1, <3>1 DEF HandlerInv
    <3>2. CASE d # c
      <4>1. client[d] \in HandlerType /\ HandlerInv(client[d]) /\ client'[d] = client[d]
        BY <1>4, <3>2 DEF RegistrationTypeOK, HandlerType, RegistrationInv
      <4>2. \A g \in HandlerType : HandlerInv(g) => HandlerInv(g)'
        BY <2>2
      <4> QED BY <4>1, <4>2 DEF HandlerInv
    <3> QED BY <3>1, <3>2
  <2> QED BY <2>3 DEF HandlersInv
<1>7. RegistrationTypeOK'
  <2>1. repository' \in [Repositories -> Sources \cup {NoRepository}]
    BY DEF RegistrationTypeOK, Sources
  <2>2. record' \in [Keys -> [body : Bodies \cup {NoRepository},
                              repository : Repositories \cup {NoRepository}]]
    BY DEF RegistrationTypeOK
  <2> QED BY <1>4, <2>1, <2>2 DEF RegistrationTypeOK, HandlerType
<1>8. ASSUME NEW j \in Keys
      PROVE  record'[j] = NoRecord \/ RecordNames(j, record[j].body, record[j].repository)'
  <2>1. CASE j = k
    BY <1>1, <1>5, <2>1 DEF RecordNames
  <2>2. CASE j # k
    <3>1. record'[j] = record[j]
      BY <1>1, <2>2
    <3>2. CASE record[j] = NoRecord
      BY <3>1, <3>2
    <3>3. CASE RecordNames(j, record[j].body, record[j].repository)
      <4>1. repository[record[j].repository] # NoRepository
        BY <3>3, NamedIsThere
      <4> QED BY <1>2, <3>1, <3>3, <4>1 DEF RecordNames
    <3> QED BY <3>2, <3>3 DEF RegistrationInv
  <2> QED BY <2>1, <2>2
<1>9. \A j \in Keys : record[j].repository # r
  BY RecordSays
<1>10. \A i, j \in Keys : record'[i].repository = record'[j].repository =>
         i = j \/ record'[j] = NoRecord
  BY <1>1, <1>9 DEF RegistrationInv
<1>11. \A s \in Repositories : repository'[s] # NoRepository =>
         \E j \in Keys : record'[j].repository = s
  <2> SUFFICES ASSUME NEW s \in Repositories, repository'[s] # NoRepository
               PROVE  \E j \in Keys : record'[j].repository = s
    OBVIOUS
  <2>1. CASE s = r
    BY <1>1, <2>1
  <2>2. CASE s # r
    <3>1. PICK j \in Keys : record[j].repository = s
      BY <1>2, <2>2 DEF RegistrationInv
    <3>2. j # k
      BY <3>1 DEF NoRecord
    <3> QED BY <1>1, <3>1, <3>2
  <2> QED BY <2>1, <2>2
<1>12. \A s, t \in Repositories :
         repository'[s] = repository'[t] /\ repository'[s] # NoRepository => s = t
  BY <1>2 DEF RegistrationInv
<1> QED BY <1>6, <1>7, <1>8, <1>10, <1>11, <1>12 DEF RegistrationInv, HandlersInv

LEMMA CommitInv ==
  ASSUME RegistrationTypeOK, RegistrationInv, NEW c \in Clients, CommitRepository(c)
  PROVE  RegistrationTypeOK' /\ RegistrationInv'
<1>1. client[c] \in HandlerType /\ HandlerInv(client[c]) /\ client[c].pc = "insert"
  BY DEF RegistrationTypeOK, HandlerType, RegistrationInv, CommitRepository
<1>2. PICK k \in Keys, body \in Bodies : client[c].key = k /\ client[c].body = body
  BY <1>1 DEF HandlerInv
<1>3. CASE Refused(c)
  BY <1>3, AnswerInv DEF CommitRepository
<1>4. CASE ~Refused(c)
  <2>1. PICK r \in Repositories :
          /\ repository[r] = NoRepository
          /\ repository' = [repository EXCEPT ![r] = Source[body]]
          /\ record' = [record EXCEPT ![k] = [body |-> body, repository |-> r]]
          /\ Step(c, Handler("respond", k, body, "none", r))
    BY <1>2, <1>4 DEF CommitRepository, Go
  <2>2. record[k] = NoRecord /\ \A s \in Repositories : repository[s] # Source[body]
    BY <1>2, <1>4 DEF Refused, SourceTaken, KeyTaken, Registered
  <2>3. PICK h \in HandlerType : h = Handler("respond", k, body, "none", r)
    BY DEF Handler, HandlerType
  <2>4. /\ h.pc = "respond" /\ h.key = k /\ h.body = body
        /\ h.outcome = "none" /\ h.repository = r /\ Step(c, h)
    BY <2>1, <2>3 DEF Handler
  <2> QED BY <2>1, <2>2, <2>4, InsertInv
<1> QED BY <1>3, <1>4

-----------------------------------------------------------------------------

\* Records, repositories and sources are one to one, and what handlers hold is backed by them.
THEOREM RegistrationCorrect == RegistrationSpec => [](RegistrationTypeOK /\ RegistrationInv)
<1>1. RegistrationInit => RegistrationTypeOK /\ RegistrationInv
  BY DEF RegistrationInit, RegistrationTypeOK, RegistrationInv, HandlerInv, Fresh, Handler, NoRecord
<1>2. RegistrationTypeOK /\ RegistrationInv /\ [RegistrationNext]_registrationVars
        => RegistrationTypeOK' /\ RegistrationInv'
  <2> SUFFICES ASSUME RegistrationTypeOK, RegistrationInv,
                      [RegistrationNext]_registrationVars
               PROVE  RegistrationTypeOK' /\ RegistrationInv'
    OBVIOUS
  <2>1. CASE UNCHANGED registrationVars
    BY <2>1 DEF registrationVars, RegistrationTypeOK, RegistrationInv, HandlerInv, RecordNames,
                Registered
  <2>2. ASSUME NEW c \in Clients, NEW k \in Keys, NEW body \in Bodies, Register(c, k, body)
        PROVE  RegistrationTypeOK' /\ RegistrationInv'
    BY <2>2, RegisterInv
  <2>3. ASSUME NEW c \in Clients, FindDuplicate(c)
        PROVE  RegistrationTypeOK' /\ RegistrationInv'
    <3>1. client[c] \in HandlerType /\ HandlerInv(client[c]) /\ client[c].pc = "lookup"
      BY <2>3 DEF RegistrationTypeOK, HandlerType, RegistrationInv, FindDuplicate
    <3>2. client[c].body \in Bodies /\ client[c].key \in Keys /\ client[c].outcome = "none"
      BY <3>1 DEF HandlerInv
    <3>3. CASE Answer(c, "exists", NoRepository) /\ Registered(Source[client[c].body])
      BY <2>3, <3>2, <3>3, AnswerInv DEF FindDuplicate
    <3>4. CASE Go(c, "insert", NoRepository)
      <4> DEFINE h == Handler("insert", client[c].key, client[c].body, "none", NoRepository)
      <4>1. h \in HandlerType /\ HandlerInv(h)
        BY <3>2 DEF Handler, HandlerType, HandlerInv
      <4> QED BY <2>3, <3>4, <4>1, QuietStep DEF FindDuplicate, Go
    <3> QED BY <2>3, <3>3, <3>4 DEF FindDuplicate
  <2>4. ASSUME NEW c \in Clients, CommitRepository(c)
        PROVE  RegistrationTypeOK' /\ RegistrationInv'
    BY <2>4, CommitInv
  <2>5. ASSUME NEW c \in Clients, Respond(c)
        PROVE  RegistrationTypeOK' /\ RegistrationInv'
    <3>1. client[c].repository \in Repositories \cup {NoRepository}
      BY DEF RegistrationTypeOK
    <3> QED BY <2>5, <3>1, AnswerInv DEF Respond
  <2>6. ASSUME NEW c \in Clients, RegistrationDies(c)
        PROVE  RegistrationTypeOK' /\ RegistrationInv'
    BY <2>6, AnswerInv DEF RegistrationDies
  <2> QED BY <2>1, <2>2, <2>3, <2>4, <2>5, <2>6 DEF RegistrationNext
<1> QED BY <1>1, <1>2, PTL DEF RegistrationSpec

\* A workspace holds a source once and with its record, and 409 REPOSITORY_EXISTS is true.
THEOREM UniqueSources == RegistrationSpec => []SourcesAreUnique
<1>1. RegistrationTypeOK /\ RegistrationInv => SourcesAreUnique
  <2> SUFFICES ASSUME RegistrationTypeOK, RegistrationInv PROVE SourcesAreUnique
    OBVIOUS
  <2>1. \A k \in Keys : \A r \in Repositories : record[k].repository = r =>
          repository[r] = Source[record[k].body] /\ repository[r] # NoRepository
    <3> SUFFICES ASSUME NEW k \in Keys, NEW r \in Repositories, record[k].repository = r
                 PROVE  repository[r] = Source[record[k].body] /\ repository[r] # NoRepository
      OBVIOUS
    <3> QED BY RecordSays DEF RecordNames
  <2>2. \A c \in Clients : client[c].outcome = "exists" => Registered(Source[client[c].body])
    BY DEF RegistrationInv, HandlerInv
  <2> QED BY <2>1, <2>2 DEF SourcesAreUnique, RegistrationInv
<1> QED BY <1>1, RegistrationCorrect, PTL

-----------------------------------------------------------------------------
(* The refinement                                                           *)

Told(h) ==
  [key |-> h.key, body |-> h.body,
   outcome |-> IF h.outcome \in {"exists", "error"} THEN "refused" ELSE h.outcome,
   resource |-> IF h.outcome = "accepted" THEN h.repository ELSE NoRepository]

Binding(k) == [body |-> record[k].body, resource |-> record[k].repository]

\* A step of one handler that leaves the tables alone tells its client something justified.
LEMMA QuietStepRefines ==
  ASSUME RegistrationTypeOK, UNCHANGED <<repository, record>>, NEW c \in Clients,
         NEW h \in HandlerType, Step(c, h), h.key \in Keys, h.body \in Bodies,
         h.outcome = "accepted" => RecordNames(h.key, h.body, h.repository),
         h.outcome = "conflict" => /\ record[h.key].repository # NoRepository
                                   /\ record[h.key].body # h.body
  PROVE  Create!Next
<1> DEFINE t == Told(h)
<1>1. /\ t.outcome \in {"none", "accepted", "conflict", "refused"}
      /\ t.resource \in Repositories \cup {NoRepository}
      /\ t.key = h.key /\ t.body = h.body
  BY DEF Told, HandlerType
<1>2. Create!Justified(t.key, t.body, t.outcome, t.resource)
  BY <1>1 DEF Create!Justified, Create!Bound, Told, RecordNames, HandlerType
<1>3. Create!Tell(c, t.key, t.body, t.outcome, t.resource)
  <2>1. \A d \in Clients : client'[d] = IF d = c THEN h ELSE client[d]
    BY DEF Step, RegistrationTypeOK
  <2>2. \A d \in Clients : Told(client'[d]) = IF d = c THEN t ELSE Told(client[d])
    BY <2>1
  <2>3. t = [key |-> t.key, body |-> t.body, outcome |-> t.outcome, resource |-> t.resource]
    BY DEF Told
  <2> HIDE DEF t
  <2>4. [d \in Clients |-> Told(client'[d])] =
          [[d \in Clients |-> Told(client[d])] EXCEPT ![c] = t]
    BY <2>2
  <2> QED BY <1>2, <2>3, <2>4 DEF Create!Tell, Told
<1> QED BY <1>1, <1>3 DEF Create!Next

LEMMA CommitRefines ==
  ASSUME RegistrationTypeOK, RegistrationInv, NEW c \in Clients, CommitRepository(c), ~Refused(c)
  PROVE  Create!Next
<1> DEFINE k == client[c].key
           body == client[c].body
<1>1. client[c] \in HandlerType /\ k \in Keys /\ body \in Bodies /\ client[c].outcome = "none"
  BY DEF RegistrationTypeOK, HandlerType, RegistrationInv, CommitRepository, HandlerInv
<1>2. PICK r \in Repositories :
        /\ repository[r] = NoRepository
        /\ record' = [record EXCEPT ![k] = [body |-> body, repository |-> r]]
        /\ Step(c, Handler("respond", k, body, "none", r))
  BY DEF CommitRepository, Go
<1>3. record[k] = NoRecord /\ \A j \in Keys : record[j].repository # r
  BY <1>2, RecordSays DEF Refused, KeyTaken
<1>4. \A d \in Clients : Told(client'[d]) = Told(client[d])
  <2> DEFINE h == Handler("respond", k, body, "none", r)
  <2>1. \A d \in Clients : client'[d] = IF d = c THEN h ELSE client[d]
    BY <1>2 DEF Step, RegistrationTypeOK
  <2>2. h.key = k /\ h.body = body /\ h.outcome = client[c].outcome
    BY <1>1 DEF Handler
  <2>3. Told(h) = Told(client[c])
    BY <1>1, <2>2 DEF Told
  <2> HIDE DEF h
  <2> QED BY <2>1, <2>3
<1>5. [j \in Keys |-> Binding(j)]' =
        [[j \in Keys |-> Binding(j)] EXCEPT ![k] = [body |-> body, resource |-> r]]
  <2>1. \A j \in Keys : record'[j] = IF j = k THEN [body |-> body, repository |-> r] ELSE record[j]
    BY <1>2 DEF RegistrationTypeOK
  <2>2. \A j \in Keys : [body |-> record'[j].body, resource |-> record'[j].repository] =
          IF j = k THEN [body |-> body, resource |-> r]
          ELSE [body |-> record[j].body, resource |-> record[j].repository]
    BY <2>1
  <2> HIDE DEF k, body
  <2>3. [j \in Keys |-> [body |-> record'[j].body, resource |-> record'[j].repository]] =
          [[j \in Keys |-> [body |-> record[j].body, resource |-> record[j].repository]]
             EXCEPT ![k] = [body |-> body, resource |-> r]]
    BY <2>2
  <2> QED BY <2>3 DEF Binding
<1>6. Create!Bind(k, body, r)
  BY <1>1, <1>3, <1>4, <1>5 DEF Create!Bind, Create!Bound, Told, Binding, NoRecord
<1> QED BY <1>1, <1>6 DEF Create!Next

\* POST /repositories binds keys, bodies and repositories once, and answers accordingly.
THEOREM RegistrationImplementsCreate == RegistrationSpec => ImplementsIdempotentCreate
<1>1. RegistrationInit => Create!Init
  BY DEF RegistrationInit, Create!Init, Create!Bound, Fresh, Handler, NoRecord
<1>2. RegistrationTypeOK /\ RegistrationInv /\ [RegistrationNext]_registrationVars
        => [Create!Next]_Create!vars
  <2> SUFFICES ASSUME RegistrationTypeOK, RegistrationInv, [RegistrationNext]_registrationVars
               PROVE  [Create!Next]_Create!vars
    OBVIOUS
  <2>1. CASE UNCHANGED registrationVars
    BY <2>1 DEF registrationVars, Create!vars
  <2>2. ASSUME NEW c \in Clients, NEW k \in Keys, NEW body \in Bodies, Register(c, k, body)
        PROVE  Create!Next
    <3>1. record[k] # NoRecord => RecordNames(k, record[k].body, record[k].repository)
      BY DEF RegistrationInv
    <3>2. CASE Step(c, Handler("lookup", k, body, "none", NoRepository))
      <4> DEFINE h == Handler("lookup", k, body, "none", NoRepository)
      <4>1. h \in HandlerType /\ h.key = k /\ h.body = body /\ h.outcome = "none"
        BY DEF Handler, HandlerType
      <4> QED BY <2>2, <3>2, <4>1, QuietStepRefines DEF Register
    <3>3. CASE /\ record[k] # NoRecord /\ record[k].body # body
               /\ Step(c, Handler("answered", k, body, "conflict", NoRepository))
      <4> DEFINE h == Handler("answered", k, body, "conflict", NoRepository)
      <4>1. h \in HandlerType /\ h.key = k /\ h.body = body /\ h.outcome = "conflict"
        BY DEF Handler, HandlerType
      <4>2. record[k].repository # NoRepository
        BY <3>1, <3>3 DEF RecordNames
      <4> QED BY <2>2, <3>3, <4>1, <4>2, QuietStepRefines DEF Register
    <3>4. CASE /\ record[k] # NoRecord /\ record[k].body = body
               /\ Step(c, Handler("answered", k, body, "accepted", record[k].repository))
      <4> DEFINE h == Handler("answered", k, body, "accepted", record[k].repository)
      <4>1. /\ h \in HandlerType /\ h.key = k /\ h.body = body /\ h.outcome = "accepted"
            /\ h.repository = record[k].repository
        BY DEF Handler, HandlerType, RegistrationTypeOK
      <4>2. RecordNames(k, body, record[k].repository)
        BY <3>1, <3>4
      <4> QED BY <2>2, <3>4, <4>1, <4>2, QuietStepRefines DEF Register
    <3> QED BY <2>2, <3>2, <3>3, <3>4 DEF Register
  <2>3. ASSUME NEW c \in Clients, client[c].pc \in {"lookup", "insert", "respond"},
               UNCHANGED <<repository, record>>, NEW h \in HandlerType, Step(c, h),
               h.key = client[c].key, h.body = client[c].body,
               \/ h.outcome \in {"none", "exists", "error"}
               \/ h.outcome = "accepted" /\ RecordNames(h.key, h.body, h.repository)
        PROVE  Create!Next
    <3>1. h.key \in Keys /\ h.body \in Bodies
      BY <2>3 DEF RegistrationInv, HandlerInv
    <3> QED BY <2>3, <3>1, QuietStepRefines
  <2>4. ASSUME NEW c \in Clients, client[c].pc \in {"lookup", "insert", "respond"},
               UNCHANGED <<repository, record>>,
               NEW outcome \in {"accepted", "exists", "error"},
               NEW r \in Repositories \cup {NoRepository}, Answer(c, outcome, r),
               outcome = "accepted" => RecordNames(client[c].key, client[c].body, r)
        PROVE  Create!Next
    <3>0. client[c].key \in Keys \cup {NoRepository} /\ client[c].body \in Bodies \cup {NoRepository}
      BY DEF RegistrationTypeOK
    <3> DEFINE h == Handler("answered", client[c].key, client[c].body, outcome, r)
    <3>1. /\ h \in HandlerType /\ h.key = client[c].key /\ h.body = client[c].body
          /\ h.outcome = outcome /\ h.repository = r
      BY <3>0 DEF Handler, HandlerType
    <3> QED BY <2>3, <2>4, <3>1 DEF Answer
  <2>5. ASSUME NEW c \in Clients, FindDuplicate(c)
        PROVE  Create!Next
    <3>1. CASE Answer(c, "exists", NoRepository)
      BY <2>4, <2>5, <3>1 DEF FindDuplicate
    <3>2. CASE Go(c, "insert", NoRepository)
      <4>0. client[c].key \in Keys \cup {NoRepository} /\ client[c].body \in Bodies \cup {NoRepository}
        BY DEF RegistrationTypeOK
      <4> DEFINE h == Handler("insert", client[c].key, client[c].body, "none", NoRepository)
      <4>1. /\ h \in HandlerType /\ h.key = client[c].key /\ h.body = client[c].body
            /\ h.outcome = "none"
        BY <4>0 DEF Handler, HandlerType
      <4> QED BY <2>3, <2>5, <3>2, <4>1 DEF FindDuplicate, Go
    <3> QED BY <2>5, <3>1, <3>2 DEF FindDuplicate
  <2>6. ASSUME NEW c \in Clients, CommitRepository(c)
        PROVE  Create!Next
    <3>1. CASE Refused(c)
      BY <2>4, <2>6, <3>1 DEF CommitRepository
    <3>2. CASE ~Refused(c)
      BY <2>6, <3>2, CommitRefines
    <3> QED BY <3>1, <3>2
  <2>7. ASSUME NEW c \in Clients, Respond(c)
        PROVE  Create!Next
    <3>1. RecordNames(client[c].key, client[c].body, client[c].repository)
      BY <2>7 DEF Respond, RegistrationInv, HandlerInv
    <3>2. client[c].repository \in Repositories
      BY <3>1 DEF RecordNames
    <3> QED BY <2>4, <2>7, <3>1, <3>2 DEF Respond
  <2>8. ASSUME NEW c \in Clients, RegistrationDies(c)
        PROVE  Create!Next
    BY <2>4, <2>8 DEF RegistrationDies
  <2> QED BY <2>1, <2>2, <2>5, <2>6, <2>7, <2>8 DEF RegistrationNext
<1> QED BY <1>1, <1>2, RegistrationCorrect, PTL
       DEF RegistrationSpec, ImplementsIdempotentCreate, Create!Spec

-----------------------------------------------------------------------------
(* The routes together                                                     *)

\* The two parts change different rows, so that a step of the system is one of its parts and
\* leaves the other alone: what holds of each part alone holds of the system.
THEOREM RepositoriesCorrect ==
  SystemSpec => /\ []ConnectedHasEnvelope /\ SequentialRevocationErases
                /\ []SourcesAreUnique /\ ImplementsIdempotentCreate
<1>1. SystemInit => Init /\ RegistrationInit
  BY DEF SystemInit
<1>2. [SystemNext]_<<vars, registrationVars>> =>
        [Next]_vars /\ [RegistrationNext]_registrationVars
  BY DEF SystemNext
<1>3. SystemSpec => Spec /\ RegistrationSpec
  BY <1>1, <1>2, PTL DEF SystemSpec, Spec, RegistrationSpec
<1> QED BY <1>3, ConnectedCanDecrypt, SequentialRevocations, UniqueSources, RegistrationImplementsCreate
=============================================================================
