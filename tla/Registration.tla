----------------------------- MODULE Registration -----------------------------
(***************************************************************************)
(* POST /repositories (routes/repositories.py create_repository): a record *)
(* is looked up, then a repository of the same source, then both are       *)
(* inserted.  Each query sees what was committed before it.  Nothing       *)
(* updates or deletes a repository.                                        *)
(***************************************************************************)
EXTENDS Naturals

CONSTANTS
  Clients,        \* bound: the requests, each of which may be a retry of another
  Keys,           \* the Idempotency-Keys that clients send
  Bodies,         \* clone URL and default branch
  Source,         \* the external id of each body: URLs that differ in case share one
  Repositories,   \* bound: the ids that new_id draws
  NoRepository    \* no repository

ASSUME RegistrationAssumption ==
  /\ NoRepository \notin Repositories
  /\ \A b \in Bodies : Source[b] # NoRepository

VARIABLES
  repository,  \* the external id of each repository, or NoRepository
  record,      \* idempotency_records of POST:/repositories, by key
  client       \* the handler of each request, and its answer

registrationVars == <<repository, record, client>>

NoRecord == [body |-> NoRepository, repository |-> NoRepository]

Handler(pc, key, body, outcome, r) ==
  [pc |-> pc, key |-> key, body |-> body, outcome |-> outcome, repository |-> r]

Fresh == Handler("idle", NoRepository, NoRepository, "none", NoRepository)

Sources == {Source[b] : b \in Bodies}

RegistrationTypeOK ==
  /\ repository \in [Repositories -> Sources \cup {NoRepository}]
  /\ record \in [Keys -> [body : Bodies \cup {NoRepository},
                          repository : Repositories \cup {NoRepository}]]
  /\ client \in [Clients ->
       [pc : {"idle", "lookup", "insert", "respond", "answered"},
        key : Keys \cup {NoRepository}, body : Bodies \cup {NoRepository},
        outcome : {"none", "accepted", "conflict", "exists", "error"},
        repository : Repositories \cup {NoRepository}]]

RegistrationInit ==
  /\ repository = [r \in Repositories |-> NoRepository]
  /\ record = [k \in Keys |-> NoRecord]
  /\ client = [c \in Clients |-> Fresh]

Step(c, h) == client' = [client EXCEPT ![c] = h]

Go(c, pc, r) == Step(c, Handler(pc, client[c].key, client[c].body, "none", r))

Answer(c, outcome, r) == Step(c, Handler("answered", client[c].key, client[c].body, outcome, r))

\* find_idempotent_resource; a record's repository is always found.
Register(c, k, body) ==
  /\ client[c].pc = "idle"
  /\ \/ /\ record[k] = NoRecord
        /\ Step(c, Handler("lookup", k, body, "none", NoRepository))
     \/ /\ record[k] # NoRecord /\ record[k].body # body
        /\ Step(c, Handler("answered", k, body, "conflict", NoRepository))
     \/ /\ record[k] # NoRecord /\ record[k].body = body
        /\ Step(c, Handler("answered", k, body, "accepted", record[k].repository))
  /\ UNCHANGED <<repository, record>>

Registered(source) == \E r \in Repositories : repository[r] = source

\* The query for a duplicate: 409 REPOSITORY_EXISTS, also to a retry whose own first
\* request has committed since the record was looked up.
FindDuplicate(c) ==
  /\ client[c].pc = "lookup"
  /\ \/ /\ Registered(Source[client[c].body])
        /\ Answer(c, "exists", NoRepository)
     \/ /\ ~Registered(Source[client[c].body])
        /\ Go(c, "insert", NoRepository)
  /\ UNCHANGED <<repository, record>>

\* Mutants: one of the two tables lacks its unique constraint.
SourceTaken(c) == Registered(Source[client[c].body])
KeyTaken(c) == record[client[c].key] # NoRecord

\* uq_repository_source or uq_idempotency_scope refuses the commit.
Refused(c) == SourceTaken(c) \/ KeyTaken(c)

\* db.commit() inserts the repository and its record, or raises IntegrityError: 500.
CommitRepository(c) ==
  /\ client[c].pc = "insert"
  /\ \/ /\ Refused(c)
        /\ Answer(c, "error", NoRepository)
        /\ UNCHANGED <<repository, record>>
     \/ /\ ~Refused(c)
        /\ \E r \in {x \in Repositories : repository[x] = NoRepository} :
             /\ repository' = [repository EXCEPT ![r] = Source[client[c].body]]
             /\ record' = [record EXCEPT ![client[c].key] =
                             [body |-> client[c].body, repository |-> r]]
             /\ Go(c, "respond", r)

\* db.refresh and the response.
Respond(c) ==
  /\ client[c].pc = "respond"
  /\ Answer(c, "accepted", client[c].repository)
  /\ UNCHANGED <<repository, record>>

\* The API process ends: the client learns nothing, and may retry.
RegistrationDies(c) ==
  /\ client[c].pc \in {"lookup", "insert", "respond"}
  /\ Answer(c, "error", NoRepository)
  /\ UNCHANGED <<repository, record>>

RegistrationNext ==
  \E c \in Clients :
    \/ \E k \in Keys, body \in Bodies : Register(c, k, body)
    \/ FindDuplicate(c) \/ CommitRepository(c) \/ Respond(c) \/ RegistrationDies(c)

RegistrationSpec == RegistrationInit /\ [][RegistrationNext]_registrationVars

-----------------------------------------------------------------------------
(* Properties                                                               *)

\* repositories.py 119-157: keys, bodies and repositories are bound once, whatever requests
\* race, and answers agree with the bindings.
Create == INSTANCE IdempotentCreate WITH
  Resources  <- Repositories,
  NoResource <- NoRepository,
  binding    <- [k \in Keys |-> [body |-> record[k].body, resource |-> record[k].repository]],
  answer     <- [c \in Clients |->
    [key |-> client[c].key, body |-> client[c].body,
     outcome |-> IF client[c].outcome \in {"exists", "error"} THEN "refused"
                 ELSE client[c].outcome,
     resource |-> IF client[c].outcome = "accepted" THEN client[c].repository
                  ELSE NoRepository]]

ImplementsIdempotentCreate == Create!Spec

\* DATA_MODEL: a workspace holds a source once, although requests with different keys and
\* spellings of its URL look for it before they insert it; it has a record that names it, and
\* 409 REPOSITORY_EXISTS is answered only if it is there.
SourcesAreUnique ==
  /\ \A r, s \in Repositories :
       repository[r] = repository[s] /\ repository[r] # NoRepository => r = s
  /\ \A r \in Repositories : repository[r] # NoRepository <=>
       \E k \in Keys : record[k].repository = r /\ repository[r] = Source[record[k].body]
  /\ \A c \in Clients : client[c].outcome = "exists" => Registered(Source[client[c].body])

\* A retry whose key and body name a repository is not told that the repository exists.
RetryIsAnswered ==
  \A c \in Clients : client[c].outcome = "exists" => record[client[c].key].body # client[c].body

-----------------------------------------------------------------------------
(* The inductive invariant                                                  *)

RecordNames(k, body, r) ==
  /\ record[k] = [body |-> body, repository |-> r]
  /\ body \in Bodies /\ r \in Repositories /\ repository[r] = Source[body]

\* What a handler holds while it works, and what its answer was made from.
HandlerInv(h) ==
  /\ h.pc \in {"lookup", "insert", "respond"} =>
       h.key \in Keys /\ h.body \in Bodies /\ h.outcome = "none"
  /\ h.pc \in {"idle", "lookup", "insert"} => h.outcome = "none"
  /\ h.pc = "respond" => RecordNames(h.key, h.body, h.repository)
  /\ h.outcome = "exists" => h.body \in Bodies /\ Registered(Source[h.body])

\* Records and repositories are one to one, and repositories and their sources.
RegistrationInv ==
  /\ \A k \in Keys :
       record[k] = NoRecord \/ RecordNames(k, record[k].body, record[k].repository)
  /\ \A j, k \in Keys :
       record[j].repository = record[k].repository => j = k \/ record[k] = NoRecord
  /\ \A r \in Repositories : repository[r] # NoRepository => \E k \in Keys : record[k].repository = r
  /\ \A r, s \in Repositories :
       repository[r] = repository[s] /\ repository[r] # NoRepository => r = s
  /\ \A c \in Clients : HandlerInv(client[c])
=============================================================================
