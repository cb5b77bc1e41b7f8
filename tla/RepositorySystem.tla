--------------------------- MODULE RepositorySystem ---------------------------
(***************************************************************************)
(* routes/repositories.py as a whole: repositories are registered, and the *)
(* connection of one of them is put, used and revoked.                     *)
(***************************************************************************)
EXTENDS Connection, Registration

CONSTANT Subject  \* the repository whose connection is managed

ASSUME SubjectAssumption == Subject \in Repositories

SystemInit == Init /\ RegistrationInit

\* _repository_for_actor: 404 before there is the repository.
RepositoryFound == repository[Subject] # NoRepository

Settled(c) == client[c].pc = "idle" \/ client[c].outcome = "accepted"

\* BOUND: connections are managed when one registration was accepted and no other came.
\* The two share the row that RepositoryFound reads and nobody changes, so that the steps
\* of one commute with those of the other.
OneRegistration ==
  /\ \A c \in Clients : Settled(c)
  /\ \A c, d \in Clients : client[c].pc # "idle" /\ client[d].pc # "idle" => c = d

Unmanaged == puts = 0 /\ \A t \in Threads : thread[t].pc = "idle"

SystemNext ==
  \/ Unmanaged /\ RegistrationNext /\ UNCHANGED vars
  \/ RepositoryFound /\ OneRegistration /\ Next /\ UNCHANGED registrationVars

SystemSpec == SystemInit /\ [][SystemNext]_<<vars, registrationVars>>
=============================================================================
