------------------------------ MODULE RunLedger ------------------------------
(***************************************************************************)
(* What the analysis pipeline promises to whoever reads GET /analyses/{id} *)
(* and the snapshot endpoints: each run goes through its states once, a    *)
(* commit's snapshot is published once, by a run that succeeds with it,    *)
(* and a later run of the same commit succeeds with that snapshot.         *)
(***************************************************************************)
CONSTANTS Runs, Commits, NoRun, NoCommit

VARIABLES
  status,     \* the state of each run
  result,     \* the commit whose snapshot a run names, NoCommit before it succeeds
  publisher   \* the run that published each commit's snapshot

ledger == <<status, result, publisher>>

Init ==
  /\ status = [r \in Runs |-> "ABSENT"]
  /\ result = [r \in Runs |-> NoCommit]
  /\ publisher = [c \in Commits |-> NoRun]

Advance(r, from, to) == status[r] = from /\ status' = [status EXCEPT ![r] = to]

Accept(r) == Advance(r, "ABSENT", "QUEUED") /\ UNCHANGED <<result, publisher>>

Begin(r) == Advance(r, "QUEUED", "RUNNING") /\ UNCHANGED <<result, publisher>>

Succeed(r, c) ==
  /\ Advance(r, "RUNNING", "SUCCEEDED")
  /\ result' = [result EXCEPT ![r] = c]
  /\ \/ publisher[c] = NoRun /\ publisher' = [publisher EXCEPT ![c] = r]
     \/ publisher[c] # NoRun /\ UNCHANGED publisher

Fail(r) == Advance(r, "RUNNING", "FAILED") /\ UNCHANGED <<result, publisher>>

Next == \E r \in Runs : Accept(r) \/ Begin(r) \/ Fail(r) \/ \E c \in Commits : Succeed(r, c)

Spec == Init /\ [][Next]_ledger
=============================================================================
