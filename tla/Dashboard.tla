------------------------------- MODULE Dashboard -------------------------------
(***************************************************************************)
(* GenomeDashboard (apps/web/components/genome-dashboard.tsx): the state   *)
(* one browser shows, the requests it has in flight, and the server that   *)
(* answers them.  A request is sent, answered from what the server holds   *)
(* then, and delivered, each at its own time and in any order.             *)
(*                                                                         *)
(* A state change, the clean-up of the effects whose dependencies it       *)
(* changes and the requests these effects send are one step.               *)
(***************************************************************************)
EXTENDS Naturals, Sequences, SequencesExt, Bags

CONSTANTS
  MaxRepositories,  \* bound: repositories on the server
  MaxRuns,          \* bound: analysis runs on the server
  MaxInFlight,      \* bound: requests in flight after the user or the interval sent one
  Failing           \* the kinds of request that may fail

Kinds == {"repositories", "register", "analyses", "create", "poll", "graph", "architecture"}

ASSUME DashboardAssumption ==
  /\ {MaxRepositories, MaxRuns, MaxInFlight} \subseteq Nat \ {0}
  /\ Failing \subseteq Kinds

VARIABLES
  registered,  \* repositories 1..registered exist, numbered as they were created
  analyses,    \* the runs of the server, in the order of their creation
  snapshots,   \* how many snapshots each repository has published
  screen,      \* the state of the component
  net,         \* the bag of requests in flight
  disturbed    \* history: somebody did something the browser cannot keep up with

server == <<registered, analyses, snapshots>>
vars == <<registered, analyses, snapshots, screen, net, disturbed>>

Repository == 1..MaxRepositories

Nobody == 0  \* no repository is selected

\* The n-th snapshot that a repository published; no two repositories share a commit.
Snapshot == [repo : Repository \cup {Nobody}, n : 0..MaxRuns]

NoSnapshot == [repo |-> Nobody, n |-> 0]

AnalysisState == {"QUEUED", "RUNNING", "SUCCEEDED", "FAILED"}

Run == [repo : Repository, state : AnalysisState, sha : Snapshot]

\* A run as an answer held it.
Copy == [id : 1..MaxRuns, state : AnalysisState, sha : Snapshot]

Screen == [repositories : SUBSET Repository, selectedId : Repository \cup {Nobody},
           runs : BoundedSeq(Copy, MaxRuns), isStarting : BOOLEAN,
           graph : Snapshot, inventory : Snapshot, architecture : Snapshot]

Message == [kind : Kinds, repo : Repository \cup {Nobody}, about : Snapshot, id : 0..MaxRuns,
            answered : BOOLEAN, n : Nat, runs : BoundedSeq(Copy, MaxRuns)]

TypeOK ==
  /\ registered \in 0..MaxRepositories
  /\ analyses \in BoundedSeq(Run, MaxRuns)
  /\ snapshots \in [Repository -> 0..MaxRuns]
  /\ screen \in Screen
  /\ BagToSet(net) \subseteq Message
  /\ disturbed \in BOOLEAN

\* What is sent carries no answer yet; about is the graph's snapshot, id the run polled.
Asked(kind, repo, about, id) ==
  [kind |-> kind, repo |-> repo, about |-> about, id |-> id,
   answered |-> FALSE, n |-> 0, runs |-> <<>>]

InFlight(kinds) == {m \in BagToSet(net) : m.kind \in kinds}

Count(messages) == BagCardinality([m \in messages |-> net[m]])

Init ==
  /\ registered = 1
  /\ analyses = <<>>
  /\ snapshots = [r \in Repository |-> 0]
  /\ screen = [repositories |-> {}, selectedId |-> Nobody, runs |-> <<>>, isStarting |-> FALSE,
               graph |-> NoSnapshot, inventory |-> NoSnapshot, architecture |-> NoSnapshot]
  /\ net = SetToBag({Asked("repositories", Nobody, NoSnapshot, 0)})
  /\ disturbed = FALSE

-----------------------------------------------------------------------------
(* The server                                                               *)

CopyOf(id) == [id |-> id, state |-> analyses[id].state, sha |-> analyses[id].sha]

\* GET /repositories/{id}/analyses: the newest run first.
ListAnalyses(repo) ==
  FoldLeft(LAMBDA newer, id : IF analyses[id].repo = repo THEN <<CopyOf(id)>> \o newer ELSE newer,
           <<>>, [id \in 1..Len(analyses) |-> id])

Latest(repo) == [repo |-> repo, n |-> snapshots[repo]]

Queued(repo) == [repo |-> repo, state |-> "QUEUED", sha |-> NoSnapshot]

\* A run succeeds with a commit that is new, or with one that was published before.
Work(id) ==
  /\ id \in 1..Len(analyses)
  /\ LET repo == analyses[id].repo IN
     \/ /\ analyses[id].state = "QUEUED"
        /\ analyses' = [analyses EXCEPT ![id].state = "RUNNING"]
        /\ UNCHANGED snapshots
     \/ /\ analyses[id].state = "RUNNING"
        /\ \/ /\ analyses' = [analyses EXCEPT ![id].state = "FAILED"]
              /\ UNCHANGED snapshots
           \/ \E n \in 1..snapshots[repo] + 1 :
                /\ analyses' = [analyses EXCEPT ![id] =
                     [repo |-> repo, state |-> "SUCCEEDED", sha |-> [repo |-> repo, n |-> n]]]
                /\ snapshots' = [snapshots EXCEPT ![repo] = IF n > @ THEN n ELSE @]
  /\ UNCHANGED <<registered, screen, net, disturbed>>

Room == Len(analyses) + Count({m \in InFlight({"create"}) : ~m.answered}) < MaxRuns

\* Another browser starts a run: nothing tells this one.
OtherStarts(repo) ==
  /\ repo <= registered /\ Room
  /\ analyses' = Append(analyses, Queued(repo))
  /\ disturbed' = TRUE
  /\ UNCHANGED <<registered, snapshots, screen, net>>

Answered(m, n, runs) ==
  net' = (net (-) SetToBag({m})) (+)
           SetToBag({[m EXCEPT !.answered = TRUE, !.n = n, !.runs = runs]})

\* The handler of the request reads, or creates, and answers.
Answer(m) ==
  /\ ~m.answered
  /\ \/ /\ m.kind = "repositories"
        /\ Answered(m, registered, <<>>)
        /\ UNCHANGED <<registered, analyses>>
     \/ /\ m.kind = "register" /\ registered < MaxRepositories
        /\ registered' = registered + 1
        /\ Answered(m, registered + 1, <<>>)
        /\ UNCHANGED analyses
     \/ /\ m.kind = "analyses"
        /\ Answered(m, 0, ListAnalyses(m.repo))
        /\ UNCHANGED <<registered, analyses>>
     \/ /\ m.kind = "create"
        /\ analyses' = Append(analyses, Queued(m.repo))
        /\ Answered(m, 0, <<[id |-> Len(analyses) + 1, state |-> "QUEUED", sha |-> NoSnapshot]>>)
        /\ UNCHANGED registered
     \/ /\ m.kind = "poll"
        /\ Answered(m, 0, <<CopyOf(m.id)>>)
        /\ UNCHANGED <<registered, analyses>>
     \/ /\ m.kind \in {"graph", "architecture"}
        /\ Answered(m, snapshots[m.repo], <<>>)
        /\ UNCHANGED <<registered, analyses>>
  /\ UNCHANGED <<snapshots, screen, disturbed>>

-----------------------------------------------------------------------------
(* The component                                                            *)

Terminal(state) == state \in {"SUCCEEDED", "FAILED"}

HasRun(s) == s.runs # <<>>

\* latestRun?.snapshot_sha, if that run succeeded.
PublishedSha(s) ==
  IF HasRun(s) /\ s.runs[1].state = "SUCCEEDED" THEN s.runs[1].sha ELSE NoSnapshot

\* The dependencies of the effects that load what was published.
Dependencies(s) ==
  <<IF HasRun(s) THEN s.runs[1].sha ELSE NoSnapshot,
    IF HasRun(s) THEN s.runs[1].state ELSE "none", s.selectedId>>

\* Mutant: the clean-up of these effects cancels nothing.
NeverCancelled == {}

Cancelled == {"graph", "architecture"}

Loads(s) ==
  IF s.selectedId # Nobody /\ PublishedSha(s) # NoSnapshot
  THEN {Asked(k, s.selectedId, PublishedSha(s), 0) : k \in {"graph", "architecture"}}
  ELSE {}

Lists(s) == IF s.selectedId # Nobody THEN {Asked("analyses", s.selectedId, NoSnapshot, 0)} ELSE {}

\* The component shows s; rest is what stays in flight of the requests sent before.
Render(s, rest) ==
  LET kept   == {m \in BagToSet(rest) : m.kind \notin Cancelled}
      reload == Dependencies(s) # Dependencies(screen)
      uncancelled == IF reload THEN [m \in kept |-> rest[m]] ELSE rest
  IN  /\ screen' = s
      /\ net' = uncancelled
                  (+) SetToBag(IF reload THEN Loads(s) ELSE {})
                  (+) SetToBag(IF s.selectedId # screen.selectedId THEN Lists(s) ELSE {})

\* Mutant: the ledger of the last selection stays.
BlankMap(s) == [s EXCEPT !.graph = NoSnapshot,
                         !.inventory = NoSnapshot, !.architecture = NoSnapshot]

Blank(s) == [s EXCEPT !.runs = <<>>, !.graph = NoSnapshot,
                      !.inventory = NoSnapshot, !.architecture = NoSnapshot]

\* Mutant: a run that is new to the ledger is not put there.
InPlace(copy) ==
  [i \in DOMAIN screen.runs |-> IF screen.runs[i].id = copy.id THEN copy ELSE screen.runs[i]]

\* setRuns((current) => [updated, ...the others])
InFront(copy) ==
  FoldLeft(LAMBDA ledger, c : IF c.id = copy.id THEN ledger ELSE Append(ledger, c),
           <<copy>>, screen.runs)

\* The then-clause of each request; an architecture of another commit is ignored, and
\* a graph is found only if the commit is one of the repository's.
Received(m) ==
  CASE m.kind = "repositories" ->
         [screen EXCEPT !.repositories = 1..m.n, !.selectedId = m.n]
    [] m.kind = "register" ->
         [Blank(screen) EXCEPT !.repositories = @ \cup {m.n}, !.selectedId = m.n]
    [] m.kind = "analyses" -> [screen EXCEPT !.runs = m.runs]
    [] m.kind = "create" -> [screen EXCEPT !.runs = InFront(m.runs[1]), !.isStarting = FALSE]
    [] m.kind = "poll" -> [screen EXCEPT !.runs = InFront(m.runs[1])]
    [] m.kind = "graph" ->
         IF m.about.repo # m.repo THEN screen
         ELSE [screen EXCEPT !.graph = m.about, !.inventory = [repo |-> m.repo, n |-> m.n]]
    [] m.kind = "architecture" ->
         IF m.n = 0 THEN [screen EXCEPT !.architecture = NoSnapshot]
         ELSE IF [repo |-> m.repo, n |-> m.n] = m.about
              THEN [screen EXCEPT !.architecture = m.about] ELSE screen

\* Answers that no clean-up keeps from the screen.
Unguarded == {"repositories", "register", "analyses", "create", "poll"}

Deliver(m) ==
  /\ m.answered
  /\ Render(Received(m), net (-) SetToBag({m}))
  /\ disturbed' = (disturbed \/ (m.kind = "register" /\ InFlight(Unguarded) # {m}))
  /\ UNCHANGED server

\* The catch-clauses, without the banner that they set.
Fail(m) ==
  /\ m.kind \in Failing
  /\ Render(CASE m.kind = "create" -> [screen EXCEPT !.isStarting = FALSE]
              [] m.kind = "architecture" -> [screen EXCEPT !.architecture = NoSnapshot]
              [] OTHER -> screen,
            net (-) SetToBag({m}))
  /\ UNCHANGED <<server, disturbed>>

\* Mutant: a run that is at work is taken for finished.
FollowedUntilRunning(state) == state = "QUEUED"

Followed(state) == ~Terminal(state)

\* The interval polls the latest run while it is not terminal, whatever polls are out.
Poll ==
  /\ HasRun(screen) /\ Followed(screen.runs[1].state)
  /\ BagCardinality(net) < MaxInFlight
  /\ net' = net (+) SetToBag({Asked("poll", Nobody, NoSnapshot, screen.runs[1].id)})
  /\ UNCHANGED <<server, screen, disturbed>>

-----------------------------------------------------------------------------
(* The user                                                                 *)

Acts ==
  /\ BagCardinality(net) < MaxInFlight
  /\ disturbed' = (disturbed \/ InFlight(Unguarded) # {})
  /\ UNCHANGED server

SelectRepository(repo) ==
  /\ repo \in screen.repositories \ {screen.selectedId}
  /\ Render([Blank(screen) EXCEPT !.selectedId = repo], net)
  /\ Acts

StartAnalysis ==
  /\ screen.selectedId \in screen.repositories
  /\ ~screen.isStarting /\ (HasRun(screen) => Terminal(screen.runs[1].state))
  /\ Room
  /\ screen' = [screen EXCEPT !.isStarting = TRUE]
  /\ net' = net (+) SetToBag({Asked("create", screen.selectedId, NoSnapshot, 0)})
  /\ Acts

\* The dialog registers a repository.  It may be closed and opened again while a registration is
\* under way; only the bound on repositories limits how many are.
AddRepository ==
  /\ registered + Count({m \in InFlight({"register"}) : ~m.answered}) < MaxRepositories
  /\ net' = net (+) SetToBag({Asked("register", Nobody, NoSnapshot, 0)})
  /\ UNCHANGED screen
  /\ Acts

Next ==
  \/ \E id \in 1..MaxRuns : Work(id)
  \/ \E repo \in Repository : OtherStarts(repo) \/ SelectRepository(repo)
  \/ \E m \in BagToSet(net) : Answer(m) \/ Deliver(m) \/ Fail(m)
  \/ Poll \/ StartAnalysis \/ AddRepository

Spec == Init /\ [][Next]_vars

\* Runs are executed, every request is answered and delivered, the interval fires, and
\* polls do not fail for ever.  Nothing is assumed of users and other browsers.
FairSpec ==
  /\ Spec
  /\ \A id \in 1..MaxRuns : WF_vars(Work(id))
  /\ \A kind \in Kinds \ {"poll"} :
       WF_vars(\E m \in InFlight({kind}) : Answer(m) \/ Deliver(m))
  /\ SF_vars(\E m \in InFlight({"poll"}) : Answer(m))
  /\ SF_vars(\E m \in InFlight({"poll"}) : Deliver(m))
  /\ WF_vars(Poll)

-----------------------------------------------------------------------------
(* Properties                                                               *)

\* Unless somebody outruns the answers of lists, creations and polls, the ledger holds
\* runs of the selected repository, each once, and the selection is on the list.
LedgerIsOfSelection ==
  ~disturbed =>
    /\ \A i \in DOMAIN screen.runs : analyses[screen.runs[i].id].repo = screen.selectedId
    /\ \A i, j \in DOMAIN screen.runs : screen.runs[i].id = screen.runs[j].id => i = j
    /\ screen.selectedId \in screen.repositories \cup {Nobody}

\* Whatever anybody does: the run that is shown as the latest is followed until it is
\* terminal, or until another selection empties the ledger.
LatestRunIsFollowed ==
  (HasRun(screen) /\ ~Terminal(screen.runs[1].state))
    ~> (~HasRun(screen) \/ Terminal(screen.runs[1].state))

\* If a run of the selected repository stays the latest shown and succeeded, then the
\* graph shown settles on its snapshot, with an inventory that is no older, and so does
\* the architecture unless the repository has published since; an answer for an earlier
\* selection or run cannot replace them.
PublishedIsShown ==
  \A repo \in Repository : \A n \in 1..MaxRuns :
    LET sha == [repo |-> repo, n |-> n] IN
    /\ <>[](screen.selectedId = repo /\ PublishedSha(screen) = sha)
         => <>[](screen.graph = sha /\ screen.inventory.repo = repo /\ screen.inventory.n >= n)
    /\ <>[](screen.selectedId = repo /\ PublishedSha(screen) = sha /\ Latest(repo) = sha)
         => <>[](screen.architecture = sha)

\* Unless somebody outruns the answers, the ledger catches up with the server again and again.
LedgerSettles ==
  []~disturbed =>
    []<>(screen.selectedId # Nobody => screen.runs = ListAnalyses(screen.selectedId))

-----------------------------------------------------------------------------
(* What the code does not keep: see README.md                              *)

\* The ledger holds runs of the selected repository, whenever answers arrive.
LedgerNeverMixes ==
  \A i \in DOMAIN screen.runs : analyses[screen.runs[i].id].repo = screen.selectedId

\* Every run in the ledger is shown as terminal at last, or is no longer there.
EveryShownRunIsFollowed ==
  \A id \in 1..MaxRuns :
    (\E i \in DOMAIN screen.runs : screen.runs[i].id = id)
      ~> \A i \in DOMAIN screen.runs :
           screen.runs[i].id = id => Terminal(screen.runs[i].state)

\* A run that the ledger shows as terminal is never shown otherwise again.
TerminalStaysTerminal ==
  [][\A i, j \in 1..MaxRuns :
       (i \in DOMAIN screen.runs /\ j \in DOMAIN screen'.runs
          /\ screen.runs[i].id = screen'.runs[j].id /\ Terminal(screen.runs[i].state))
       => Terminal(screen'.runs[j].state)]_vars

\* The architecture that is shown settles on the snapshot of the graph beside it.
ArchitectureIsShown ==
  \A repo \in Repository : \A n \in 1..MaxRuns :
    LET sha == [repo |-> repo, n |-> n] IN
    <>[](screen.selectedId = repo /\ PublishedSha(screen) = sha)
      => <>[](screen.architecture = sha)
=============================================================================
