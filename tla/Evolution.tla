------------------------------- MODULE Evolution -------------------------------
(***************************************************************************)
(* What analyze_evolution (packages/evolution) derives from the mined      *)
(* commits and the current files, and what GET /impact and GET             *)
(* /architecture make of it.  The state is the history of the branch,      *)
(* oldest commit first, and its files; an analysis mines the last          *)
(* HistoryLimit commits, so that each new one drops the oldest.  A commit  *)
(* is cited by its number, which stands for its SHA.                       *)
(*                                                                         *)
(* Scores and confidences are fractions; the code rounds them to four      *)
(* places, which may add ties to their order.                              *)
(***************************************************************************)
EXTENDS Integers, Sequences, FiniteSetsExt

CONSTANTS
  Paths,
  PathRank,       \* the order of paths
  ModuleKey,      \* the directory that _module_key takes a path to
  Imports,        \* which file imports which, if both are in the tree; packages left out
  Diffs,          \* what a commit may change: files, and the lines added and deleted
  HistoryLimit,   \* settings.max_history_commits
  MaxHistory,     \* bound: the commits of the branch
  EvidenceLimit,  \* 20 commits are cited
  ImpactLimit,    \* the parameter limit of rank_impact
  ViewLimit       \* the parameter relationship_limit

Change == [files : SUBSET Paths, churn : Nat]

ASSUME EvolutionAssumption ==
  /\ IsFiniteSet(Paths)
  /\ PathRank \in [Paths -> Nat] /\ \A p, q \in Paths : PathRank[p] = PathRank[q] => p = q
  /\ Imports \subseteq Paths \X Paths /\ Diffs \subseteq Change
  /\ {HistoryLimit, EvidenceLimit, ImpactLimit, ViewLimit} \subseteq Nat \ {0}
  /\ MaxHistory \in Nat

VARIABLES history, currentFiles

evolutionVars == <<history, currentFiles>>

EvolutionInit == history = <<>> /\ currentFiles \in SUBSET Paths

\* A commit changes files, some of which are there afterwards.
Commit(diff, kept) ==
  /\ Len(history) < MaxHistory
  /\ history' = Append(history, diff)
  /\ currentFiles' = (currentFiles \ diff.files) \cup kept

\* A merge is one of the last commits, but only_no_merge leaves its changes out.
Merge(tree) ==
  /\ Len(history) < MaxHistory
  /\ history' = Append(history, [files |-> {}, churn |-> 0])
  /\ currentFiles' = tree

EvolutionNext ==
  \/ \E diff \in Diffs : \E kept \in SUBSET diff.files : Commit(diff, kept)
  \/ \E tree \in SUBSET Paths : Merge(tree)

\* git log --max-count: the last commits, by their numbers.
Mined(h) == [k \in {k \in DOMAIN h : k > Len(h) - HistoryLimit} |-> h[k]]

-----------------------------------------------------------------------------
(* analyze_evolution                                                        *)

AtLeastOne(n) == IF n = 0 THEN 1 ELSE n

PerFileChurn(change) == AtLeastOne(change.churn \div AtLeastOne(Cardinality(change.files)))

FileCommits(h, p) == {k \in DOMAIN h : p \in h[k].files}

Hot(h) == UNION {h[k].files : k \in DOMAIN h}

\* Mutant: the churn of the last commit replaces that of the others.
LastChurn(h, p) == PerFileChurn(h[CHOOSE k \in FileCommits(h, p) : \A j \in FileCommits(h, p) : j <= k])

FileChurn(h, p) == SumFunctionOnSet([k \in DOMAIN h |-> PerFileChurn(h[k])], FileCommits(h, p))

\* shas[:20] of commits in their order.
Oldest(commits) == {k \in commits : Cardinality({j \in commits : j < k}) < EvidenceLimit}

Joint(h, l, r) == FileCommits(h, l) \cap FileCommits(h, r)

\* Mutant: commits of both files count twice.
SumOfBoth(h, l, r) == Cardinality(FileCommits(h, l)) + Cardinality(FileCommits(h, r))

CommitsOfEither(h, l, r) == Cardinality(FileCommits(h, l) \cup FileCommits(h, r))

\* Two files that at least two commits changed together, with confidence count / union.
CoChanges(h) ==
  {[left |-> p[1], right |-> p[2], count |-> Cardinality(Joint(h, p[1], p[2])),
    union |-> CommitsOfEither(h, p[1], p[2]), evidence |-> Oldest(Joint(h, p[1], p[2]))] :
     p \in {p \in Paths \X Paths :
              PathRank[p[1]] < PathRank[p[2]] /\ Cardinality(Joint(h, p[1], p[2])) >= 2}}

MostCommits(h) == Max({Cardinality(FileCommits(h, p)) : p \in Hot(h)})

MostChurn(h) == Max({FileChurn(h, p) : p \in Hot(h)})

\* 0.7 of the share of commits and 0.3 of the share of churn, of FullScore.
HotspotScore(h, p) ==
  7 * Cardinality(FileCommits(h, p)) * MostChurn(h) + 3 * FileChurn(h, p) * MostCommits(h)

FullScore(h) == 10 * MostCommits(h) * MostChurn(h)

\* The commits of a module, file by file, each where it stands first.
CitedBy(h, group) ==
  LET commits == UNION {FileCommits(h, p) : p \in group}
      first(k) == Min({PathRank[p] : p \in group \cap h[k].files})
      before(j, k) == first(j) < first(k) \/ (first(j) = first(k) /\ j < k)
  IN  {k \in commits : Cardinality({j \in commits : before(j, k)}) < EvidenceLimit}

\* Confidence is (files + changed) / (2 * files).
ModuleCandidates(h, t) ==
  {[key |-> key, files |-> {p \in t : ModuleKey[p] = key},
    changed |-> {p \in t \cap Hot(h) : ModuleKey[p] = key},
    evidence |-> CitedBy(h, {p \in t : ModuleKey[p] = key})] : key \in {ModuleKey[p] : p \in t}}

-----------------------------------------------------------------------------
(* rank_impact                                                              *)

\* Weights are fractions of Unit, which every number of commits divides.
Unit == FoldSet(LAMBDA a, b : a * b, 1, 1..HistoryLimit)

Relations(h, t) ==
  {[source |-> c.left, target |-> c.right, weight |-> (Unit * c.count) \div c.union,
    commits |-> c.evidence, edges |-> {}] : c \in CoChanges(h)}
  \cup
  {[source |-> e[1], target |-> e[2], weight |-> Unit, commits |-> {}, edges |-> {e}] :
     e \in {e \in Imports : {e[1], e[2]} \subseteq t}}

\* Mutant: what points at the selected file is not looked at.
Outgoing(selected, r) == IF r.source = selected THEN {<<r.target, 10>>} ELSE {}

\* The other end of a relation of the selected file, and how much of the weight counts.
OtherEnd(selected, r) ==
  IF r.source = selected THEN {<<r.target, 10>>}
  ELSE IF r.target = selected THEN {<<r.source, 9>>} ELSE {}

Impacted(h, t, selected) ==
  LET contributions == {c \in Relations(h, t) \X (Paths \X {9, 10}) : c[2] \in OtherEnd(selected, c[1])}
      share == [c \in contributions |-> c[1].weight * c[2][2]]
      of(q) == {c \in contributions : c[2][1] = q}
  IN  {[path    |-> q,
        score   |-> Min({10 * Unit, SumFunctionOnSet(share, of(q))}),
        commits |-> UNION {c[1].commits : c \in of(q)},
        edges   |-> UNION {c[1].edges : c \in of(q)}] : q \in {c[2][1] : c \in contributions}}

Impact(h, t, selected) ==
  LET all == Impacted(h, t, selected)
      ahead(j, i) == j.score > i.score \/ (j.score = i.score /\ PathRank[j.path] < PathRank[i.path])
  IN  {i \in all : Cardinality({j \in all : ahead(j, i)}) < ImpactLimit}

\* GET /architecture: ORDER BY commit_count DESC, left_path, LIMIT; ties may fall either way.
CoChangeViews(h) ==
  LET all == CoChanges(h)
      ahead(c, d) == c.count > d.count \/ (c.count = d.count /\ PathRank[c.left] < PathRank[d.left])
  IN  {view \in kSubset(Min({ViewLimit, Cardinality(all)}), all) :
         \A c \in view, d \in all \ view : ~ahead(d, c)}

-----------------------------------------------------------------------------
(* Properties                                                               *)

Pair(c) == {c.left, c.right}

SamePair(c, d) == c.left = d.left /\ c.right = d.right

\* c has the higher confidence, or both are certain.
Firmer(c, d) ==
  \/ c.count * d.union > d.count * c.union
  \/ c.count = c.union /\ d.count = d.union

\* Whether a pair was changed as one, in one of its files, or not at all.
Pull(pair, files) == IF pair \subseteq files THEN 1 ELSE IF pair \cap files = {} THEN 0 ELSE -1

\* The listed pairs of two windows of the history, a commit further.
PairsFollow(was, is) ==
  LET gone == DOMAIN was \ DOMAIN is
      left == UNION {was[k].files : k \in gone}
      arrived == UNION {is[k].files : k \in DOMAIN is \ DOMAIN was}
      pull(pair) == Pull(pair, arrived) - Pull(pair, left)
      joins(pair) == pair \subseteq arrived /\ ~(pair \subseteq left)
      leaves(pair) == pair \subseteq left /\ ~(pair \subseteq arrived)
  IN  /\ \A c \in CoChanges(was) :
           (c.count = 2 /\ leaves(Pair(c))) <=> \A d \in CoChanges(is) : ~SamePair(c, d)
      /\ \A d \in CoChanges(is) :
           (d.count = 2 /\ joins(Pair(d))) <=> \A c \in CoChanges(was) : ~SamePair(c, d)
      /\ \A c \in CoChanges(was), d \in CoChanges(is) : SamePair(c, d) =>
           /\ c.evidence \ gone \subseteq d.evidence
           /\ Pair(c) \cap (arrived \cup left) = {} => d = c
           /\ pull(Pair(c)) = 0 => d.count = c.count /\ d.union = c.union
           /\ pull(Pair(c)) > 0 => Firmer(d, c)
           /\ pull(Pair(c)) < 0 => Firmer(c, d)

\* IMPLEMENTATION_PLAN.md 25: a commit that changes both files makes a listed pair more confident,
\* one that changes one of them less, and one that changes neither does not matter; the commit
\* that leaves the last HistoryLimit for it counts the other way round.  Only a pair that two
\* commits made and that loses one goes, and what is still mined stays cited.
CoChangesFollowCommits == [][PairsFollow(Mined(history), Mined(history'))]_evolutionVars

\* A file that changed whenever another did is no cooler, and hotter if it changed more often;
\* only what leads in commits and churn has the full score.  The candidates of modules
\* divide the tree, and a candidate cites commits of its files as soon as there are some.
RankingsFollowHistory ==
  LET h == Mined(history) IN
  /\ \A p, q \in Hot(h) :
       FileCommits(h, q) \subseteq FileCommits(h, p) =>
         /\ HotspotScore(h, p) >= HotspotScore(h, q)
         /\ HotspotScore(h, p) = HotspotScore(h, q) => FileCommits(h, q) = FileCommits(h, p)
  /\ \A p \in Hot(h) :
       /\ HotspotScore(h, p) <= FullScore(h)
       /\ HotspotScore(h, p) = FullScore(h) => \A q \in Hot(h) : FileChurn(h, q) <= FileChurn(h, p)
  /\ \A p \in currentFiles : \E m \in ModuleCandidates(h, currentFiles) :
       /\ p \in m.files
       /\ \A n \in ModuleCandidates(h, currentFiles) : p \in n.files => n = m
       /\ \A k \in m.evidence : h[k].files \cap m.changed # {}
       /\ m.evidence = {} <=> m.changed = {}

\* Impact is mutual, on the same evidence and up to the tenth that a direction costs; the
\* commits it cites changed both files; the limit keeps the strongest.
ImpactFollowsRelations ==
  \A p \in Paths :
    LET h == Mined(history)
        all == Impacted(h, currentFiles, p)
        top == Impact(h, currentFiles, p)
    IN  /\ \A i \in all :
             /\ i.commits # {} \/ i.edges # {}
             /\ \A k \in i.commits : {p, i.path} \subseteq h[k].files
             /\ \E j \in Impacted(h, currentFiles, i.path) :
                  /\ j.path = p /\ j.commits = i.commits /\ j.edges = i.edges
                  /\ 10 * j.score >= 9 * i.score
        /\ \A i \in all \ top :
             Cardinality(top) = ImpactLimit /\ \A j \in top : j.score >= i.score

\* What the code does not keep: two requests for one snapshot show the same co-changes.
ViewIsDetermined == Cardinality(CoChangeViews(Mined(history))) = 1
=============================================================================
