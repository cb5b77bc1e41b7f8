---------------------------- MODULE Analyses_proofs ----------------------------
(***************************************************************************)
(* Proofs about the analyses: for any history of commits (Evolution), any  *)
(* tree, its imports and any order of edits, snapshots and pages           *)
(* (GenomeGraph), and any text of a report (ClaimParsing).                 *)
(***************************************************************************)
EXTENDS GenomeGraph, Evolution, ClaimParsing, Folds_proofs

-----------------------------------------------------------------------------
(* Co-changes                                                               *)

\* A history, or a part of it, by the numbers of its commits.
IsWindow(h) == h \in [DOMAIN h -> Change] /\ DOMAIN h \in SUBSET Nat /\ IsFiniteSet(DOMAIN h)

\* What is mined of a history are its last commits.
LEMMA MinedIs ==
  ASSUME NEW h \in Seq(Change)
  PROVE  /\ IsWindow(Mined(h))
         /\ DOMAIN Mined(h) = {k \in 1..Len(h) : k > Len(h) - HistoryLimit}
         /\ \A k \in DOMAIN Mined(h) : Mined(h)[k] = h[k]
<1> DEFINE last == {k \in 1..Len(h) : k > Len(h) - HistoryLimit}
<1>1. DOMAIN h = 1..Len(h) /\ \A k \in 1..Len(h) : h[k] \in Change
  OBVIOUS
<1>2. Mined(h) = [k \in last |-> h[k]]
  BY <1>1 DEF Mined
<1>3. last \subseteq 1..Len(h) /\ IsFiniteSet(1..Len(h)) /\ last \in SUBSET Nat
  BY FS_Interval
<1>4. IsFiniteSet(last)
  BY <1>3, FS_Subset
<1>5. \A k \in last : h[k] \in Change
  BY <1>1
<1> HIDE DEF last
<1>6. DOMAIN Mined(h) = last /\ (\A k \in last : Mined(h)[k] = h[k]) /\ Mined(h) \in [last -> Change]
  BY <1>2, <1>5
<1> QED
  BY <1>3, <1>4, <1>6 DEF IsWindow, last

\* The commits of a file are numbers of a finite history.
LEMMA CommitsFinite ==
  ASSUME NEW h, IsWindow(h), NEW l, NEW r
  PROVE  /\ FileCommits(h, l) \subseteq DOMAIN h
         /\ IsFiniteSet(Joint(h, l, r)) /\ IsFiniteSet(FileCommits(h, l) \cup FileCommits(h, r))
         /\ Joint(h, l, r) \subseteq DOMAIN h /\ DOMAIN h \in SUBSET Nat
<1>1. FileCommits(h, l) \subseteq DOMAIN h /\ FileCommits(h, r) \subseteq DOMAIN h
  BY DEF FileCommits
<1>2. IsFiniteSet(DOMAIN h) /\ DOMAIN h \in SUBSET Nat
  BY DEF IsWindow
<1>3. /\ Joint(h, l, r) \subseteq DOMAIN h
      /\ FileCommits(h, l) \cup FileCommits(h, r) \subseteq DOMAIN h
  BY <1>1 DEF Joint
<1> QED
  BY <1>1, <1>2, <1>3, FS_Subset

\* The window after one more commit: commit n arrives, and at most one is gone.
Slides(was, is, n, gone) ==
  /\ IsWindow(was) /\ IsWindow(is)
  /\ n \in Nat /\ \A k \in DOMAIN was : k < n
  /\ gone \subseteq DOMAIN was /\ \A j, k \in gone : j = k
  /\ DOMAIN is = (DOMAIN was \ gone) \cup {n}
  /\ \A k \in DOMAIN was \ gone : is[k] = was[k]

LEMMA MinedSlides ==
  ASSUME NEW h \in Seq(Change), NEW change \in Change
  PROVE  Slides(Mined(h), Mined(Append(h, change)), Len(h) + 1,
                DOMAIN Mined(h) \ DOMAIN Mined(Append(h, change)))
<1> DEFINE g == Append(h, change)
           n == Len(h)
           was == Mined(h)
           is == Mined(g)
           gone == DOMAIN was \ DOMAIN is
<1>1. g \in Seq(Change) /\ Len(g) = n + 1 /\ n \in Nat /\ \A k \in 1..n : g[k] = h[k]
  OBVIOUS
<1>2. /\ IsWindow(was) /\ DOMAIN was = {k \in 1..n : k > n - HistoryLimit}
      /\ \A k \in DOMAIN was : was[k] = h[k]
  BY MinedIs
<1>3. /\ IsWindow(is) /\ DOMAIN is = {k \in 1..n + 1 : k > (n + 1) - HistoryLimit}
      /\ \A k \in DOMAIN is : is[k] = g[k]
  BY <1>1, MinedIs
<1>4. HistoryLimit \in Nat \ {0}
  BY EvolutionAssumption
<1> HIDE DEF g, n, was, is
<1>5. n + 1 \in DOMAIN is /\ \A k \in DOMAIN is : k = n + 1 \/ k \in DOMAIN was
  BY <1>1, <1>2, <1>3, <1>4
<1>6. DOMAIN is = (DOMAIN was \ gone) \cup {n + 1}
  BY <1>5
<1>7. \A k \in gone : k = n + 1 - HistoryLimit
  BY <1>1, <1>2, <1>3, <1>4
<1>8. \A j, k \in gone : j = k
  BY <1>7
<1>9. \A k \in DOMAIN was : k < n + 1
  BY <1>1, <1>2
<1>10. \A k \in DOMAIN was \ gone : is[k] = was[k]
  BY <1>1, <1>2, <1>3
<1>11. gone \subseteq DOMAIN was
  OBVIOUS
<1>12. n + 1 \in Nat
  BY <1>1
<1> HIDE DEF gone
<1>13. Slides(was, is, n + 1, gone)
  BY <1>2, <1>3, <1>6, <1>8, <1>9, <1>10, <1>11, <1>12 DEF Slides
<1> QED
  BY <1>13 DEF g, n, was, is, gone

\* What is listed of two files.
CoChange(h, l, r) ==
  [left |-> l, right |-> r, count |-> Cardinality(Joint(h, l, r)),
   union |-> CommitsOfEither(h, l, r), evidence |-> Oldest(Joint(h, l, r))]

Listed(h, l, r) == PathRank[l] < PathRank[r] /\ Cardinality(Joint(h, l, r)) >= 2

LEMMA CoChangesAre ==
  ASSUME NEW h
  PROVE  \A c : c \in CoChanges(h) <=> \E l, r \in Paths : Listed(h, l, r) /\ c = CoChange(h, l, r)
<1>1. \A c : c \in CoChanges(h) <=>
        \E p \in Paths \X Paths : Listed(h, p[1], p[2]) /\ c = CoChange(h, p[1], p[2])
  BY DEF CoChanges, CoChange, Listed
<1>2. \A p \in Paths \X Paths : p[1] \in Paths /\ p[2] \in Paths
  OBVIOUS
<1>3. ASSUME NEW l \in Paths, NEW r \in Paths
      PROVE  \E p \in Paths \X Paths : p[1] = l /\ p[2] = r
  <2>1. <<l, r>> \in Paths \X Paths /\ <<l, r>>[1] = l /\ <<l, r>>[2] = r
    OBVIOUS
  <2> QED
    BY <2>1
<1> QED
  BY <1>1, <1>2, <1>3

\* One element goes and one comes.
One(b) == IF b THEN 1 ELSE 0

Swaps(S, T, gone, n, new) ==
  /\ IsFiniteSet(S) /\ n \notin S /\ \A j, k \in gone : j = k
  /\ new = {} \/ new = {n}
  /\ T = (S \ gone) \cup new

LEMMA Swapped ==
  ASSUME NEW S, NEW T, NEW gone, NEW n, NEW new, Swaps(S, T, gone, n, new)
  PROVE  /\ IsFiniteSet(T) /\ Cardinality(T) \in Nat /\ Cardinality(S) \in Nat
         /\ Cardinality(T) + One(S \cap gone # {}) = Cardinality(S) + One(new # {})
<1>0. /\ IsFiniteSet(S) /\ n \notin S /\ \A j, k \in gone : j = k
      /\ new = {} \/ new = {n}
      /\ T = (S \ gone) \cup new
  BY DEF Swaps
<1> DEFINE R == S \ gone
<1>1. IsFiniteSet(R) /\ Cardinality(R) \in Nat /\ Cardinality(S) \in Nat
  BY <1>0, FS_Subset, FS_CardinalityType
<1>2. Cardinality(R) + One(S \cap gone # {}) = Cardinality(S)
  <2>1. CASE S \cap gone = {}
    <3>1. R = S
      BY <2>1
    <3>2. One(S \cap gone # {}) = 0
      BY <2>1 DEF One
    <3> HIDE DEF R
    <3> QED
      BY <1>1, <3>1, <3>2
  <2>2. CASE S \cap gone # {}
    <3>1. PICK o \in S : o \in gone
      BY <2>2
    <3>2. R = S \ {o}
      BY <1>0, <3>1
    <3>3. Cardinality(R) = Cardinality(S) - 1
      BY <1>0, <3>1, <3>2, FS_RemoveElement
    <3> QED
      BY <1>1, <2>2, <3>3 DEF One
  <2> QED
    BY <2>1, <2>2
<1>3. IsFiniteSet(T) /\ Cardinality(T) = Cardinality(R) + One(new # {})
  <2>1. CASE new = {n}
    <3>1. T = R \cup {n} /\ n \notin R
      BY <1>0, <2>1
    <3>2. IsFiniteSet(T) /\ Cardinality(T) = Cardinality(R) + 1
      BY <1>1, <3>1, FS_AddElement
    <3> QED
      BY <2>1, <3>2 DEF One
  <2>2. CASE new = {}
    <3>1. T = R
      BY <1>0, <2>2
    <3> QED
      BY <1>1, <2>2, <3>1 DEF One
  <2> QED
    BY <1>0, <2>1, <2>2
<1> HIDE DEF R
<1>4. One(new # {}) \in Nat /\ One(S \cap gone # {}) \in Nat
  BY DEF One
<1>5. Cardinality(T) \in Nat
  BY <1>1, <1>3, <1>4
<1> QED
  BY <1>1, <1>2, <1>3, <1>4, <1>5

\* What was among the oldest stays there when an older commit goes or a younger one joins.
LEMMA OldestStay ==
  ASSUME NEW S \in SUBSET Nat, IsFiniteSet(S), NEW T, NEW n, NEW gone,
         \A k \in S : k < n, S \ gone \subseteq T, T \subseteq S \cup {n}, n \in Nat
  PROVE  Oldest(S) \ gone \subseteq Oldest(T)
<1> SUFFICES ASSUME NEW k \in Oldest(S), k \notin gone PROVE k \in Oldest(T)
  OBVIOUS
<1>1. k \in S /\ k \in T /\ Cardinality({j \in S : j < k}) < EvidenceLimit
  BY DEF Oldest
<1>2. {j \in T : j < k} \subseteq {j \in S : j < k}
  <2> SUFFICES ASSUME NEW j \in T, j < k PROVE j \in S
    OBVIOUS
  <2>1. k \in Nat /\ k < n
    BY <1>1
  <2>2. j \in S \/ j = n
    OBVIOUS
  <2>3. j # n
    BY <2>1
  <2> QED
    BY <2>2, <2>3
<1>3. IsFiniteSet({j \in S : j < k})
  BY FS_Subset
<1>4. /\ Cardinality({j \in T : j < k}) <= Cardinality({j \in S : j < k})
      /\ Cardinality({j \in T : j < k}) \in Nat /\ Cardinality({j \in S : j < k}) \in Nat
  BY <1>2, <1>3, FS_Subset, FS_CardinalityType
<1>5. Cardinality({j \in T : j < k}) < EvidenceLimit
  BY <1>1, <1>4, EvolutionAssumption
<1> QED
  BY <1>1, <1>5 DEF Oldest

\* How a step of the window changes what is counted and cited of two files: arrived and left are
\* the files of the commit that comes and of the one that goes.
PairSlid(c, d, pair, arrived, left, gone) ==
  /\ c.count \in Nat /\ c.union \in Nat /\ d.count \in Nat /\ d.union \in Nat
  /\ c.count <= c.union /\ d.count <= d.union
  /\ d.count + One(pair \subseteq left) = c.count + One(pair \subseteq arrived)
  /\ d.union + One(pair \cap left # {}) = c.union + One(pair \cap arrived # {})
  /\ c.evidence \ gone \subseteq d.evidence
  /\ pair \cap (arrived \cup left) = {} => d.evidence = c.evidence

LEMMA PairSlides ==
  ASSUME NEW was, NEW is, NEW n, NEW gone, Slides(was, is, n, gone), NEW l, NEW r,
         NEW left, left = UNION {was[k].files : k \in gone}
  PROVE  PairSlid(CoChange(was, l, r), CoChange(is, l, r), {l, r}, is[n].files, left, gone)
<1> DEFINE arrived == is[n].files
           pair == {l, r}
           E(h) == FileCommits(h, l) \cup FileCommits(h, r)
<1>1. /\ IsWindow(was) /\ IsWindow(is) /\ n \in Nat /\ \A k \in DOMAIN was : k < n
      /\ gone \subseteq DOMAIN was /\ \A j, k \in gone : j = k
      /\ DOMAIN is = (DOMAIN was \ gone) \cup {n}
      /\ \A k \in DOMAIN was \ gone : is[k] = was[k]
  BY DEF Slides
<1>2. /\ IsFiniteSet(Joint(was, l, r)) /\ IsFiniteSet(E(was)) /\ Joint(was, l, r) \in SUBSET Nat
      /\ FileCommits(was, l) \subseteq DOMAIN was /\ FileCommits(was, r) \subseteq DOMAIN was
      /\ Joint(was, l, r) \subseteq DOMAIN was
  BY <1>1, CommitsFinite
<1>3. n \notin DOMAIN was
  BY <1>1
<1>4. \A p : FileCommits(is, p) =
        (FileCommits(was, p) \ gone) \cup (IF p \in arrived THEN {n} ELSE {})
  BY <1>1, <1>3 DEF FileCommits
<1>5. Joint(is, l, r) = (Joint(was, l, r) \ gone) \cup (IF pair \subseteq arrived THEN {n} ELSE {})
  BY <1>2, <1>3, <1>4 DEF Joint
<1>6. E(is) = (E(was) \ gone) \cup (IF pair \cap arrived # {} THEN {n} ELSE {})
  BY <1>4
<1>7. \A p, k : k \in gone => (k \in FileCommits(was, p) <=> p \in left)
  <2>1. \A p, k : k \in gone => (k \in FileCommits(was, p) <=> p \in was[k].files)
    BY <1>1 DEF FileCommits
  <2>2. \A k \in gone : left = was[k].files
    <3> SUFFICES ASSUME NEW k \in gone PROVE left = was[k].files
      OBVIOUS
    <3>1. {was[j].files : j \in gone} = {was[k].files}
      BY <1>1
    <3> QED
      BY <3>1
  <2> QED
    BY <2>1, <2>2
<1>8. gone = {} => left = {}
  OBVIOUS
<1>9. Joint(was, l, r) \cap gone # {} <=> pair \subseteq left
  BY <1>7, <1>8 DEF Joint
<1>10. E(was) \cap gone # {} <=> pair \cap left # {}
  BY <1>7, <1>8
<1>11. n \notin Joint(was, l, r) /\ n \notin E(was)
  BY <1>2, <1>3
<1> HIDE DEF E, arrived, pair
<1>12. /\ Cardinality(Joint(is, l, r)) \in Nat /\ Cardinality(Joint(was, l, r)) \in Nat
       /\ Cardinality(Joint(is, l, r)) + One(pair \subseteq left)
            = Cardinality(Joint(was, l, r)) + One(pair \subseteq arrived)
  <2>1. PICK S, T, new : S = Joint(was, l, r) /\ T = Joint(is, l, r) /\ new = IF pair \subseteq arrived THEN {n} ELSE {}
    OBVIOUS
  <2>2. IsFiniteSet(S) /\ n \notin S /\ \A j, k \in gone : j = k
    BY <1>1, <1>2, <1>11, <2>1
  <2>3. (new = {} \/ new = {n}) /\ T = (S \ gone) \cup new
    BY <1>5, <2>1
  <2>4. /\ Cardinality(T) \in Nat /\ Cardinality(S) \in Nat
        /\ Cardinality(T) + One(S \cap gone # {}) = Cardinality(S) + One(new # {})
    <3>1. \A j, k \in gone : j = k
      BY <1>1
    <3>2. Swaps(S, T, gone, n, new)
      BY <2>2, <2>3, <3>1 DEF Swaps
    <3> QED
      BY <3>2, Swapped
  <2>5. One(new # {}) = One(pair \subseteq arrived) /\ One(S \cap gone # {}) = One(pair \subseteq left)
    BY <1>9, <2>1 DEF One
  <2> QED
    BY <2>1, <2>4, <2>5
<1>13. /\ Cardinality(E(is)) \in Nat /\ Cardinality(E(was)) \in Nat
       /\ Cardinality(E(is)) + One(pair \cap left # {}) = Cardinality(E(was)) + One(pair \cap arrived # {})
  <2>1. PICK S, T, new : S = E(was) /\ T = E(is) /\ new = IF pair \cap arrived # {} THEN {n} ELSE {}
    OBVIOUS
  <2>2. IsFiniteSet(S) /\ n \notin S /\ \A j, k \in gone : j = k
    BY <1>1, <1>2, <1>11, <2>1
  <2>3. (new = {} \/ new = {n}) /\ T = (S \ gone) \cup new
    BY <1>6, <2>1
  <2>4. /\ Cardinality(T) \in Nat /\ Cardinality(S) \in Nat
        /\ Cardinality(T) + One(S \cap gone # {}) = Cardinality(S) + One(new # {})
    <3>1. \A j, k \in gone : j = k
      BY <1>1
    <3>2. Swaps(S, T, gone, n, new)
      BY <2>2, <2>3, <3>1 DEF Swaps
    <3> QED
      BY <3>2, Swapped
  <2>5. One(new # {}) = One(pair \cap arrived # {}) /\ One(S \cap gone # {}) = One(pair \cap left # {})
    BY <1>10, <2>1 DEF One
  <2> QED
    BY <2>1, <2>4, <2>5
<1>14. Oldest(Joint(was, l, r)) \ gone \subseteq Oldest(Joint(is, l, r))
  <2>1. \A k \in Joint(was, l, r) : k < n
    BY <1>1, <1>2
  <2>2. /\ Joint(was, l, r) \ gone \subseteq Joint(is, l, r)
        /\ Joint(is, l, r) \subseteq Joint(was, l, r) \cup {n}
    BY <1>5
  <2> QED
    BY <1>1, <1>2, <2>1, <2>2, OldestStay
<1>15. pair \cap (arrived \cup left) = {} => Joint(is, l, r) = Joint(was, l, r)
  <2>1. pair # {}
    BY DEF pair
  <2> QED
    BY <1>5, <1>9, <2>1
<1>16. \A h \in {was, is} : Cardinality(Joint(h, l, r)) <= Cardinality(E(h))
  <2>1. ASSUME NEW h, IsWindow(h) PROVE Cardinality(Joint(h, l, r)) <= Cardinality(E(h))
    <3>1. Joint(h, l, r) \subseteq E(h)
      BY DEF Joint, E
    <3>2. IsFiniteSet(E(h))
      BY <2>1, CommitsFinite DEF E
    <3> QED
      BY <3>1, <3>2, FS_Subset
  <2> QED
    BY <1>1, <2>1
<1> DEFINE c == CoChange(was, l, r)
           d == CoChange(is, l, r)
<1>17. /\ c.count = Cardinality(Joint(was, l, r)) /\ c.union = Cardinality(E(was))
       /\ c.evidence = Oldest(Joint(was, l, r))
  BY DEF CoChange, CommitsOfEither, E
<1>18. /\ d.count = Cardinality(Joint(is, l, r)) /\ d.union = Cardinality(E(is))
       /\ d.evidence = Oldest(Joint(is, l, r))
  BY DEF CoChange, CommitsOfEither, E
<1> HIDE DEF c, d
<1>19. PairSlid(c, d, pair, arrived, left, gone)
  BY <1>12, <1>13, <1>14, <1>15, <1>16, <1>17, <1>18 DEF PairSlid
<1> QED
  BY <1>19 DEF c, d, pair, arrived

\* Count and union move by at most one, and the confidence with them.
LEMMA ConfidenceMoves ==
  ASSUME NEW count \in Nat, NEW union \in Nat, count <= union, count > 0
  PROVE  /\ (count + 1) * (union + 1) \in Nat
         /\ count < union => (count + 1) * union > count * (union + 1)
         /\ (count + 1) * union > count * union
         /\ count * (union + 1) > count * union
<1>1. /\ (count + 1) * union = count * union + union /\ count * (union + 1) = count * union + count
      /\ count * union \in Nat /\ (count + 1) * (union + 1) \in Nat
  OBVIOUS
<1> DEFINE m == count * union
<1>2. /\ (count + 1) * union = m + union /\ count * (union + 1) = m + count /\ m \in Nat
  BY <1>1
<1> HIDE DEF m
<1>3. union > 0
  OBVIOUS
<1>4. /\ count < union => (count + 1) * union > count * (union + 1)
      /\ (count + 1) * union > m /\ count * (union + 1) > m
  BY <1>2, <1>3
<1> QED
  BY <1>1, <1>4 DEF m

LEMMA PullDecides ==
  ASSUME NEW c, NEW d, NEW pair, pair # {}, NEW arrived, NEW left, NEW gone,
         PairSlid(c, d, pair, arrived, left, gone), c.count > 0, d.count > 0
  PROVE  LET pull == Pull(pair, arrived) - Pull(pair, left) IN
         /\ pull = 0 => d.count = c.count /\ d.union = c.union
         /\ pull > 0 => Firmer(d, c)
         /\ pull < 0 => Firmer(c, d)
<1> DEFINE cc == c.count
           cu == c.union
           dc == d.count
           du == d.union
           pull == Pull(pair, arrived) - Pull(pair, left)
<1>1. /\ cc \in Nat /\ cu \in Nat /\ dc \in Nat /\ du \in Nat /\ cc <= cu /\ dc <= du
      /\ dc + One(pair \subseteq left) = cc + One(pair \subseteq arrived)
      /\ du + One(pair \cap left # {}) = cu + One(pair \cap arrived # {})
  BY DEF PairSlid
<1>2. cc > 0 /\ dc > 0
  OBVIOUS
<1>3. /\ Firmer(d, c) <=> (dc * cu > cc * du \/ (dc = du /\ cc = cu))
      /\ Firmer(c, d) <=> (cc * du > dc * cu \/ (cc = cu /\ dc = du))
  BY DEF Firmer
<1> HIDE DEF cc, cu, dc, du
<1>4. \A f : pair \subseteq f => pair \cap f # {}
  OBVIOUS
<1> DEFINE B(f) == pair \subseteq f
           N(f) == pair \cap f = {}
<1>5. \A f : /\ One(pair \subseteq f) = (IF B(f) THEN 1 ELSE 0)
             /\ One(pair \cap f # {}) = (IF N(f) THEN 0 ELSE 1)
             /\ Pull(pair, f) = (IF B(f) THEN 1 ELSE IF N(f) THEN 0 ELSE -1)
             /\ ~(B(f) /\ N(f))
  BY <1>4 DEF One, Pull
<1> HIDE DEF B, N
<1>6. CASE dc = cc + 1 /\ du = cu + 1 /\ B(arrived) /\ N(left)
  <2>1. pull = 1
    BY <1>5, <1>6
  <2>2. Firmer(d, c)
    <3>1. cc < cu => (cc + 1) * cu > cc * (cu + 1)
      BY <1>1, <1>2, ConfidenceMoves
    <3> QED
      BY <1>1, <1>3, <1>6, <3>1
  <2> QED
    BY <2>1, <2>2
<1>7. CASE dc = cc + 1 /\ du = cu /\ B(arrived) /\ ~B(left) /\ ~N(left)
  <2>1. pull = 2
    BY <1>5, <1>7
  <2>2. Firmer(d, c)
    <3>1. (cc + 1) * cu > cc * cu
      BY <1>1, <1>2, ConfidenceMoves
    <3> QED
      BY <1>1, <1>3, <1>7, <3>1
  <2> QED
    BY <2>1, <2>2
<1>8. CASE dc = cc /\ cu = du + 1 /\ N(arrived) /\ ~B(left) /\ ~N(left)
  <2>1. pull = 1
    BY <1>5, <1>8
  <2>2. Firmer(d, c)
    <3>1. dc * (du + 1) > dc * du
      BY <1>1, <1>2, ConfidenceMoves
    <3> QED
      BY <1>1, <1>3, <1>8, <3>1
  <2> QED
    BY <2>1, <2>2
<1>9. CASE cc = dc + 1 /\ cu = du + 1 /\ N(arrived) /\ B(left)
  <2>1. pull = -1
    BY <1>5, <1>9
  <2>2. Firmer(c, d)
    <3>1. dc < du => (dc + 1) * du > dc * (du + 1)
      BY <1>1, <1>2, ConfidenceMoves
    <3> QED
      BY <1>1, <1>3, <1>9, <3>1
  <2> QED
    BY <2>1, <2>2
<1>10. CASE cc = dc + 1 /\ cu = du /\ ~B(arrived) /\ ~N(arrived) /\ B(left)
  <2>1. pull = -2
    BY <1>5, <1>10
  <2>2. Firmer(c, d)
    <3>1. (dc + 1) * du > dc * du
      BY <1>1, <1>2, ConfidenceMoves
    <3> QED
      BY <1>1, <1>3, <1>10, <3>1
  <2> QED
    BY <2>1, <2>2
<1>11. CASE dc = cc /\ du = cu + 1 /\ ~B(arrived) /\ ~N(arrived) /\ N(left)
  <2>1. pull = -1
    BY <1>5, <1>11
  <2>2. Firmer(c, d)
    <3>1. cc * (cu + 1) > cc * cu
      BY <1>1, <1>2, ConfidenceMoves
    <3> QED
      BY <1>1, <1>3, <1>11, <3>1
  <2> QED
    BY <2>1, <2>2
<1>12. CASE dc = cc /\ du = cu /\ (B(arrived) <=> B(left)) /\ (N(arrived) <=> N(left))
  <2>1. pull = 0
    BY <1>5, <1>12
  <2> QED
    BY <1>12, <2>1 DEF cc, cu, dc, du
<1>13. /\ dc + (IF B(left) THEN 1 ELSE 0) = cc + (IF B(arrived) THEN 1 ELSE 0)
       /\ du + (IF N(left) THEN 0 ELSE 1) = cu + (IF N(arrived) THEN 0 ELSE 1)
  BY <1>1, <1>5
<1>14. ~(B(left) /\ N(left)) /\ ~(B(arrived) /\ N(arrived))
  BY <1>5
<1> HIDE DEF pull
<1>15. \/ dc = cc + 1 /\ du = cu + 1 /\ B(arrived) /\ N(left)
       \/ dc = cc + 1 /\ du = cu /\ B(arrived) /\ ~B(left) /\ ~N(left)
       \/ dc = cc /\ cu = du + 1 /\ N(arrived) /\ ~B(left) /\ ~N(left)
       \/ cc = dc + 1 /\ cu = du + 1 /\ N(arrived) /\ B(left)
       \/ cc = dc + 1 /\ cu = du /\ ~B(arrived) /\ ~N(arrived) /\ B(left)
       \/ dc = cc /\ du = cu + 1 /\ ~B(arrived) /\ ~N(arrived) /\ N(left)
       \/ dc = cc /\ du = cu /\ (B(arrived) <=> B(left)) /\ (N(arrived) <=> N(left))
  BY <1>1, <1>13, <1>14
<1> QED
  BY <1>6, <1>7, <1>8, <1>9, <1>10, <1>11, <1>12, <1>15 DEF pull

\* A pair listed before and after the step.
LEMMA ListedFollows ==
  ASSUME NEW c, NEW d, NEW l, NEW r, NEW arrived, NEW left, NEW gone,
         PairSlid(c, d, {l, r}, arrived, left, gone), c.count >= 2, d.count >= 2,
         c = [left |-> l, right |-> r, count |-> c.count, union |-> c.union, evidence |-> c.evidence],
         d = [left |-> l, right |-> r, count |-> d.count, union |-> d.union, evidence |-> d.evidence]
  PROVE  /\ c.evidence \ gone \subseteq d.evidence
         /\ {l, r} \cap (arrived \cup left) = {} => d = c
         /\ LET pull == Pull({l, r}, arrived) - Pull({l, r}, left) IN
            /\ pull = 0 => d.count = c.count /\ d.union = c.union
            /\ pull > 0 => Firmer(d, c)
            /\ pull < 0 => Firmer(c, d)
<1> DEFINE pair == {l, r}
<1>1. c.count \in Nat /\ d.count \in Nat /\ pair # {}
  BY DEF PairSlid
<1>2. c.count > 0 /\ d.count > 0
  BY <1>1
<1> HIDE DEF pair
<1>3. /\ Pull(pair, arrived) - Pull(pair, left) = 0 => d.count = c.count /\ d.union = c.union
      /\ Pull(pair, arrived) - Pull(pair, left) > 0 => Firmer(d, c)
      /\ Pull(pair, arrived) - Pull(pair, left) < 0 => Firmer(c, d)
  <2>1. PairSlid(c, d, pair, arrived, left, gone)
    BY DEF pair
  <2> QED
    BY <1>1, <1>2, <2>1, PullDecides
<1>4. ASSUME pair \cap (arrived \cup left) = {} PROVE d = c
  <2>1. d.evidence = c.evidence
    BY <1>4 DEF PairSlid, pair
  <2>2. Pull(pair, arrived) = 0 /\ Pull(pair, left) = 0
    <3>1. \A f : pair \cap f = {} => ~(pair \subseteq f)
      BY <1>1
    <3> QED
      BY <1>4, <3>1 DEF Pull
  <2>3. d.count = c.count /\ d.union = c.union
    BY <1>3, <2>2
  <2> QED
    BY <2>1, <2>3
<1>5. c.evidence \ gone \subseteq d.evidence
  BY DEF PairSlid
<1> QED
  BY <1>3, <1>4, <1>5 DEF pair

LEMMA WindowFollows ==
  ASSUME NEW was, NEW is, NEW n, NEW gone, Slides(was, is, n, gone)
  PROVE  PairsFollow(was, is)
<1> DEFINE left == UNION {was[k].files : k \in gone}
           arrived == is[n].files
           pull(pair) == Pull(pair, arrived) - Pull(pair, left)
           joins(pair) == pair \subseteq arrived /\ ~(pair \subseteq left)
           leaves(pair) == pair \subseteq left /\ ~(pair \subseteq arrived)
<1>1. DOMAIN was \ DOMAIN is = gone /\ DOMAIN is \ DOMAIN was = {n}
  <2>1. /\ n \in Nat /\ \A k \in DOMAIN was : k < n
        /\ gone \subseteq DOMAIN was /\ DOMAIN is = (DOMAIN was \ gone) \cup {n}
    BY DEF Slides
  <2>2. n \notin DOMAIN was
    BY <2>1
  <2> QED
    BY <2>1, <2>2
<1>2. UNION {is[k].files : k \in DOMAIN is \ DOMAIN was} = arrived
  BY <1>1
<1>3. \A l, r : PairSlid(CoChange(was, l, r), CoChange(is, l, r), {l, r}, arrived, left, gone)
  <2> SUFFICES ASSUME NEW l, NEW r
               PROVE  PairSlid(CoChange(was, l, r), CoChange(is, l, r), {l, r}, arrived, left, gone)
    OBVIOUS
  <2> QED
    BY PairSlides
<1>4. \A h, l, r : LET c == CoChange(h, l, r) IN
        /\ c.left = l /\ c.right = r /\ c.count = Cardinality(Joint(h, l, r)) /\ Pair(c) = {l, r}
        /\ c = [left |-> l, right |-> r, count |-> c.count, union |-> c.union, evidence |-> c.evidence]
  BY DEF CoChange, Pair
<1> HIDE DEF left, arrived
<1>5. ASSUME NEW h, NEW g, NEW l \in Paths, NEW r \in Paths, PathRank[l] < PathRank[r], NEW c, c.left = l, c.right = r
      PROVE  (\A d \in CoChanges(g) : ~SamePair(c, d) /\ ~SamePair(d, c)) <=> ~(CoChange(g, l, r).count >= 2)
  <2>1. ASSUME CoChange(g, l, r).count >= 2
        PROVE  CoChange(g, l, r) \in CoChanges(g) /\ SamePair(c, CoChange(g, l, r))
    <3>1. Listed(g, l, r)
      BY <1>4, <1>5, <2>1 DEF Listed
    <3> QED
      BY <1>4, <1>5, <3>1, CoChangesAre DEF SamePair
  <2>2. ASSUME NEW d \in CoChanges(g), SamePair(c, d) \/ SamePair(d, c) PROVE CoChange(g, l, r).count >= 2
    <3>1. PICK i \in Paths, j \in Paths : Listed(g, i, j) /\ d = CoChange(g, i, j)
      BY CoChangesAre
    <3>2. i = l /\ j = r
      BY <1>4, <1>5, <2>2, <3>1 DEF SamePair
    <3> QED
      BY <1>4, <3>1, <3>2 DEF Listed
  <2> QED
    BY <2>1, <2>2
<1>6. ASSUME NEW c \in CoChanges(was)
      PROVE  (c.count = 2 /\ leaves(Pair(c))) <=> \A d \in CoChanges(is) : ~SamePair(c, d)
  <2>1. PICK l \in Paths, r \in Paths : Listed(was, l, r) /\ c = CoChange(was, l, r)
    BY CoChangesAre
  <2>2. c.count >= 2 /\ c.left = l /\ c.right = r /\ Pair(c) = {l, r} /\ PathRank[l] < PathRank[r]
    BY <1>4, <2>1 DEF Listed
  <2> DEFINE d == CoChange(is, l, r)
             pair == {l, r}
  <2>3. /\ c.count \in Nat /\ d.count \in Nat
        /\ d.count + One(pair \subseteq left) = c.count + One(pair \subseteq arrived)
    BY <1>3, <2>1 DEF PairSlid
  <2>4. (\A e \in CoChanges(is) : ~SamePair(c, e)) <=> ~(d.count >= 2)
    <3>1. (\A e \in CoChanges(is) : ~SamePair(c, e)) <=>
            \A e \in CoChanges(is) : ~SamePair(c, e) /\ ~SamePair(e, c)
      BY DEF SamePair
    <3> QED
      BY <1>5, <2>2, <3>1
  <2> HIDE DEF d
  <2>5. (c.count = 2 /\ leaves(pair)) <=> ~(d.count >= 2)
    BY <2>2, <2>3 DEF One
  <2> QED
    BY <2>2, <2>4, <2>5
<1>7. ASSUME NEW d \in CoChanges(is)
      PROVE  (d.count = 2 /\ joins(Pair(d))) <=> \A c \in CoChanges(was) : ~SamePair(c, d)
  <2>1. PICK l \in Paths, r \in Paths : Listed(is, l, r) /\ d = CoChange(is, l, r)
    BY CoChangesAre
  <2>2. d.count >= 2 /\ d.left = l /\ d.right = r /\ Pair(d) = {l, r} /\ PathRank[l] < PathRank[r]
    BY <1>4, <2>1 DEF Listed
  <2> DEFINE c == CoChange(was, l, r)
             pair == {l, r}
  <2>3. /\ c.count \in Nat /\ d.count \in Nat
        /\ d.count + One(pair \subseteq left) = c.count + One(pair \subseteq arrived)
    BY <1>3, <2>1 DEF PairSlid
  <2>4. (\A e \in CoChanges(was) : ~SamePair(e, d)) <=> ~(c.count >= 2)
    <3>1. (\A e \in CoChanges(was) : ~SamePair(e, d)) <=>
            \A e \in CoChanges(was) : ~SamePair(d, e) /\ ~SamePair(e, d)
      BY DEF SamePair
    <3> QED
      BY <1>5, <2>2, <3>1
  <2> HIDE DEF c
  <2>5. (d.count = 2 /\ joins(pair)) <=> ~(c.count >= 2)
    BY <2>2, <2>3 DEF One
  <2> QED
    BY <2>2, <2>4, <2>5
<1>8. ASSUME NEW c \in CoChanges(was), NEW d \in CoChanges(is), SamePair(c, d)
      PROVE  /\ c.evidence \ gone \subseteq d.evidence
             /\ Pair(c) \cap (arrived \cup left) = {} => d = c
             /\ pull(Pair(c)) = 0 => d.count = c.count /\ d.union = c.union
             /\ pull(Pair(c)) > 0 => Firmer(d, c)
             /\ pull(Pair(c)) < 0 => Firmer(c, d)
  <2>1. PICK l \in Paths, r \in Paths : Listed(was, l, r) /\ c = CoChange(was, l, r)
    BY CoChangesAre
  <2>2. PICK i \in Paths, j \in Paths : Listed(is, i, j) /\ d = CoChange(is, i, j)
    BY CoChangesAre
  <2>3. i = l /\ j = r
    BY <1>4, <1>8, <2>1, <2>2 DEF SamePair
  <2>4. c.count >= 2 /\ d.count >= 2 /\ Pair(c) = {l, r}
    BY <1>4, <2>1, <2>2 DEF Listed
  <2>5. PairSlid(c, d, {l, r}, arrived, left, gone)
    BY <1>3, <2>1, <2>2, <2>3
  <2>6. /\ c = [left |-> l, right |-> r, count |-> c.count, union |-> c.union, evidence |-> c.evidence]
        /\ d = [left |-> l, right |-> r, count |-> d.count, union |-> d.union, evidence |-> d.evidence]
    BY <1>4, <2>1, <2>2, <2>3
  <2> QED
    BY <2>4, <2>5, <2>6, ListedFollows
<1> QED
  BY <1>1, <1>2, <1>6, <1>7, <1>8 DEF PairsFollow, left

HistoryTyped == history \in Seq(Change)

LEMMA EvolutionTyped ==
  ASSUME HistoryTyped, EvolutionNext
  PROVE  \E change \in Change : history' = Append(history, change)
<1>1. CASE \E diff \in Diffs : \E kept \in SUBSET diff.files : Commit(diff, kept)
  <2>1. PICK diff \in Diffs : history' = Append(history, diff)
    BY <1>1 DEF Commit
  <2>2. diff \in Change
    BY EvolutionAssumption
  <2> QED
    BY <2>1, <2>2
<1>2. CASE \E tree \in SUBSET Paths : Merge(tree)
  <2>1. history' = Append(history, [files |-> {}, churn |-> 0])
    BY <1>2 DEF Merge
  <2>2. [files |-> {}, churn |-> 0] \in Change
    BY DEF Change
  <2> QED
    BY <2>1, <2>2
<1> QED
  BY <1>1, <1>2 DEF EvolutionNext

\* For any paths, changes and limits: with each commit, and the one that it pushes out of what is
\* mined, the listed co-changes come and go and their confidence moves as those two say.
THEOREM CoChangesFollow == EvolutionInit /\ [][EvolutionNext]_evolutionVars => CoChangesFollowCommits
<1>1. EvolutionInit => HistoryTyped
  BY DEF EvolutionInit, HistoryTyped
<1>2. HistoryTyped /\ [EvolutionNext]_evolutionVars => HistoryTyped'
  <2>1. ASSUME HistoryTyped, EvolutionNext PROVE HistoryTyped'
    BY <2>1, EvolutionTyped DEF HistoryTyped
  <2> QED
    BY <2>1 DEF HistoryTyped, evolutionVars
<1>3. HistoryTyped /\ [EvolutionNext]_evolutionVars
        => [PairsFollow(Mined(history), Mined(history'))]_evolutionVars
  <2>1. ASSUME HistoryTyped, EvolutionNext PROVE PairsFollow(Mined(history), Mined(history'))
    <3>1. PICK change \in Change : history' = Append(history, change)
      BY <2>1, EvolutionTyped
    <3>2. history \in Seq(Change)
      BY <2>1 DEF HistoryTyped
    <3>3. \E n, gone : Slides(Mined(history), Mined(history'), n, gone)
      BY <3>1, <3>2, MinedSlides
    <3> QED
      BY <3>3, WindowFollows
  <2> QED
    BY <2>1
<1> QED
  BY <1>1, <1>2, <1>3, PTL DEF CoChangesFollowCommits

-----------------------------------------------------------------------------
(* Rankings                                                                 *)

\* The commits and the churn of the files that a history changed.
LEMMA HotIs ==
  ASSUME NEW h, IsWindow(h)
  PROVE  /\ \A p \in Hot(h) :
              /\ p \in Paths /\ FileCommits(h, p) # {}
              /\ Cardinality(FileCommits(h, p)) \in Nat \ {0} /\ FileChurn(h, p) \in Nat \ {0}
              /\ Cardinality(FileCommits(h, p)) <= MostCommits(h) /\ FileChurn(h, p) <= MostChurn(h)
         /\ Hot(h) # {} => MostCommits(h) \in Nat \ {0} /\ MostChurn(h) \in Nat \ {0}
         /\ \A p, q \in Hot(h) :
              FileCommits(h, q) \subseteq FileCommits(h, p) =>
                /\ FileChurn(h, q) <= FileChurn(h, p)
                /\ Cardinality(FileCommits(h, q)) <= Cardinality(FileCommits(h, p))
                /\ FileCommits(h, q) # FileCommits(h, p) =>
                     Cardinality(FileCommits(h, q)) < Cardinality(FileCommits(h, p))
<1> DEFINE churn == [k \in DOMAIN h |-> PerFileChurn(h[k])]
           counts == [p \in Hot(h) |-> Cardinality(FileCommits(h, p))]
           churns == [p \in Hot(h) |-> FileChurn(h, p)]
<1>1. ASSUME NEW k \in DOMAIN h PROVE churn[k] \in Nat \ {0}
  <2>0. h[k] \in Change
    BY DEF IsWindow
  <2>1. h[k].files \in SUBSET Paths /\ h[k].churn \in Nat
    BY <2>0, EvolutionAssumption DEF Change
  <2>2. Cardinality(h[k].files) \in Nat
    BY <2>1, EvolutionAssumption, FS_Subset, FS_CardinalityType
  <2>3. AtLeastOne(Cardinality(h[k].files)) \in Nat \ {0}
    BY <2>2 DEF AtLeastOne
  <2>4. h[k].churn \div AtLeastOne(Cardinality(h[k].files)) \in Nat
    BY <2>1, <2>3
  <2> QED
    BY <2>4 DEF PerFileChurn, AtLeastOne
<1>2. ASSUME NEW p
      PROVE  /\ FileCommits(h, p) \subseteq DOMAIN h
             /\ IsFiniteSet(FileCommits(h, p)) /\ Cardinality(FileCommits(h, p)) \in Nat
             /\ FileChurn(h, p) = SumFunctionOnSet(churn, FileCommits(h, p))
             /\ \A k \in FileCommits(h, p) : churn[k] \in Nat \ {0}
             /\ FileChurn(h, p) \in Nat
  <2>1. FileCommits(h, p) \subseteq DOMAIN h
    BY DEF FileCommits
  <2>2. IsFiniteSet(FileCommits(h, p) \cup FileCommits(h, p))
    BY CommitsFinite
  <2>3. IsFiniteSet(FileCommits(h, p)) /\ Cardinality(FileCommits(h, p)) \in Nat
    BY <2>2, FS_CardinalityType
  <2>4. FileChurn(h, p) = SumFunctionOnSet(churn, FileCommits(h, p))
    BY DEF FileChurn
  <2> HIDE DEF churn
  <2>5. \A k \in FileCommits(h, p) : churn[k] \in Nat \ {0}
    BY <1>1, <2>1
  <2>6. FileChurn(h, p) \in Nat
    BY <2>3, <2>4, <2>5, SumGrows
  <2> QED
    BY <2>1, <2>3, <2>4, <2>5, <2>6
<1> HIDE DEF churn
<1>3. ASSUME NEW p, NEW q, FileCommits(h, q) \subseteq FileCommits(h, p)
      PROVE  /\ FileChurn(h, q) <= FileChurn(h, p)
             /\ Cardinality(FileCommits(h, q)) <= Cardinality(FileCommits(h, p))
             /\ FileCommits(h, q) # FileCommits(h, p) =>
                  Cardinality(FileCommits(h, q)) < Cardinality(FileCommits(h, p))
  <2>1. SumFunctionOnSet(churn, FileCommits(h, q)) <= SumFunctionOnSet(churn, FileCommits(h, p))
    BY <1>2, <1>3, SumGrows
  <2> QED
    BY <1>2, <1>3, <2>1, FS_Subset
<1>4. ASSUME NEW p \in Hot(h)
      PROVE  /\ p \in Paths /\ FileCommits(h, p) # {}
             /\ Cardinality(FileCommits(h, p)) \in Nat \ {0} /\ FileChurn(h, p) \in Nat \ {0}
  <2>1. PICK k \in DOMAIN h : p \in h[k].files
    BY DEF Hot
  <2>2. p \in Paths
    <3>1. h[k] \in Change
      BY <2>1 DEF IsWindow
    <3> QED
      BY <2>1, <3>1 DEF Change
  <2>3. k \in FileCommits(h, p)
    BY <2>1 DEF FileCommits
  <2>4. Cardinality(FileCommits(h, p)) # 0
    BY <1>2, <2>3, FS_EmptySet
  <2>5. FileChurn(h, p) # 0
    <3>1. FileChurn(h, p) = churn[k] + SumFunctionOnSet(churn, FileCommits(h, p) \ {k})
      BY <1>2, <2>3, SumAdds
    <3>2. SumFunctionOnSet(churn, FileCommits(h, p) \ {k}) \in Nat
      BY <1>2, SumGrows
    <3>3. churn[k] \in Nat \ {0}
      BY <1>2, <2>3
    <3> DEFINE a == churn[k]
               b == SumFunctionOnSet(churn, FileCommits(h, p) \ {k})
    <3> HIDE DEF a, b
    <3>4. FileChurn(h, p) = a + b /\ a \in Nat \ {0} /\ b \in Nat
      BY <3>1, <3>2, <3>3 DEF a, b
    <3> QED
      BY <3>4
  <2> QED
    BY <1>2, <2>2, <2>3, <2>4, <2>5
<1>5. IsFiniteSet(Hot(h))
  <2>1. Hot(h) \in SUBSET Paths
    BY <1>4
  <2> QED
    BY <2>1, EvolutionAssumption, FS_Subset
<1>6. \A p \in Hot(h) : /\ counts[p] = Cardinality(FileCommits(h, p)) /\ counts[p] \in Nat \ {0}
                        /\ churns[p] = FileChurn(h, p) /\ churns[p] \in Nat \ {0}
  BY <1>4
<1>7. MostCommits(h) = Max({counts[p] : p \in Hot(h)}) /\ MostChurn(h) = Max({churns[p] : p \in Hot(h)})
  <2>1. /\ {counts[p] : p \in Hot(h)} = {Cardinality(FileCommits(h, p)) : p \in Hot(h)}
        /\ {churns[p] : p \in Hot(h)} = {FileChurn(h, p) : p \in Hot(h)}
    BY <1>6
  <2> QED
    BY <2>1 DEF MostCommits, MostChurn
<1> HIDE DEF counts, churns
<1>8. ASSUME NEW p \in Hot(h)
      PROVE  /\ counts[p] <= MostCommits(h) /\ MostCommits(h) \in Nat \ {0}
             /\ churns[p] <= MostChurn(h) /\ MostChurn(h) \in Nat \ {0}
  <2>0. Numbers(counts, Hot(h)) /\ Numbers(churns, Hot(h))
    BY <1>5, <1>6 DEF Numbers
  <2>1. (\E x \in Hot(h) : MostCommits(h) = counts[x]) /\ (\A x \in Hot(h) : counts[x] <= MostCommits(h))
    BY <2>0, <1>7, MaxOf
  <2>2. (\E x \in Hot(h) : MostChurn(h) = churns[x]) /\ (\A x \in Hot(h) : churns[x] <= MostChurn(h))
    <3>1. Numbers(churns, Hot(h)) /\ MostChurn(h) = Max({churns[x] : x \in Hot(h)})
      BY <2>0, <1>7
    <3>2. /\ \E x \in Hot(h) : Max({churns[y] : y \in Hot(h)}) = churns[x]
          /\ \A x \in Hot(h) : churns[x] <= Max({churns[y] : y \in Hot(h)})
      BY <3>1, MaxOf
    <3> QED
      BY <3>1, <3>2
  <2> QED
    BY <1>6, <2>1, <2>2
<1> QED
  BY <1>3, <1>4, <1>6, <1>8

LEMMA TimesMonotone ==
  ASSUME NEW a \in Nat, NEW b \in Nat, NEW m \in Nat \ {0}, a <= b
  PROVE  a * m \in Nat /\ b * m \in Nat /\ a * m <= b * m /\ (a < b => a * m < b * m)
<1> DEFINE d == b - a
<1>1. d \in Nat /\ b = a + d /\ (a < b => d >= 1)
  OBVIOUS
<1> HIDE DEF d
<1>2. b * m = a * m + d * m /\ d * m \in Nat /\ a * m \in Nat
  BY <1>1
<1>3. d >= 1 => d * m >= 1
  <2>1. d >= 1 => d * m = (d - 1) * m + m /\ (d - 1) * m \in Nat
    BY <1>1
  <2> QED
    BY <1>1, <2>1
<1> QED
  BY <1>1, <1>2, <1>3

\* Hotspots are ordered by commits, and only the first in both has the full score.
LEMMA HotspotsFollow ==
  ASSUME NEW h, IsWindow(h), NEW p \in Hot(h)
  PROVE  /\ HotspotScore(h, p) <= FullScore(h)
         /\ HotspotScore(h, p) = FullScore(h) => \A q \in Hot(h) : FileChurn(h, q) <= FileChurn(h, p)
         /\ \A q \in Hot(h) : FileCommits(h, q) \subseteq FileCommits(h, p) =>
              /\ HotspotScore(h, p) >= HotspotScore(h, q)
              /\ HotspotScore(h, p) = HotspotScore(h, q) => FileCommits(h, q) = FileCommits(h, p)
<1> DEFINE count(q) == Cardinality(FileCommits(h, q))
           C == MostCommits(h)
           M == MostChurn(h)
           W(q) == FileChurn(h, q)
<1>1. /\ C \in Nat \ {0} /\ M \in Nat \ {0}
      /\ \A q \in Hot(h) : count(q) \in Nat /\ W(q) \in Nat /\ count(q) <= C /\ W(q) <= M
      /\ \A q \in Hot(h) : FileCommits(h, q) \subseteq FileCommits(h, p) =>
           /\ W(q) <= W(p) /\ count(q) <= count(p)
           /\ FileCommits(h, q) # FileCommits(h, p) => count(q) < count(p)
  BY HotIs
<1>2. /\ \A q : HotspotScore(h, q) = 7 * count(q) * M + 3 * W(q) * C
      /\ FullScore(h) = 10 * C * M
  BY DEF HotspotScore, FullScore
<1> HIDE DEF count, C, M, W
<1>3. \A q \in Hot(h) : /\ 7 * count(q) * M = 7 * (count(q) * M) /\ 3 * W(q) * C = 3 * (W(q) * C)
                        /\ 10 * C * M = 7 * (C * M) + 3 * (M * C)
  BY <1>1
<1>4. /\ count(p) * M \in Nat /\ C * M \in Nat /\ count(p) * M <= C * M
      /\ W(p) * C \in Nat /\ M * C \in Nat /\ W(p) * C <= M * C /\ (W(p) < M => W(p) * C < M * C)
  BY <1>1, TimesMonotone
<1>5. HotspotScore(h, p) <= FullScore(h) /\ (HotspotScore(h, p) = FullScore(h) => ~(W(p) < M))
  <2> DEFINE a == count(p) * M
             b == C * M
             c == W(p) * C
             d == M * C
  <2>1. /\ a \in Nat /\ b \in Nat /\ c \in Nat /\ d \in Nat /\ a <= b /\ c <= d /\ (W(p) < M => c < d)
        /\ HotspotScore(h, p) = 7 * a + 3 * c /\ FullScore(h) = 7 * b + 3 * d
    BY <1>2, <1>3, <1>4
  <2> HIDE DEF a, b, c, d
  <2> QED
    BY <2>1
<1>6. HotspotScore(h, p) = FullScore(h) => \A q \in Hot(h) : W(q) <= W(p)
  BY <1>1, <1>5
<1>7. ASSUME NEW q \in Hot(h), FileCommits(h, q) \subseteq FileCommits(h, p)
      PROVE  /\ HotspotScore(h, p) >= HotspotScore(h, q)
             /\ HotspotScore(h, p) = HotspotScore(h, q) => FileCommits(h, q) = FileCommits(h, p)
  <2> DEFINE a == count(p) * M
             b == count(q) * M
             c == W(p) * C
             d == W(q) * C
  <2>1. /\ a \in Nat /\ b \in Nat /\ b <= a /\ (count(q) < count(p) => b < a)
        /\ c \in Nat /\ d \in Nat /\ d <= c
    BY <1>1, <1>7, TimesMonotone
  <2>2. HotspotScore(h, p) = 7 * a + 3 * c /\ HotspotScore(h, q) = 7 * b + 3 * d
    BY <1>2, <1>3
  <2> HIDE DEF a, b, c, d
  <2>3. HotspotScore(h, p) >= HotspotScore(h, q) /\ (count(q) < count(p) => HotspotScore(h, p) # HotspotScore(h, q))
    BY <2>1, <2>2
  <2> QED
    BY <1>1, <1>7, <2>3
<1> QED
  BY <1>5, <1>6, <1>7 DEF W

\* A module cites commits of its files, and at least one if there are any.
LEMMA CitedIs ==
  ASSUME NEW h, IsWindow(h), NEW group \in SUBSET Paths
  PROVE  /\ \A k \in CitedBy(h, group) : k \in DOMAIN h /\ h[k].files \cap group # {}
         /\ (\E p \in group : FileCommits(h, p) # {}) => CitedBy(h, group) # {}
<1> DEFINE commits == UNION {FileCommits(h, p) : p \in group}
           first(k) == Min({PathRank[p] : p \in group \cap h[k].files})
           before(j, k) == first(j) < first(k) \/ (first(j) = first(k) /\ j < k)
<1>1. CitedBy(h, group) = {k \in commits : Cardinality({j \in commits : before(j, k)}) < EvidenceLimit}
  BY DEF CitedBy
<1>2. ASSUME NEW k \in commits
      PROVE  k \in DOMAIN h /\ k \in Nat /\ h[k].files \cap group # {} /\ first(k) \in Nat
  <2>1. k \in DOMAIN h /\ k \in Nat /\ h[k].files \cap group # {}
    BY DEF FileCommits, IsWindow
  <2>2. {PathRank[p] : p \in group \cap h[k].files} \in SUBSET Nat
    BY EvolutionAssumption
  <2>3. {PathRank[p] : p \in group \cap h[k].files} # {}
    BY <2>1
  <2>4. first(k) \in {PathRank[p] : p \in group \cap h[k].files}
    BY <2>2, <2>3, MinIs
  <2> QED
    BY <2>1, <2>2, <2>4
<1>3. (\E p \in group : FileCommits(h, p) # {}) => commits # {}
  OBVIOUS
<1> HIDE DEF commits, first
<1>4. ASSUME commits # {} PROVE \E k \in commits : {j \in commits : before(j, k)} = {}
  <2> DEFINE firsts == {first(k) : k \in commits}
  <2>1. PICK r \in firsts : \A q \in firsts : r <= q
    <3>1. firsts \in SUBSET Nat /\ firsts # {}
      BY <1>2, <1>4
    <3> HIDE DEF firsts
    <3> QED
      BY <3>1, LeastNumber
  <2> DEFINE earliest == {k \in commits : first(k) = r}
  <2>2. PICK k \in earliest : \A j \in earliest : k <= j
    <3>1. earliest \in SUBSET Nat /\ earliest # {}
      BY <1>2
    <3> HIDE DEF earliest
    <3> QED
      BY <3>1, LeastNumber
  <2>3. ASSUME NEW j \in commits PROVE ~before(j, k)
    <3>1. first(j) \in Nat /\ first(k) \in Nat /\ first(k) = r /\ r <= first(j) /\ j \in Nat /\ k \in Nat
      BY <1>2, <2>1
    <3>2. first(j) = first(k) => k <= j
      BY <2>2
    <3> QED
      BY <3>1, <3>2
  <2> QED
    BY <2>3
<1>5. ASSUME commits # {} PROVE CitedBy(h, group) # {}
  <2>1. PICK k \in commits : {j \in commits : before(j, k)} = {}
    BY <1>4, <1>5
  <2>2. Cardinality({j \in commits : before(j, k)}) < EvidenceLimit
    <3>1. Cardinality({}) = 0
      BY FS_EmptySet
    <3>2. EvidenceLimit \in Nat \ {0}
      BY EvolutionAssumption
    <3> QED
      BY <2>1, <3>1, <3>2
  <2> QED
    BY <1>1, <2>2
<1> QED
  BY <1>1, <1>2, <1>3, <1>5

\* The candidates of the modules divide the files.
LEMMA CandidatesFollow ==
  ASSUME NEW h, IsWindow(h), NEW t \in SUBSET Paths, NEW p \in t
  PROVE  \E m \in ModuleCandidates(h, t) :
           /\ p \in m.files
           /\ \A n \in ModuleCandidates(h, t) : p \in n.files => n = m
           /\ \A k \in m.evidence : h[k].files \cap m.changed # {}
           /\ m.evidence = {} <=> m.changed = {}
<1> DEFINE group(key) == {q \in t : ModuleKey[q] = key}
           hot(key) == {q \in t \cap Hot(h) : ModuleKey[q] = key}
           candidate(key) == [key |-> key, files |-> group(key), changed |-> hot(key),
                              evidence |-> CitedBy(h, group(key))]
           m == candidate(ModuleKey[p])
<1>1. ModuleCandidates(h, t) = {candidate(key) : key \in {ModuleKey[q] : q \in t}}
  BY DEF ModuleCandidates
<1>2. m \in ModuleCandidates(h, t) /\ p \in m.files
  BY <1>1
<1>3. ASSUME NEW n \in ModuleCandidates(h, t), p \in n.files PROVE n = m
  <2>1. PICK key : n = candidate(key)
    BY <1>1
  <2>2. p \in group(key)
    BY <1>3, <2>1
  <2>3. key = ModuleKey[p]
    BY <2>2
  <2> QED
    BY <2>1, <2>3
<1>4. m.evidence = CitedBy(h, group(ModuleKey[p])) /\ m.changed = hot(ModuleKey[p])
  OBVIOUS
<1>5. hot(ModuleKey[p]) = group(ModuleKey[p]) \cap Hot(h) /\ group(ModuleKey[p]) \in SUBSET Paths
  OBVIOUS
<1> HIDE DEF m, group, hot
<1>6. ASSUME NEW k \in m.evidence PROVE h[k].files \cap m.changed # {}
  <2>1. k \in DOMAIN h /\ h[k].files \cap group(ModuleKey[p]) # {}
    BY <1>4, <1>5, CitedIs
  <2>2. h[k].files \subseteq Hot(h)
    BY <2>1 DEF Hot
  <2> QED
    BY <1>4, <1>5, <2>1, <2>2
<1>7. ASSUME m.changed # {} PROVE m.evidence # {}
  <2>1. PICK q \in group(ModuleKey[p]) : q \in Hot(h)
    BY <1>4, <1>5, <1>7
  <2>2. FileCommits(h, q) # {}
    BY <2>1, HotIs
  <2> QED
    BY <1>4, <1>5, <2>1, <2>2, CitedIs
<1>8. m.evidence = {} <=> m.changed = {}
  <2>1. m.changed = {} => m.evidence = {}
    BY <1>6
  <2> QED
    BY <1>7, <2>1
<1> QED
  BY <1>2, <1>3, <1>6, <1>8

FilesTyped == HistoryTyped /\ currentFiles \in SUBSET Paths

LEMMA FilesStayTyped ==
  /\ EvolutionInit => FilesTyped
  /\ FilesTyped /\ [EvolutionNext]_evolutionVars => FilesTyped'
<1>1. EvolutionInit => FilesTyped
  BY DEF EvolutionInit, FilesTyped, HistoryTyped
<1>2. ASSUME FilesTyped, EvolutionNext PROVE FilesTyped'
  <2>1. PICK change \in Change : history' = Append(history, change)
    BY <1>2, EvolutionTyped DEF FilesTyped
  <2>2. history' \in Seq(Change)
    BY <1>2, <2>1 DEF FilesTyped, HistoryTyped
  <2>3. currentFiles' \in SUBSET Paths
    <3>1. CASE \E diff \in Diffs : \E kept \in SUBSET diff.files : Commit(diff, kept)
      <4>1. PICK diff \in Diffs : \E kept \in SUBSET diff.files : Commit(diff, kept)
        BY <3>1
      <4>2. diff.files \in SUBSET Paths
        BY EvolutionAssumption DEF Change
      <4> QED
        BY <1>2, <4>1, <4>2 DEF FilesTyped, Commit
    <3>2. CASE \E tree \in SUBSET Paths : Merge(tree)
      BY <3>2 DEF Merge
    <3> QED
      BY <1>2, <3>1, <3>2 DEF EvolutionNext
  <2> QED
    BY <2>2, <2>3 DEF FilesTyped, HistoryTyped
<1>3. ASSUME FilesTyped, UNCHANGED evolutionVars PROVE FilesTyped'
  BY <1>3 DEF FilesTyped, HistoryTyped, evolutionVars
<1> QED
  BY <1>1, <1>2, <1>3

\* For any paths, changes and limits: hotspots are ordered by what the commits did to the files,
\* and the candidates of modules divide the current files and cite commits of theirs.
THEOREM RankingsFollow == EvolutionInit /\ [][EvolutionNext]_evolutionVars => []RankingsFollowHistory
<1>1. FilesTyped => RankingsFollowHistory
  <2> SUFFICES ASSUME FilesTyped PROVE RankingsFollowHistory
    OBVIOUS
  <2> DEFINE h == Mined(history)
  <2>1. IsWindow(h) /\ currentFiles \in SUBSET Paths
    BY MinedIs DEF FilesTyped, HistoryTyped
  <2> HIDE DEF h
  <2>2. ASSUME NEW p \in Hot(h)
        PROVE  /\ HotspotScore(h, p) <= FullScore(h)
               /\ HotspotScore(h, p) = FullScore(h) =>
                    \A q \in Hot(h) : FileChurn(h, q) <= FileChurn(h, p)
               /\ \A q \in Hot(h) : FileCommits(h, q) \subseteq FileCommits(h, p) =>
                    /\ HotspotScore(h, p) >= HotspotScore(h, q)
                    /\ HotspotScore(h, p) = HotspotScore(h, q) =>
                         FileCommits(h, q) = FileCommits(h, p)
    BY <2>1, HotspotsFollow
  <2>3. ASSUME NEW p \in currentFiles
        PROVE  \E m \in ModuleCandidates(h, currentFiles) :
                 /\ p \in m.files
                 /\ \A n \in ModuleCandidates(h, currentFiles) : p \in n.files => n = m
                 /\ \A k \in m.evidence : h[k].files \cap m.changed # {}
                 /\ m.evidence = {} <=> m.changed = {}
    BY <2>1, CandidatesFollow
  <2> QED
    BY <2>2, <2>3 DEF RankingsFollowHistory, h
<1> QED
  BY <1>1, FilesStayTyped, PTL

-----------------------------------------------------------------------------
(* Impact                                                                   *)

\* Unit is a product of positive numbers.
LEMMA UnitPositive == Unit \in Nat \ {0}
<1> DEFINE S == 1..HistoryLimit
           R == Nat \ {0}
           Pick(s) == CHOOSE x \in s : TRUE
           Step(it, s) == IF s = {} THEN 1 ELSE Pick(s) * it[s \ {Pick(s)}]
           op == [x \in S |-> [r \in R |-> x * r]]
           pick == [s \in SUBSET S |-> Pick(s)]
           Solution == CHOOSE it : it = [s \in SUBSET S |-> Step(it, s)]
<1>1. Unit = Solution[S]
  BY DEF Unit, FoldSet, MapThenFoldSet
<1>2. \A s \in SUBSET S : pick[s] = Pick(s) /\ (s # {} => Pick(s) \in s)
  OBVIOUS
<1>3. ASSUME NEW x \in S, NEW r \in R PROVE x * r \in R
  <2>1. x \in R
    BY EvolutionAssumption
  <2>2. x = (x - 1) + 1 /\ x - 1 \in Nat
    BY <2>1
  <2>3. x * r = (x - 1) * r + r /\ (x - 1) * r \in Nat
    BY <2>1, <2>2
  <2> QED
    BY <2>3
<1>4. \A x \in S, r \in R : op[x][r] = x * r /\ op[x][r] \in R
  BY <1>3
<1> HIDE DEF op, pick, Pick
<1>5. PICK it : Solves(S, R, 1, op, pick, it)
  <2>1. IsFiniteSet(S) /\ 1 \in R
    BY FS_Interval, EvolutionAssumption
  <2>2. Foldable(S, R, 1, op, pick)
    BY <1>2, <1>4, <2>1 DEF Foldable
  <2> HIDE DEF S, R
  <2> QED
    BY <2>2, FoldDefines
<1> HIDE DEF S, R
<1>6. it = [s \in SUBSET S |-> Step(it, s)]
  <2>1. ASSUME NEW s \in SUBSET S PROVE it[s] = Step(it, s)
    <3>1. it[s] = Taking(1, op, pick, it, s)
      BY <1>5 DEF Solves
    <3>2. CASE s = {}
      BY <3>1, <3>2 DEF Taking
    <3>3. CASE s # {}
      <4>1. it[s \ {Pick(s)}] \in R
        BY <1>5 DEF Solves
      <4> QED
        BY <1>2, <1>4, <3>1, <3>3, <4>1 DEF Taking
    <3> QED
      BY <3>2, <3>3
  <2> HIDE DEF Step
  <2> QED
    BY <1>5, <2>1 DEF Solves
<1>7. Solution = [s \in SUBSET S |-> Step(Solution, s)]
  BY <1>6
<1> HIDE DEF Solution
<1>8. Solution[S] = it[S]
  <2>1. ASSUME NEW s \in SUBSET S, s = {} \/ Solution[s \ {pick[s]}] \in R
        PROVE  Solution[s] = Taking(1, op, pick, Solution, s)
    <3>1. Solution[s] = Step(Solution, s)
      BY <1>7
    <3>2. CASE s = {}
      BY <3>1, <3>2 DEF Taking
    <3>3. CASE s # {}
      BY <1>2, <1>4, <2>1, <3>1, <3>3 DEF Taking
    <3> QED
      BY <3>2, <3>3
  <2> QED
    BY <1>5, <2>1 DEF Solves
<1>9. Solution[S] \in R
  BY <1>5, <1>8 DEF Solves
<1> QED
  BY <1>1, <1>9 DEF R

\* Of a set of commits that is not empty some are the oldest.
LEMMA SomeAreOldest ==
  ASSUME NEW S \in SUBSET Nat, S # {}
  PROVE  Oldest(S) # {} /\ Oldest(S) \subseteq S
<1>1. PICK k \in S : \A j \in S : k <= j
  BY LeastNumber
<1>2. {j \in S : j < k} = {}
  <2>1. ASSUME NEW j \in S PROVE ~(j < k)
    BY <1>1
  <2> QED
    BY <2>1
<1>3. Cardinality({j \in S : j < k}) < EvidenceLimit
  <2>1. EvidenceLimit \in Nat \ {0}
    BY EvolutionAssumption
  <2> QED
    BY <1>2, <2>1, FS_EmptySet
<1> QED
  BY <1>3 DEF Oldest

\* The relations are between paths, finitely many, and each has evidence for both ends.
LEMMA RelationsAre ==
  ASSUME NEW h, IsWindow(h), NEW t
  PROVE  /\ IsFiniteSet(Relations(h, t))
         /\ \A r \in Relations(h, t) :
              /\ r.source \in Paths /\ r.target \in Paths /\ r.weight \in Nat
              /\ r.commits # {} \/ r.edges # {}
              /\ \A k \in r.commits : {r.source, r.target} \subseteq h[k].files
<1> DEFINE Joined(c) == [source |-> c.left, target |-> c.right, weight |-> (Unit * c.count) \div c.union,
                         commits |-> c.evidence, edges |-> {}]
           ImportRelation(e) == [source |-> e[1], target |-> e[2], weight |-> Unit, commits |-> {}, edges |-> {e}]
           edges == {e \in Imports : {e[1], e[2]} \subseteq t}
<1>1. Relations(h, t) = {Joined(c) : c \in CoChanges(h)} \cup {ImportRelation(e) : e \in edges}
  BY DEF Relations
<1>2. ASSUME NEW c \in CoChanges(h)
      PROVE  /\ c.left \in Paths /\ c.right \in Paths /\ c.evidence # {} /\ (Unit * c.count) \div c.union \in Nat
             /\ \A k \in c.evidence : {c.left, c.right} \subseteq h[k].files
  <2>1. PICK l \in Paths, r \in Paths : Listed(h, l, r) /\ c = CoChange(h, l, r)
    BY CoChangesAre
  <2>2. /\ c.left = l /\ c.right = r /\ c.count = Cardinality(Joint(h, l, r))
        /\ c.union = Cardinality(FileCommits(h, l) \cup FileCommits(h, r))
        /\ c.evidence = Oldest(Joint(h, l, r))
    BY <2>1 DEF CoChange, CommitsOfEither
  <2>3. /\ IsFiniteSet(Joint(h, l, r)) /\ IsFiniteSet(FileCommits(h, l) \cup FileCommits(h, r))
        /\ Joint(h, l, r) \subseteq DOMAIN h /\ DOMAIN h \in SUBSET Nat
        /\ Joint(h, l, r) \subseteq FileCommits(h, l) \cup FileCommits(h, r)
    <3>1. Joint(h, l, r) \subseteq FileCommits(h, l) \cup FileCommits(h, r)
      BY DEF Joint
    <3> QED
      BY <3>1, CommitsFinite
  <2>4. c.count \in Nat /\ c.union \in Nat /\ 2 <= c.count /\ c.count <= c.union
    BY <2>1, <2>2, <2>3, FS_CardinalityType, FS_Subset DEF Listed
  <2>5. (Unit * c.count) \div c.union \in Nat
    <3> DEFINE u == Unit
               m == c.count
               n == c.union
    <3>1. u \in Nat /\ m \in Nat /\ n \in Nat /\ n > 0
      BY <2>4, UnitPositive
    <3> HIDE DEF u, m, n
    <3>2. u * m \in Nat
      BY <3>1
    <3>3. (u * m) \div n \in Nat
      <4> DEFINE v == u * m
      <4> HIDE DEF v
      <4>1. v \in Nat
        BY <3>2 DEF v
      <4>2. v \div n \in Nat
        BY <3>1, <4>1
      <4> QED
        BY <4>2 DEF v
    <3> QED
      BY <3>3 DEF u, m, n
  <2>6. Joint(h, l, r) # {}
    <3>1. Cardinality(Joint(h, l, r)) >= 2
      BY <2>1 DEF Listed
    <3>2. Cardinality(Joint(h, l, r)) = 0 <=> Joint(h, l, r) = {}
      BY <2>3, FS_EmptySet
    <3> QED
      BY <3>1, <3>2
  <2>7. c.evidence # {} /\ c.evidence \subseteq Joint(h, l, r)
    <3> DEFINE joint == Joint(h, l, r)
    <3>1. joint # {} /\ joint \in SUBSET Nat
      BY <2>3, <2>6
    <3> HIDE DEF joint
    <3>2. Oldest(joint) # {} /\ Oldest(joint) \subseteq joint
      BY <3>1, SomeAreOldest
    <3> QED
      BY <2>2, <3>2 DEF joint
  <2>8. \A k \in Joint(h, l, r) : {l, r} \subseteq h[k].files
    BY DEF Joint, FileCommits
  <2> QED
    BY <2>2, <2>5, <2>7, <2>8
<1>3. ASSUME NEW e \in edges PROVE e[1] \in Paths /\ e[2] \in Paths
  BY EvolutionAssumption
<1>4. ASSUME NEW r \in Relations(h, t)
      PROVE  /\ r.source \in Paths /\ r.target \in Paths /\ r.weight \in Nat
             /\ r.commits # {} \/ r.edges # {}
             /\ \A k \in r.commits : {r.source, r.target} \subseteq h[k].files
  <2>1. CASE \E c \in CoChanges(h) : r = Joined(c)
    <3>1. PICK c \in CoChanges(h) : r = Joined(c)
      BY <2>1
    <3>2. /\ r.source = c.left /\ r.target = c.right /\ r.weight = (Unit * c.count) \div c.union
          /\ r.commits = c.evidence
      BY <3>1
    <3> QED
      BY <1>2, <3>2
  <2>2. CASE \E e \in edges : r = ImportRelation(e)
    <3>1. PICK e \in edges : r = ImportRelation(e)
      BY <2>2
    <3>2. r.source = e[1] /\ r.target = e[2] /\ r.weight = Unit /\ r.commits = {} /\ r.edges = {e}
      BY <3>1
    <3> QED
      BY <1>3, <3>2, UnitPositive
  <2> QED
    BY <1>1, <2>1, <2>2
<1>5. IsFiniteSet(CoChanges(h))
  <2> DEFINE pairs == {p \in Paths \X Paths : Listed(h, p[1], p[2])}
             f == [p \in pairs |-> CoChange(h, p[1], p[2])]
  <2>1. IsFiniteSet(pairs)
    <3>1. IsFiniteSet(Paths \X Paths)
      BY EvolutionAssumption, FS_Product
    <3> QED
      BY <3>1, FS_Subset
  <2>2. CoChanges(h) = {f[p] : p \in pairs}
    BY DEF CoChanges, CoChange, Listed
  <2> HIDE DEF f, pairs
  <2>3. IsFiniteSet({f[x] : x \in pairs})
    BY <2>1, ImageFinite
  <2> QED
    BY <2>2, <2>3
<1>6. IsFiniteSet({Joined(c) : c \in CoChanges(h)})
  <2> DEFINE f == [c \in CoChanges(h) |-> Joined(c)]
  <2>1. {Joined(c) : c \in CoChanges(h)} = {f[c] : c \in CoChanges(h)}
    OBVIOUS
  <2> HIDE DEF f
  <2>2. IsFiniteSet({f[x] : x \in CoChanges(h)})
    BY <1>5, ImageFinite
  <2> QED
    BY <2>1, <2>2
<1>7. IsFiniteSet({ImportRelation(e) : e \in edges})
  <2> DEFINE f == [e \in edges |-> ImportRelation(e)]
  <2>1. IsFiniteSet(edges)
    <3>1. IsFiniteSet(Paths \X Paths) /\ edges \subseteq Paths \X Paths
      BY EvolutionAssumption, FS_Product
    <3> HIDE DEF edges
    <3> QED
      BY <3>1, FS_Subset
  <2>2. {ImportRelation(e) : e \in edges} = {f[e] : e \in edges}
    OBVIOUS
  <2> HIDE DEF f, edges
  <2>3. IsFiniteSet({f[x] : x \in edges})
    BY <2>1, ImageFinite
  <2> QED
    BY <2>2, <2>3
<1>8. IsFiniteSet(Relations(h, t))
  <2> HIDE DEF Joined, ImportRelation, edges
  <2> QED
    BY <1>1, <1>6, <1>7, FS_Union
<1> QED
  BY <1>4, <1>8

\* What the relations of a file contribute, all of it and that to one other file.
Contributions(h, t, p) == {c \in Relations(h, t) \X (Paths \X {9, 10}) : c[2] \in OtherEnd(p, c[1])}

To(h, t, p, q) == {c \in Contributions(h, t, p) : c[2][1] = q}

Share(h, t, p) == [c \in Contributions(h, t, p) |-> c[1].weight * c[2][2]]

ImpactOn(h, t, p, q) ==
  [path    |-> q,
   score   |-> Min({10 * Unit, SumFunctionOnSet(Share(h, t, p), To(h, t, p, q))}),
   commits |-> UNION {c[1].commits : c \in To(h, t, p, q)},
   edges   |-> UNION {c[1].edges : c \in To(h, t, p, q)}]

LEMMA ImpactedAre ==
  ASSUME NEW h, NEW t, NEW p
  PROVE  \A i : i \in Impacted(h, t, p) <=> \E q \in Paths : To(h, t, p, q) # {} /\ i = ImpactOn(h, t, p, q)
<1>1. Impacted(h, t, p) = {ImpactOn(h, t, p, q) : q \in {c[2][1] : c \in Contributions(h, t, p)}}
  BY DEF Impacted, ImpactOn, To, Share, Contributions
<1>2. \A c \in Contributions(h, t, p) : c[2][1] \in Paths
  BY DEF Contributions
<1>3. \A q : q \in {c[2][1] : c \in Contributions(h, t, p)} <=> q \in Paths /\ To(h, t, p, q) # {}
  BY <1>2 DEF To
<1> QED
  BY <1>1, <1>3

\* A contribution is a relation, its other end and the part of its weight that counts.
LEMMA ContributionsAre ==
  ASSUME NEW h, IsWindow(h), NEW t, NEW p
  PROVE  /\ IsFiniteSet(Contributions(h, t, p))
         /\ \A c \in Contributions(h, t, p) :
              /\ c[1] \in Relations(h, t) /\ c[2][1] \in Paths /\ c[2][2] \in {9, 10}
              /\ c = <<c[1], <<c[2][1], c[2][2]>>>>
              /\ Share(h, t, p)[c] = c[1].weight * c[2][2] /\ Share(h, t, p)[c] \in Nat
              /\ \/ c[1].source = p /\ c[1].target = c[2][1] /\ c[2][2] = 10
                 \/ c[1].source # p /\ c[1].target = p /\ c[1].source = c[2][1] /\ c[2][2] = 9
<1>1. IsFiniteSet(Contributions(h, t, p))
  <2>1. IsFiniteSet(Paths \X {9, 10})
    <3>1. IsFiniteSet({9, 10})
      <4>1. IsFiniteSet(9..10)
        BY FS_Interval, 9 \in Int, 10 \in Int
      <4>2. 9..10 = {9, 10}
        OBVIOUS
      <4> QED
        BY <4>1, <4>2
    <3> QED
      BY <3>1, EvolutionAssumption, FS_Product
  <2>2. IsFiniteSet(Relations(h, t) \X (Paths \X {9, 10}))
    BY <2>1, RelationsAre, FS_Product
  <2> QED
    BY <2>2, FS_Subset DEF Contributions
<1>2. ASSUME NEW c \in Contributions(h, t, p)
      PROVE  /\ c[1] \in Relations(h, t) /\ c[2][1] \in Paths /\ c[2][2] \in {9, 10}
             /\ c = <<c[1], <<c[2][1], c[2][2]>>>>
             /\ Share(h, t, p)[c] = c[1].weight * c[2][2] /\ Share(h, t, p)[c] \in Nat
             /\ \/ c[1].source = p /\ c[1].target = c[2][1] /\ c[2][2] = 10
                \/ c[1].source # p /\ c[1].target = p /\ c[1].source = c[2][1] /\ c[2][2] = 9
  <2>1. c \in Relations(h, t) \X (Paths \X {9, 10}) /\ c[2] \in OtherEnd(p, c[1])
    BY DEF Contributions
  <2>2. /\ c[1] \in Relations(h, t) /\ c[2] \in Paths \X {9, 10} /\ c[2][1] \in Paths /\ c[2][2] \in {9, 10}
        /\ c[2] = <<c[2][1], c[2][2]>> /\ c = <<c[1], c[2]>>
    BY <2>1
  <2>3. Share(h, t, p)[c] = c[1].weight * c[2][2]
    BY DEF Share
  <2>4. c[1].weight \in Nat
    BY <2>2, RelationsAre
  <2>5. Share(h, t, p)[c] \in Nat
    BY <2>2, <2>3, <2>4
  <2>6. \/ c[1].source = p /\ c[1].target = c[2][1] /\ c[2][2] = 10
        \/ c[1].source # p /\ c[1].target = p /\ c[1].source = c[2][1] /\ c[2][2] = 9
    BY <2>1, <2>2 DEF OtherEnd
  <2> QED
    BY <2>2, <2>3, <2>5, <2>6
<1> QED
  BY <1>1, <1>2

\* The contribution of the same relation in the other direction.
Back(p, c) == <<c[1], <<p, 19 - c[2][2]>>>>

LEMMA BackIs ==
  ASSUME NEW h, IsWindow(h), NEW t, NEW p \in Paths, NEW q \in Paths, p # q, NEW c \in To(h, t, p, q)
  PROVE  /\ Back(p, c) \in To(h, t, q, p) /\ Back(p, c)[1] = c[1]
         /\ 9 * Share(h, t, p)[c] <= 10 * Share(h, t, q)[Back(p, c)]
<1> DEFINE d == Back(p, c)
<1>1. c \in Contributions(h, t, p) /\ c[2][1] = q
  BY DEF To
<1>2. /\ c[1] \in Relations(h, t) /\ c[2][2] \in {9, 10}
      /\ Share(h, t, p)[c] = c[1].weight * c[2][2]
      /\ \/ c[1].source = p /\ c[1].target = q /\ c[2][2] = 10
         \/ c[1].source = q /\ c[1].target = p /\ c[2][2] = 9
  BY <1>1, ContributionsAre
<1>3. d[1] = c[1] /\ d[2] = <<p, 19 - c[2][2]>> /\ d[2][1] = p /\ d[2][2] = 19 - c[2][2]
  BY DEF Back
<1>4. d \in Relations(h, t) \X (Paths \X {9, 10})
  <2>1. 19 - c[2][2] \in {9, 10}
    BY <1>2
  <2> QED
    BY <1>2, <2>1 DEF Back
<1> HIDE DEF d
<1>5. d[2] \in OtherEnd(q, d[1])
  <2>1. CASE c[1].source = p /\ c[1].target = q /\ c[2][2] = 10
    BY <1>3, <2>1 DEF OtherEnd
  <2>2. CASE c[1].source = q /\ c[1].target = p /\ c[2][2] = 9
    BY <1>3, <2>2 DEF OtherEnd
  <2> QED
    BY <1>2, <2>1, <2>2
<1>6. d \in Contributions(h, t, q)
  BY <1>4, <1>5 DEF Contributions
<1>7. d \in To(h, t, q, p)
  BY <1>3, <1>6 DEF To
<1>8. 9 * Share(h, t, p)[c] <= 10 * Share(h, t, q)[d]
  <2>1. Share(h, t, q)[d] = c[1].weight * (19 - c[2][2])
    BY <1>3, <1>6 DEF Share
  <2>2. c[1].weight \in Nat
    BY <1>2, RelationsAre
  <2> DEFINE w == c[1].weight
  <2>3. /\ w \in Nat
        /\ \/ Share(h, t, p)[c] = w * 10 /\ Share(h, t, q)[d] = w * 9
           \/ Share(h, t, p)[c] = w * 9 /\ Share(h, t, q)[d] = w * 10
    BY <1>2, <2>1, <2>2
  <2> HIDE DEF w
  <2> QED
    BY <2>3
<1> QED
  BY <1>3, <1>7, <1>8 DEF d

LEMMA EvidenceBack ==
  ASSUME NEW h, IsWindow(h), NEW t, NEW p \in Paths, NEW q \in Paths, p # q
  PROVE  /\ ImpactOn(h, t, p, q).commits \subseteq ImpactOn(h, t, q, p).commits
         /\ ImpactOn(h, t, p, q).edges \subseteq ImpactOn(h, t, q, p).edges
         /\ To(h, t, p, q) # {} => To(h, t, q, p) # {}
<1>1. \A c \in To(h, t, p, q) : \E d \in To(h, t, q, p) : d[1] = c[1]
  BY BackIs
<1> QED
  BY <1>1 DEF ImpactOn

LEMMA LeastOfTwo ==
  ASSUME NEW a \in Nat, NEW b \in Nat
  PROVE  Min({a, b}) = IF a <= b THEN a ELSE b
<1>1. {a, b} \in SUBSET Nat /\ {a, b} # {}
  OBVIOUS
<1>2. Min({a, b}) \in {a, b} /\ \A n \in {a, b} : Min({a, b}) <= n
  BY <1>1, MinIs
<1> QED
  BY <1>2

LEMMA ScoreBack ==
  ASSUME NEW h, IsWindow(h), NEW t, NEW p \in Paths, NEW q \in Paths
  PROVE  /\ ImpactOn(h, t, p, q).score \in Nat
         /\ p # q => 10 * ImpactOn(h, t, q, p).score >= 9 * ImpactOn(h, t, p, q).score
<1> DEFINE S == To(h, t, p, q)
           T == To(h, t, q, p)
           f == Share(h, t, p)
           g == Share(h, t, q)
           b == [c \in S |-> Back(p, c)]
           F == SumFunctionOnSet(f, S)
           G == SumFunctionOnSet(g, T)
           U == 10 * Unit
<1>1. /\ IsFiniteSet(S) /\ IsFiniteSet(T)
      /\ S \subseteq Contributions(h, t, p) /\ T \subseteq Contributions(h, t, q)
  BY ContributionsAre, FS_Subset DEF To
<1>2. (\A c \in S : f[c] \in Nat) /\ (\A c \in T : g[c] \in Nat)
  BY <1>1, ContributionsAre
<1>3. F \in Nat /\ G \in Nat
  <2> HIDE DEF f, g, S, T
  <2> QED
    BY <1>1, <1>2, SumGrows
<1>4. U \in Nat
  BY UnitPositive
<1>5. ASSUME p # q PROVE 9 * F <= 10 * G
  <2>1. ASSUME NEW c \in S PROVE b[c] \in T /\ 9 * f[c] <= 10 * g[b[c]]
    BY <1>5, BackIs
  <2>2. ASSUME NEW c \in S, NEW d \in S, b[c] = b[d] PROVE c = d
    <3>1. /\ c = <<c[1], <<c[2][1], c[2][2]>>>> /\ d = <<d[1], <<d[2][1], d[2][2]>>>>
          /\ c[2][2] \in {9, 10} /\ d[2][2] \in {9, 10}
      BY <1>1, ContributionsAre
    <3>2. c[2][1] = q /\ d[2][1] = q
      BY DEF To
    <3>3. Back(p, c) = Back(p, d)
      BY <2>2
    <3>4. Back(p, c)[1] = c[1] /\ Back(p, d)[1] = d[1]
      BY DEF Back
    <3>5. Back(p, c)[2][2] = 19 - c[2][2] /\ Back(p, d)[2][2] = 19 - d[2][2]
      BY DEF Back
    <3>6. c[1] = d[1] /\ c[2][2] = d[2][2]
      BY <3>1, <3>3, <3>4, <3>5
    <3> QED
      BY <3>1, <3>2, <3>6
  <2>3. Paired(f, S, g, T, b)
    <3> HIDE DEF S, T, f, g, b
    <3> QED
      BY <1>1, <1>2, <2>1, <2>2 DEF Paired
  <2> HIDE DEF S, T, f, g, b
  <2> QED
    BY <2>3, SumsOfPairs
<1>6. /\ ImpactOn(h, t, p, q).score = Min({U, F})
      /\ ImpactOn(h, t, q, p).score = Min({U, G})
  BY DEF ImpactOn
<1> HIDE DEF F, G, U
<1>7. /\ Min({U, F}) = IF U <= F THEN U ELSE F
      /\ Min({U, G}) = IF U <= G THEN U ELSE G
  BY <1>3, <1>4, LeastOfTwo
<1> QED
  BY <1>3, <1>4, <1>5, <1>6, <1>7

\* What is impacted is impacted back.
LEMMA ImpactIsMutual ==
  ASSUME NEW h, IsWindow(h), NEW t, NEW p \in Paths, NEW i \in Impacted(h, t, p)
  PROVE  /\ i.path \in Paths /\ i.score \in Nat
         /\ i.commits # {} \/ i.edges # {}
         /\ \A k \in i.commits : {p, i.path} \subseteq h[k].files
         /\ \E j \in Impacted(h, t, i.path) :
              /\ j.path = p /\ j.commits = i.commits /\ j.edges = i.edges
              /\ 10 * j.score >= 9 * i.score
<1>1. PICK q \in Paths : To(h, t, p, q) # {} /\ i = ImpactOn(h, t, p, q)
  BY ImpactedAre
<1>2. /\ i.path = q /\ i.commits = UNION {c[1].commits : c \in To(h, t, p, q)}
      /\ i.edges = UNION {c[1].edges : c \in To(h, t, p, q)}
  BY <1>1 DEF ImpactOn
<1>3. i.score \in Nat
  BY <1>1, ScoreBack
<1>4. ASSUME NEW c \in To(h, t, p, q)
      PROVE  /\ c[1].commits # {} \/ c[1].edges # {}
             /\ \A k \in c[1].commits : {p, q} \subseteq h[k].files
  <2>1. c \in Contributions(h, t, p) /\ c[2][1] = q
    BY DEF To
  <2>2. c[1] \in Relations(h, t) /\ {p, q} = {c[1].source, c[1].target}
    BY <2>1, ContributionsAre
  <2>3. /\ c[1].commits # {} \/ c[1].edges # {}
        /\ \A k \in c[1].commits : {c[1].source, c[1].target} \subseteq h[k].files
    BY <2>2, RelationsAre
  <2> QED
    BY <2>2, <2>3
<1>5. i.commits # {} \/ i.edges # {}
  <2>1. PICK c \in To(h, t, p, q) : TRUE
    BY <1>1
  <2> QED
    BY <1>2, <1>4, <2>1
<1>6. \A k \in i.commits : {p, q} \subseteq h[k].files
  BY <1>2, <1>4
<1>7. CASE p = q
  <2>1. i \in Impacted(h, t, q) /\ i.path = p /\ 10 * i.score >= 9 * i.score
    BY <1>2, <1>3, <1>7
  <2> QED
    BY <1>2, <1>3, <1>5, <1>6, <2>1
<1>8. CASE p # q
  <2> DEFINE j == ImpactOn(h, t, q, p)
  <2>1. j.path = p
    BY DEF ImpactOn
  <2>2. j.commits = i.commits /\ j.edges = i.edges /\ To(h, t, q, p) # {}
    <3>1. /\ i.commits \subseteq j.commits /\ i.edges \subseteq j.edges /\ To(h, t, q, p) # {}
      BY <1>1, <1>8, EvidenceBack
    <3>2. /\ j.commits \subseteq i.commits /\ j.edges \subseteq i.edges
      BY <1>1, <1>8, EvidenceBack
    <3> QED
      BY <3>1, <3>2
  <2>3. 10 * j.score >= 9 * i.score
    BY <1>1, <1>8, ScoreBack
  <2>4. j \in Impacted(h, t, q)
    BY <2>2, ImpactedAre
  <2> HIDE DEF j
  <2> QED
    BY <1>2, <1>3, <1>5, <1>6, <2>1, <2>2, <2>3, <2>4
<1> QED
  BY <1>7, <1>8

\* The limit keeps the strongest.
LEMMA StrongestStay ==
  ASSUME NEW h, IsWindow(h), NEW t, NEW p \in Paths, NEW i \in Impacted(h, t, p) \ Impact(h, t, p)
  PROVE  Cardinality(Impact(h, t, p)) = ImpactLimit /\ \A j \in Impact(h, t, p) : j.score >= i.score
<1> DEFINE all == Impacted(h, t, p)
           ahead(j, k) == j.score > k.score \/ (j.score = k.score /\ PathRank[j.path] < PathRank[k.path])
           before == {jk \in all \X all : ahead(jk[1], jk[2])}
           f == [q \in Paths |-> ImpactOn(h, t, p, q)]
<1>1. \A k \in all : k.path \in Paths /\ k.score \in Nat /\ PathRank[k.path] \in Nat
  BY ImpactIsMutual, EvolutionAssumption
<1>2. \A j, k \in all : j.path = k.path => j = k
  <2>1. \A j \in all : j = ImpactOn(h, t, p, j.path)
    <3>1. ASSUME NEW j \in all PROVE j = ImpactOn(h, t, p, j.path)
      <4>1. PICK q \in Paths : j = ImpactOn(h, t, p, q)
        BY ImpactedAre
      <4>2. j.path = q
        BY <4>1 DEF ImpactOn
      <4> QED
        BY <4>1, <4>2
    <3> QED
      BY <3>1
  <2> QED
    BY <2>1
<1>3. IsFiniteSet(all)
  <2>1. all \subseteq {f[q] : q \in Paths}
    BY ImpactedAre
  <2> HIDE DEF f
  <2>2. IsFiniteSet({f[x] : x \in Paths})
    BY EvolutionAssumption, ImageFinite
  <2> QED
    BY <2>1, <2>2, FS_Subset
<1>4. Impact(h, t, p) = {k \in all : Cardinality({j \in all : ahead(j, k)}) < ImpactLimit}
  BY DEF Impact
<1> HIDE DEF all, f
<1>5. ASSUME NEW j \in all, NEW k \in all PROVE <<j, k>> \in before <=> ahead(j, k)
  OBVIOUS
<1>6. \A k \in all : {j \in all : <<j, k>> \in before} = {j \in all : ahead(j, k)}
  BY <1>5
<1>7. Impact(h, t, p) = Top(before, all, ImpactLimit)
  <2> HIDE DEF ahead, before
  <2> QED
    BY <1>4, <1>6 DEF Top
<1>8. Ordered(before, all)
  <2>1. ASSUME NEW j \in all, NEW k \in all, j # k PROVE ahead(j, k) \/ ahead(k, j)
    <3>1. PathRank[j.path] # PathRank[k.path]
      BY <1>1, <1>2, <2>1, EvolutionAssumption
    <3> QED
      BY <1>1, <3>1
  <2>2. ASSUME NEW j \in all PROVE ~ahead(j, j)
    BY <1>1
  <2>3. ASSUME NEW j \in all, NEW k \in all, NEW l \in all, ahead(j, k), ahead(k, l) PROVE ahead(j, l)
    BY <1>1, <2>3
  <2> HIDE DEF ahead, before
  <2> QED
    BY <1>5, <2>1, <2>2, <2>3 DEF Ordered
<1>9. /\ Cardinality(Top(before, all, ImpactLimit)) = ImpactLimit
      /\ \A j \in Top(before, all, ImpactLimit) : <<j, i>> \in before
  <2>1. ImpactLimit \in Nat \ {0} /\ i \in all \ Top(before, all, ImpactLimit)
    BY <1>7, EvolutionAssumption DEF all
  <2> HIDE DEF before
  <2> QED
    BY <1>3, <1>8, <2>1, TopIs
<1>10. ASSUME NEW j \in Impact(h, t, p) PROVE j.score >= i.score
  <2>1. j \in all /\ i \in all
    BY <1>4 DEF all
  <2>2. ahead(j, i)
    <3>1. <<j, i>> \in before
      BY <1>7, <1>9
    <3> HIDE DEF before, ahead
    <3> QED
      BY <1>5, <2>1, <3>1
  <2> QED
    BY <1>1, <2>1, <2>2
<1> QED
  BY <1>7, <1>9, <1>10

\* For any paths, imports, changes and limits: impact is mutual, on the same evidence, and the
\* limit keeps the strongest.
THEOREM ImpactFollows == EvolutionInit /\ [][EvolutionNext]_evolutionVars => []ImpactFollowsRelations
<1>1. FilesTyped => ImpactFollowsRelations
  <2> SUFFICES ASSUME FilesTyped PROVE ImpactFollowsRelations
    OBVIOUS
  <2> DEFINE h == Mined(history)
  <2>1. IsWindow(h)
    BY MinedIs DEF FilesTyped, HistoryTyped
  <2> HIDE DEF h
  <2>2. ASSUME NEW p \in Paths
        PROVE  LET all == Impacted(h, currentFiles, p)
                   top == Impact(h, currentFiles, p)
               IN  /\ \A i \in all :
                        /\ i.commits # {} \/ i.edges # {}
                        /\ \A k \in i.commits : {p, i.path} \subseteq h[k].files
                        /\ \E j \in Impacted(h, currentFiles, i.path) :
                             /\ j.path = p /\ j.commits = i.commits /\ j.edges = i.edges
                             /\ 10 * j.score >= 9 * i.score
                   /\ \A i \in all \ top :
                        Cardinality(top) = ImpactLimit /\ \A j \in top : j.score >= i.score
    BY <2>1, ImpactIsMutual, StrongestStay
  <2> QED
    BY <2>2 DEF ImpactFollowsRelations, h
<1> QED
  BY <1>1, FilesStayTyped, PTL

-----------------------------------------------------------------------------
(* The parts of a text                                                      *)

\* Text that is stripped from the left ends where a symbol is that stays.
LEMMA SkipLeftIs ==
  ASSUME NEW t, NEW i \in Nat, NEW j \in Nat, i <= j + 1, NEW stripped
  PROVE  LET k == SkipLeft(t, i, j, stripped) IN
         /\ k \in i..j + 1 /\ \A l \in i..k - 1 : t[l] \in stripped
         /\ k <= j => t[k] \notin stripped
         /\ \A l \in i..j : t[l] \notin stripped => k <= l
<1> DEFINE S == {k \in i..j + 1 : k = j + 1 \/ t[k] \notin stripped}
           Good(k) == (\A l \in i..k - 1 : t[l] \in stripped) /\ (k <= j => t[k] \notin stripped)
<1>1. S \in SUBSET Nat /\ j + 1 \in S
  OBVIOUS
<1>2. PICK m \in S : \A n \in S : m <= n
  BY <1>1, LeastNumber
<1>3. m \in i..j + 1 /\ m \in Nat
  BY <1>1
<1>4. \A l \in i..m - 1 : t[l] \in stripped
  <2> SUFFICES ASSUME NEW l \in i..m - 1, t[l] \notin stripped PROVE FALSE
    OBVIOUS
  <2>1. l \in S /\ l < m
    BY <1>3
  <2> QED
    BY <2>1, <1>2, <1>3
<1>5. Good(m)
  BY <1>2, <1>3, <1>4
<1> DEFINE k == SkipLeft(t, i, j, stripped)
<1>6. k = CHOOSE x \in i..j + 1 : Good(x)
  BY DEF SkipLeft
<1> HIDE DEF Good, k
<1>7. k \in i..j + 1 /\ Good(k)
  BY <1>3, <1>5, <1>6
<1>8. ASSUME NEW l \in i..j, t[l] \notin stripped PROVE k <= l
  <2> SUFFICES ASSUME l < k PROVE FALSE
    BY <1>7
  <2>1. l \in i..k - 1
    BY <1>7
  <2> QED
    BY <2>1, <1>7, <1>8 DEF Good
<1> QED
  BY <1>7, <1>8 DEF Good, k

\* The same from the right.
LEMMA SkipRightIs ==
  ASSUME NEW t, NEW i \in Nat \ {0}, NEW j \in Nat, i <= j + 1, NEW stripped
  PROVE  LET k == SkipRight(t, i, j, stripped) IN
         /\ k \in i - 1..j
         /\ k >= i => t[k] \notin stripped
         /\ \A l \in i..j : t[l] \notin stripped => l <= k
<1> DEFINE S == {n \in 0..j + 1 - i : n = j + 1 - i \/ t[j - n] \notin stripped}
           Good(k) == (\A l \in k + 1..j : t[l] \in stripped) /\ (k >= i => t[k] \notin stripped)
<1>1. S \in SUBSET Nat /\ j + 1 - i \in S
  OBVIOUS
<1>2. PICK m \in S : \A n \in S : m <= n
  BY <1>1, LeastNumber
<1>3. m \in 0..j + 1 - i /\ j - m \in i - 1..j
  BY <1>1
<1>4. \A l \in (j - m) + 1..j : t[l] \in stripped
  <2> SUFFICES ASSUME NEW l \in (j - m) + 1..j, t[l] \notin stripped PROVE FALSE
    OBVIOUS
  <2>1. j - l \in 0..j + 1 - i /\ j - (j - l) = l /\ j - l < m
    BY <1>3
  <2>2. j - l \in S
    BY <2>1
  <2> QED
    BY <2>1, <2>2, <1>2, <1>3
<1>5. Good(j - m)
  BY <1>2, <1>3, <1>4
<1> DEFINE k == SkipRight(t, i, j, stripped)
<1>6. k = CHOOSE x \in i - 1..j : Good(x)
  BY DEF SkipRight
<1> HIDE DEF Good, k
<1>7. k \in i - 1..j /\ Good(k)
  BY <1>3, <1>5, <1>6
<1>8. ASSUME NEW l \in i..j, t[l] \notin stripped PROVE l <= k
  <2> SUFFICES ASSUME k < l PROVE FALSE
    BY <1>7
  <2>1. l \in k + 1..j
    BY <1>7
  <2> QED
    BY <2>1, <1>7, <1>8 DEF Good
<1> QED
  BY <1>7, <1>8 DEF Good, k

\* A match takes all full stops with it, and nothing else.
LEMMA EndIs ==
  ASSUME NEW t \in Seq(Characters), NEW r, r[2] \in 1..Len(t)
  PROVE  /\ End(t, r) \in r[2]..Len(t) /\ \A k \in r[2] + 1..End(t, r) : t[k] = "."
         /\ End(t, r) < Len(t) => t[End(t, r) + 1] # "."
<1> DEFINE n == Len(t)
           S == {e \in r[2]..n : e = n \/ t[e + 1] # "."}
           Good(e) == (\A k \in r[2] + 1..e : t[k] = ".") /\ (e < n => t[e + 1] # ".")
<1>0. n \in Nat /\ r[2] \in 1..n
  OBVIOUS
<1> HIDE DEF n
<1>1. S \in SUBSET Nat /\ n \in S
  BY <1>0
<1>2. PICK m \in S : \A e \in S : m <= e
  BY <1>1, LeastNumber
<1>3. m \in r[2]..n
  OBVIOUS
<1>4. \A k \in r[2] + 1..m : t[k] = "."
  <2> SUFFICES ASSUME NEW k \in r[2] + 1..m, t[k] # "." PROVE FALSE
    OBVIOUS
  <2>1. k - 1 \in r[2]..n /\ (k - 1) + 1 = k /\ k - 1 < m
    BY <1>0, <1>3
  <2>2. k - 1 \in S
    BY <2>1
  <2> QED
    BY <2>1, <2>2, <1>0, <1>2, <1>3
<1>5. Good(m)
  BY <1>0, <1>2, <1>3, <1>4
<1>6. End(t, r) = CHOOSE e \in r[2]..n : Good(e)
  BY DEF End, n
<1> HIDE DEF Good
<1>7. End(t, r) \in r[2]..n /\ Good(End(t, r))
  BY <1>3, <1>5, <1>6
<1> QED
  BY <1>7 DEF Good, n

\* A match: a longest run of the body, and the full stops behind it.
LEMMA MatchIs ==
  ASSUME NEW t \in Seq(Characters), NEW m \in Matches(t)
  PROVE  \E j \in m[1]..m[2] :
           /\ m[1] \in 1..Len(t) /\ m[2] \in m[1]..Len(t) /\ m = <<m[1], m[2]>>
           /\ <<m[1], j>> \in Runs(t) /\ Closed(t, <<m[1], j>>) /\ m[2] = End(t, <<m[1], j>>)
           /\ \A k \in m[1]..j : t[k] \in Body
           /\ \A k \in j + 1..m[2] : t[k] = "."
           /\ m[1] > 1 => t[m[1] - 1] \notin Body
           /\ j < Len(t) => t[j + 1] \notin Body
           /\ m[2] < Len(t) => t[m[2] + 1] # "."
<1>1. PICK r \in Runs(t) : Closed(t, r) /\ m = <<r[1], End(t, r)>>
  BY DEF Matches
<1>2. DOMAIN t = 1..Len(t) /\ Len(t) \in Nat
  OBVIOUS
<1>3. /\ r = <<r[1], r[2]>> /\ r[1] \in 1..Len(t) /\ r[2] \in 1..Len(t) /\ r[1] <= r[2]
      /\ \A k \in r[1]..r[2] : t[k] \in Body
      /\ r[1] > 1 => t[r[1] - 1] \notin Body
      /\ r[2] < Len(t) => t[r[2] + 1] \notin Body
  BY <1>2 DEF Runs
<1>4. /\ End(t, r) \in r[2]..Len(t) /\ \A k \in r[2] + 1..End(t, r) : t[k] = "."
      /\ End(t, r) < Len(t) => t[End(t, r) + 1] # "."
  BY <1>3, EndIs
<1>5. m[1] = r[1] /\ m[2] = End(t, r) /\ r = <<m[1], r[2]>>
  BY <1>1, <1>3
<1>6. r[2] \in m[1]..m[2] /\ m[2] \in m[1]..Len(t)
  BY <1>2, <1>3, <1>4, <1>5
<1> QED
  BY <1>1, <1>3, <1>4, <1>5, <1>6

LEMMA MatchTyped ==
  ASSUME NEW t \in Seq(Characters), NEW m \in Matches(t)
  PROVE  /\ m[1] \in 1..Len(t) /\ m[2] \in 1..Len(t) /\ m[1] <= m[2] /\ m = <<m[1], m[2]>>
         /\ m[1] \in Nat \ {0} /\ m[2] \in Nat \ {0}
<1>1. m[1] \in 1..Len(t) /\ m[2] \in m[1]..Len(t) /\ m = <<m[1], m[2]>>
  BY MatchIs
<1>2. Len(t) \in Nat
  OBVIOUS
<1> QED
  BY <1>1, <1>2

\* Of two matches, one is over before the other starts.
LEMMA MatchesApart ==
  ASSUME NEW t \in Seq(Characters), NEW m \in Matches(t), NEW n \in Matches(t)
  PROVE  m = n \/ m[2] < n[1] \/ n[2] < m[1]
<1>1. ASSUME NEW a \in Matches(t), NEW b \in Matches(t), a[1] < b[1] PROVE a[2] < b[1]
  <2>1. PICK j \in a[1]..a[2] :
          /\ a[1] \in 1..Len(t) /\ a[2] \in a[1]..Len(t)
          /\ \A k \in a[1]..j : t[k] \in Body
          /\ \A k \in j + 1..a[2] : t[k] = "."
    BY MatchIs
  <2>2. PICK i \in b[1]..b[2] :
          /\ b[1] \in 1..Len(t) /\ b[2] \in b[1]..Len(t)
          /\ \A k \in b[1]..i : t[k] \in Body
          /\ b[1] > 1 => t[b[1] - 1] \notin Body
    BY MatchIs
  <2>3. Len(t) \in Nat /\ t[b[1]] \in Body /\ t[b[1] - 1] \notin Body
    BY <1>1, <2>1, <2>2
  <2>4. CASE b[1] <= j
    <3>1. b[1] - 1 \in a[1]..j
      BY <1>1, <2>1, <2>2, <2>3, <2>4
    <3> QED
      BY <3>1, <2>1, <2>3
  <2>5. CASE j < b[1] /\ b[1] <= a[2]
    <3>1. b[1] \in j + 1..a[2]
      BY <2>1, <2>2, <2>3, <2>5
    <3>2. t[b[1]] = "."
      BY <3>1, <2>1
    <3> QED
      BY <3>2, <2>3 DEF Body
  <2> QED
    BY <2>1, <2>2, <2>3, <2>4, <2>5
<1>2. ASSUME m[1] = n[1] PROVE m = n
  <2>1. PICK j \in m[1]..m[2] :
          /\ m[1] \in 1..Len(t) /\ m[2] \in m[1]..Len(t) /\ m = <<m[1], m[2]>>
          /\ m[2] = End(t, <<m[1], j>>)
          /\ \A k \in m[1]..j : t[k] \in Body
          /\ j < Len(t) => t[j + 1] \notin Body
    BY MatchIs
  <2>2. PICK i \in n[1]..n[2] :
          /\ n[1] \in 1..Len(t) /\ n[2] \in n[1]..Len(t) /\ n = <<n[1], n[2]>>
          /\ n[2] = End(t, <<n[1], i>>)
          /\ \A k \in n[1]..i : t[k] \in Body
          /\ i < Len(t) => t[i + 1] \notin Body
    BY MatchIs
  <2>3. Len(t) \in Nat
    OBVIOUS
  <2>4. ~(i < j)
    <3> SUFFICES ASSUME i < j PROVE FALSE
      OBVIOUS
    <3>1. i + 1 \in m[1]..j /\ i < Len(t)
      BY <1>2, <2>1, <2>2, <2>3
    <3> QED
      BY <3>1, <2>1, <2>2
  <2>5. ~(j < i)
    <3> SUFFICES ASSUME j < i PROVE FALSE
      OBVIOUS
    <3>1. j + 1 \in n[1]..i /\ j < Len(t)
      BY <1>2, <2>1, <2>2, <2>3
    <3> QED
      BY <3>1, <2>1, <2>2
  <2>6. i = j
    BY <2>1, <2>2, <2>3, <2>4, <2>5
  <2> QED
    BY <1>2, <2>1, <2>2, <2>6
<1>3. m[1] \in Nat /\ n[1] \in Nat
  BY MatchTyped
<1> QED
  BY <1>1, <1>2, <1>3

\* What is kept of a match: nothing but whitespace and bullets is lost.
LEMMA CleanedIs ==
  ASSUME NEW t \in Seq(Characters), NEW m \in Matches(t)
  PROVE  LET c == Cleaned(t, m) IN
         /\ c = <<c[1], c[2]>>
         /\ c[1] \in m[1]..m[2] + 1 /\ c[2] \in m[1] - 1..m[2] /\ c[1] <= c[2] + 1
         /\ \A k \in m[1]..m[2] : t[k] \notin White \cup {"-"} => c[1] <= k /\ k <= c[2]
         /\ \A k \in m[1]..c[1] - 1 : t[k] \in White \cup {"-"}
         /\ c[1] <= c[2] => t[c[1]] \notin White /\ t[c[2]] \notin White
         /\ \A k \in c[1]..m[2] : t[k] \notin White => k <= c[2]
<1> DEFINE a == m[1]
           b == m[2]
           first == SkipLeft(t, a, b, White)
           last == SkipRight(t, first, b, White)
           unbulleted == SkipLeft(t, first, last, {"-"})
           begin == SkipLeft(t, unbulleted, last, White)
<1>0. a \in Nat \ {0} /\ b \in Nat /\ a <= b
  BY MatchTyped
<1>1. Cleaned(t, m) = <<begin, last>>
  BY DEF Cleaned
<1> HIDE DEF a, b
<1>2. /\ first \in a..b + 1 /\ \A l \in a..first - 1 : t[l] \in White
      /\ \A l \in a..b : t[l] \notin White => first <= l
  <2>1. a <= b + 1
    BY <1>0
  <2> QED
    BY <2>1, <1>0, SkipLeftIs
<1> HIDE DEF first
<1>3. /\ last \in first - 1..b
      /\ last >= first => t[last] \notin White
      /\ \A l \in first..b : t[l] \notin White => l <= last
  <2>1. first \in Nat \ {0} /\ first <= b + 1
    BY <1>0, <1>2
  <2> QED
    BY <2>1, <1>0, SkipRightIs
<1> HIDE DEF last
<1>4. /\ unbulleted \in first..last + 1 /\ \A l \in first..unbulleted - 1 : t[l] = "-"
      /\ \A l \in first..last : t[l] # "-" => unbulleted <= l
  <2>0. first \in Nat \ {0} /\ last \in first - 1..b
    BY <1>0, <1>2, <1>3
  <2>1. first \in Nat /\ last \in Nat /\ first <= last + 1
    BY <2>0, <1>0
  <2> QED
    BY <2>1, SkipLeftIs
<1> HIDE DEF unbulleted
<1>5. /\ begin \in unbulleted..last + 1 /\ \A l \in unbulleted..begin - 1 : t[l] \in White
      /\ begin <= last => t[begin] \notin White
      /\ \A l \in unbulleted..last : t[l] \notin White => begin <= l
  <2>0. first \in Nat \ {0} /\ last \in first - 1..b /\ unbulleted \in first..last + 1
    BY <1>0, <1>2, <1>3, <1>4
  <2>1. unbulleted \in Nat /\ last \in Nat /\ unbulleted <= last + 1
    BY <2>0, <1>0
  <2> QED
    BY <2>1, SkipLeftIs
<1> HIDE DEF begin
<1>6. /\ begin \in a..b + 1 /\ last \in a - 1..b /\ begin <= last + 1
      /\ begin <= last => t[begin] \notin White /\ t[last] \notin White
  <2>1. /\ first \in a..b + 1 /\ last \in first - 1..b
        /\ unbulleted \in first..last + 1 /\ begin \in unbulleted..last + 1
    BY <1>2, <1>3, <1>4, <1>5
  <2>2. begin \in a..b + 1 /\ last \in a - 1..b /\ begin <= last + 1 /\ (begin <= last => last >= first)
    BY <2>1, <1>0
  <2> QED
    BY <2>2, <1>3, <1>5
<1>7. ASSUME NEW k \in a..b, t[k] \notin White \cup {"-"} PROVE begin <= k /\ k <= last
  <2>1. k \in first..b
    BY <1>0, <1>2, <1>7
  <2>2. k \in first..last
    BY <2>1, <1>0, <1>2, <1>3, <1>7
  <2>3. k \in unbulleted..last
    BY <2>2, <1>0, <1>2, <1>3, <1>4, <1>7
  <2> QED
    BY <2>3, <1>0, <1>2, <1>3, <1>4, <1>5, <1>7
<1>8. ASSUME NEW k \in a..begin - 1 PROVE t[k] \in White \cup {"-"}
  <2>1. k \in a..first - 1 \/ k \in first..unbulleted - 1 \/ k \in unbulleted..begin - 1
    BY <1>0, <1>2, <1>3, <1>4, <1>5
  <2> QED
    BY <2>1, <1>2, <1>4, <1>5
<1>9. ASSUME NEW k \in begin..b, t[k] \notin White PROVE k <= last
  <2>1. k \in first..b
    BY <1>0, <1>2, <1>3, <1>4, <1>5
  <2> QED
    BY <2>1, <1>3, <1>9
<1> QED
  BY <1>1, <1>6, <1>7, <1>8, <1>9 DEF a, b

-----------------------------------------------------------------------------
(* Claims                                                                   *)

\* The matches that are not cleaned away, and the claim that is made of one.
Kept(t) == {m \in Matches(t) : Cleaned(t, m)[1] <= Cleaned(t, m)[2]}

Before(t, m) == {n \in Kept(t) : n[1] < m[1]}

Taken(t) == {m \in Kept(t) : Cardinality(Before(t, m)) < MaxClaims}

Claim(t, m) ==
  [part |-> Cleaned(t, m),
   span |-> <<Start(t, m), Start(t, m) + (Cleaned(t, m)[2] - Cleaned(t, m)[1])>>]

LEMMA ClaimsAre == \A t : Claims(t) = {Claim(t, m) : m \in Taken(t)}
BY DEF Claims, Kept, Before, Taken, Claim

LEMMA KeptFinite ==
  ASSUME NEW t \in Seq(Characters)
  PROVE  IsFiniteSet(Kept(t))
<1>1. IsFiniteSet((1..Len(t)) \X (1..Len(t)))
  <2>1. IsFiniteSet(1..Len(t))
    BY FS_Interval
  <2> QED
    BY <2>1, FS_Product
<1>2. ASSUME NEW m \in Kept(t) PROVE m \in (1..Len(t)) \X (1..Len(t))
  <2>1. m[1] \in 1..Len(t) /\ m[2] \in 1..Len(t) /\ m = <<m[1], m[2]>>
    BY MatchTyped DEF Kept
  <2> QED
    BY <2>1
<1> QED
  BY <1>1, <1>2, FS_Subset

\* The parts of two matches that are kept differ.
LEMMA ClaimsApart ==
  ASSUME NEW t \in Seq(Characters), NEW m \in Kept(t), NEW n \in Kept(t), m # n
  PROVE  /\ Claim(t, m) # Claim(t, n)
         /\ Cleaned(t, m)[2] < Cleaned(t, n)[1] \/ Cleaned(t, n)[2] < Cleaned(t, m)[1]
<1> DEFINE c == Cleaned(t, m)
           d == Cleaned(t, n)
<1>1. m \in Matches(t) /\ n \in Matches(t) /\ c[1] <= c[2] /\ d[1] <= d[2]
  BY DEF Kept
<1>2. /\ m[1] \in Nat /\ m[2] \in Nat /\ c[1] \in m[1]..m[2] + 1 /\ c[2] \in m[1] - 1..m[2]
      /\ n[1] \in Nat /\ n[2] \in Nat /\ d[1] \in n[1]..n[2] + 1 /\ d[2] \in n[1] - 1..n[2]
  BY <1>1, MatchTyped, CleanedIs
<1>3. m[2] < n[1] \/ n[2] < m[1]
  BY <1>1, MatchesApart
<1>4. Claim(t, m).part = c /\ Claim(t, n).part = d
  BY DEF Claim
<1> HIDE DEF c, d
<1>5. c[2] < d[1] \/ d[2] < c[1]
  BY <1>1, <1>2, <1>3
<1>6. c # d
  BY <1>1, <1>2, <1>5
<1> QED
  BY <1>4, <1>5, <1>6 DEF c, d

\* As long as max_claims is not reached, every match that is kept is taken.
LEMMA AllTaken ==
  ASSUME ParsingAssumption, NEW t \in Seq(Characters), Cardinality(Claims(t)) < MaxClaims
  PROVE  Taken(t) = Kept(t)
<1>1. IsFiniteSet(Kept(t)) /\ Taken(t) \subseteq Kept(t)
  BY KeptFinite DEF Taken
<1>2. IsFiniteSet(Taken(t))
  BY <1>1, FS_Subset
<1>3. Cardinality(Claims(t)) = Cardinality(Taken(t))
  <2> DEFINE f == [m \in Taken(t) |-> Claim(t, m)]
  <2>1. f \in Surjection(Taken(t), Claims(t))
    BY ClaimsAre DEF Surjection
  <2>2. f \in Injection(Taken(t), Claims(t))
    BY <1>1, <2>1, ClaimsApart DEF Injection, Surjection, IsInjective
  <2> QED
    BY <1>2, <2>1, <2>2, FS_Surjection
<1> SUFFICES ASSUME NEW m \in Kept(t) \ Taken(t) PROVE FALSE
  BY <1>1
<1> DEFINE S == {n[1] : n \in Kept(t) \ Taken(t)}
<1>4. \A n \in Kept(t) : n[1] \in Nat
  BY MatchTyped DEF Kept
<1>5. S \in SUBSET Nat /\ S # {}
  BY <1>4
<1>6. PICK n \in Kept(t) \ Taken(t) : \A k \in S : n[1] <= k
  BY <1>5, LeastNumber
<1>7. Before(t, n) \subseteq Taken(t)
  <2> SUFFICES ASSUME NEW k \in Before(t, n), k \notin Taken(t) PROVE FALSE
    OBVIOUS
  <2>1. k \in Kept(t) /\ k[1] < n[1] /\ k[1] \in S
    BY DEF Before
  <2> QED
    <3>1. n[1] <= k[1] /\ n[1] \in Nat /\ k[1] \in Nat
      BY <2>1, <1>4, <1>6
    <3> QED
      BY <2>1, <3>1
<1>8. Cardinality(Before(t, n)) <= Cardinality(Taken(t)) /\ IsFiniteSet(Before(t, n))
  BY <1>2, <1>7, FS_Subset
<1>9. Cardinality(Before(t, n)) \in Nat /\ Cardinality(Taken(t)) \in Nat
  BY <1>2, <1>8, FS_CardinalityType
<1>10. ~(Cardinality(Before(t, n)) < MaxClaims)
  BY <1>6 DEF Taken
<1> QED
  BY <1>3, <1>8, <1>9, <1>10 DEF ParsingAssumption

\* A letter of the body, and nothing but body up to a full stop or the end of the text, is in a
\* match that is not cleaned away, and in the part of it that is kept.
LEMMA LetterIsKept ==
  ASSUME NEW t \in Seq(Characters), NEW k \in DOMAIN t, t[k] = "a",
         NEW stop \in k + 1..Len(t) + 1, \A l \in k..stop - 1 : t[l] \in Body,
         stop <= Len(t) => t[stop] = "."
  PROVE  \E m \in Kept(t) : Cleaned(t, m)[1] <= k /\ k <= Cleaned(t, m)[2]
<1> DEFINE n == Len(t)
           S == {i \in 1..k : \A l \in i..k : t[l] \in Body}
<1>0. n \in Nat /\ DOMAIN t = 1..n /\ k \in 1..n /\ t[k] \in Body
  BY DEF Body
<1>1. S \in SUBSET Nat /\ k \in S
  BY <1>0
<1>2. PICK i \in S : \A l \in S : i <= l
  BY <1>1, LeastNumber
<1> DEFINE r == <<i, stop - 1>>
           e == End(t, r)
           m == <<i, e>>
<1> HIDE DEF n
<1>3. /\ i \in 1..k /\ stop - 1 \in k..n /\ stop - 1 \in 1..n /\ i <= stop - 1 /\ i \in 1..n
      /\ (stop - 1) + 1 = stop
  BY <1>0 DEF n
<1>4. \A l \in i..stop - 1 : t[l] \in Body
  <2>1. \A l \in i..k : t[l] \in Body
    BY <1>2
  <2>2. \A l \in i..stop - 1 : l \in i..k \/ l \in k..stop - 1
    BY <1>3
  <2> QED
    BY <2>1, <2>2
<1>5. i > 1 => t[i - 1] \notin Body
  <2> SUFFICES ASSUME i > 1, t[i - 1] \in Body PROVE FALSE
    OBVIOUS
  <2>1. i - 1 \in 1..k /\ i - 1 < i
    BY <1>3
  <2>2. \A l \in i - 1..k : t[l] \in Body
    <3>1. \A l \in i - 1..k : l = i - 1 \/ l \in i..k
      BY <1>3
    <3> QED
      BY <3>1, <1>2
  <2>3. i - 1 \in S
    BY <2>1, <2>2
  <2> QED
    BY <2>1, <2>3, <1>2, <1>3
<1>6. r[2] < n => t[r[2] + 1] \notin Body
  <2>1. stop - 1 < n => t[stop] = "."
    BY <1>0, <1>3 DEF n
  <2> QED
    BY <2>1, <1>3 DEF Body
<1>7. r \in Runs(t)
  BY <1>0, <1>3, <1>4, <1>5, <1>6 DEF Runs, n
<1>8. Closed(t, r)
  <2>1. stop - 1 = n \/ stop <= n
    BY <1>0, <1>3
  <2> QED
    BY <2>1, <1>3 DEF Closed, n
<1>9. m \in Matches(t)
  BY <1>7, <1>8 DEF Matches
<1>10. e \in stop - 1..n
  BY <1>3, EndIs DEF n
<1> HIDE DEF e
<1>11. k \in m[1]..m[2] /\ t[k] \notin White \cup {"-"}
  BY <1>0, <1>3, <1>10 DEF White
<1> HIDE DEF m
<1>12. Cleaned(t, m)[1] <= k /\ k <= Cleaned(t, m)[2]
  BY <1>9, <1>11, CleanedIs
<1>13. Cleaned(t, m)[1] \in Nat /\ Cleaned(t, m)[2] \in Int
  BY <1>9, CleanedIs, MatchTyped
<1>14. m \in Kept(t)
  BY <1>0, <1>3, <1>9, <1>12, <1>13 DEF Kept
<1> QED
  BY <1>12, <1>14

LEMMA SentencesAre == ASSUME ParsingAssumption, text \in Seq(Characters) PROVE SentencesAreClaims
<1> SUFFICES ASSUME NEW k \in Letters, Cardinality(Claims(text)) < MaxClaims,
                    NEW stop \in k + 1..Len(text) + 1,
                    \A l \in k..stop - 1 : text[l] \in Body,
                    stop <= Len(text) => text[stop] = "."
             PROVE  Covered(k)
  BY DEF SentencesAreClaims
<1>1. k \in DOMAIN text /\ text[k] = "a"
  BY DEF Letters
<1>2. PICK m \in Kept(text) : Cleaned(text, m)[1] <= k /\ k <= Cleaned(text, m)[2]
  BY <1>1, LetterIsKept
<1>3. Claim(text, m) \in Claims(text)
  BY AllTaken, ClaimsAre
<1>4. Claim(text, m).part = Cleaned(text, m)
  BY DEF Claim
<1>5. Cleaned(text, m)[1] \in Nat /\ Cleaned(text, m)[2] \in Int /\ k \in Nat
  BY <1>1, CleanedIs, MatchTyped DEF Kept
<1>6. k \in Claim(text, m).part[1]..Claim(text, m).part[2]
  BY <1>2, <1>4, <1>5
<1> QED
  BY <1>3, <1>6 DEF Covered

-----------------------------------------------------------------------------
(* Claims that begin with a letter                                          *)

LEMMA ClaimIs ==
  ASSUME NEW t \in Seq(Characters), NEW c \in Claims(t)
  PROVE  \E m \in Kept(t) : c = Claim(t, m) /\ c.part = Cleaned(t, m)
BY ClaimsAre DEF Taken, Claim

\* The span begins in the match, no later than the text of the claim unless that begins with a
\* bullet, and there exactly if neither a bullet begins it nor other whitespace leads it.
LEMMA StartIs ==
  ASSUME NEW t \in Seq(Characters), NEW m \in Kept(t)
  PROVE  LET c == Cleaned(t, m) IN
         /\ Start(t, m) \in Nat /\ m[1] <= Start(t, m)
         /\ t[c[1]] # "-" => Start(t, m) <= c[1]
         /\ Start(t, m) = c[1] <=>
              t[c[1]] # "-" /\ \A k \in m[1]..c[1] - 1 : t[k] # "space"
<1> DEFINE a == m[1]
           b == m[2]
           c == Cleaned(t, m)
           p == c[1]
           s == Start(t, m)
<1>0. m \in Matches(t) /\ p <= c[2]
  BY DEF Kept
<1>1. a \in Nat \ {0} /\ b \in Nat /\ a <= b + 1
  BY <1>0, MatchTyped
<1>2. /\ p \in a..b + 1 /\ c[2] \in a - 1..b
      /\ \A k \in a..p - 1 : t[k] \in White \cup {"-"}
      /\ t[p] \notin White
  BY <1>0, CleanedIs
<1>3. s = SkipLeft(t, a, b, {"blank", "-"})
  BY DEF Start
<1> HIDE DEF a, b, p, s
<1>4. /\ s \in a..b + 1
      /\ \A l \in a..s - 1 : t[l] \in {"blank", "-"}
      /\ s <= b => t[s] \notin {"blank", "-"}
      /\ \A l \in a..b : t[l] \notin {"blank", "-"} => s <= l
  BY <1>1, <1>3, SkipLeftIs
<1>5. p \in a..b /\ s \in Nat /\ a <= s /\ p \in Nat
  BY <1>0, <1>1, <1>2, <1>4
<1>6. t[p] # "-" => t[p] \notin {"blank", "-"}
  BY <1>2 DEF White
<1>7. t[p] # "-" => s <= p
  BY <1>4, <1>5, <1>6
<1>8. ASSUME s = p PROVE t[p] # "-" /\ \A k \in a..p - 1 : t[k] # "space"
  <2>1. s <= b
    BY <1>1, <1>5, <1>8
  <2> QED
    BY <2>1, <1>4, <1>8
<1>9. ASSUME t[p] # "-", \A k \in a..p - 1 : t[k] # "space" PROVE s = p
  <2>1. ASSUME s < p PROVE FALSE
    <3>1. s \in a..p - 1 /\ s <= b
      BY <1>1, <1>5, <2>1
    <3>2. t[s] \in White \cup {"-"} /\ t[s] # "space" /\ t[s] \notin {"blank", "-"}
      BY <3>1, <1>2, <1>4, <1>9
    <3> QED
      BY <3>2 DEF White
  <2> QED
    BY <2>1, <1>5, <1>7, <1>9
<1> QED
  BY <1>5, <1>7, <1>8, <1>9 DEF a, p, s

\* What leads a claim in its match leads it in its run of the body.
LEMMA LedIs ==
  ASSUME text \in Seq(Characters), NEW c, NEW m \in Kept(text), c.part = Cleaned(text, m)
  PROVE  LedBySpace(c) <=> \E k \in m[1]..c.part[1] - 1 : text[k] = "space"
<1> DEFINE a == m[1]
           p == c.part[1]
<1>1. m \in Matches(text) /\ p <= Cleaned(text, m)[2]
  BY DEF Kept
<1>2. a \in Nat \ {0} /\ m[2] \in Nat
  BY <1>1, MatchTyped
<1>3. /\ p \in a..m[2] + 1
      /\ \A k \in a..p - 1 : text[k] \in White \cup {"-"}
  BY <1>1, CleanedIs
<1>4. a > 1 => text[a - 1] \notin Body
  BY <1>1, MatchIs
<1> HIDE DEF a, p
<1>5. p \in Nat /\ a <= p
  BY <1>2, <1>3
<1>6. ASSUME NEW k \in 1..p - 1, text[k] = "space", \A l \in k..p - 1 : text[l] \in Body
      PROVE  k \in a..p - 1
  <2>1. k < a => a - 1 \in k..p - 1 /\ a > 1
    BY <1>2, <1>5
  <2>2. ~(k < a)
    BY <2>1, <1>4, <1>6
  <2> QED
    BY <2>2, <1>2, <1>5
<1>7. ASSUME NEW k \in a..p - 1
      PROVE  k \in 1..p - 1 /\ \A l \in k..p - 1 : text[l] \in Body
  <2>1. \A l \in k..p - 1 : l \in a..p - 1
    BY <1>2, <1>5
  <2>2. \A l \in k..p - 1 : text[l] \in White \cup {"-"}
    BY <2>1, <1>3
  <2>3. k \in 1..p - 1
    BY <1>2, <1>5
  <2> QED
    BY <2>2, <2>3 DEF White, Body
<1>8. LedBySpace(c) <=>
        \E k \in 1..p - 1 : text[k] = "space" /\ \A l \in k..p - 1 : text[l] \in Body
  BY DEF LedBySpace, p
<1> QED
  BY <1>6, <1>7, <1>8 DEF a, p

LEMMA SpansAre == ASSUME text \in Seq(Characters) PROVE SpansStandOrSlip
<1>1. ASSUME NEW c \in Claims(text)
      PROVE  c.span = c.part <=> text[c.part[1]] # "-" /\ ~LedBySpace(c)
  <2>1. PICK m \in Kept(text) : c = Claim(text, m) /\ c.part = Cleaned(text, m)
    BY ClaimIs
  <2> DEFINE p == Cleaned(text, m)
             s == Start(text, m)
  <2>2. p = <<p[1], p[2]>> /\ p[1] \in Nat /\ p[2] \in Int
    BY CleanedIs, MatchTyped DEF Kept
  <2>3. s = p[1] <=> text[p[1]] # "-" /\ ~LedBySpace(c)
    BY <2>1, StartIs, LedIs
  <2>4. c.span = <<s, s + (p[2] - p[1])>>
    BY <2>1 DEF Claim
  <2>5. s \in Nat
    BY StartIs
  <2> HIDE DEF p, s
  <2>6. c.span = p <=> s = p[1]
    BY <2>2, <2>4, <2>5
  <2> QED
    BY <2>1, <2>3, <2>6 DEF p
<1>2. ASSUME NEW c \in Claims(text), text[c.part[1]] # "-",
             NEW d \in Claims(text), d # c, text[d.part[1]] # "-"
      PROVE  d.span[2] < c.span[1] \/ c.span[2] < d.span[1]
  <2>1. PICK m \in Kept(text) : c = Claim(text, m) /\ c.part = Cleaned(text, m)
    BY ClaimIs
  <2>2. PICK n \in Kept(text) : d = Claim(text, n) /\ d.part = Cleaned(text, n)
    BY ClaimIs
  <2>3. m[2] < n[1] \/ n[2] < m[1]
    BY <1>2, <2>1, <2>2, MatchesApart DEF Kept
  <2>4. ASSUME NEW x \in Kept(text), text[Cleaned(text, x)[1]] # "-"
        PROVE  LET span == Claim(text, x).span IN
               span[1] \in Nat /\ span[2] \in Int /\ x[1] <= span[1] /\ span[2] <= x[2]
    <3> DEFINE p == Cleaned(text, x)[1]
               q == Cleaned(text, x)[2]
               s == Start(text, x)
    <3>1. Claim(text, x).span = <<s, s + (q - p)>>
      BY DEF Claim
    <3>2. s \in Nat /\ x[1] <= s /\ s <= p
      BY <2>4, StartIs
    <3>3. x[1] \in Nat \ {0} /\ x[2] \in Nat \ {0} /\ p \in x[1]..x[2] + 1 /\ q \in x[1] - 1..x[2]
      BY CleanedIs, MatchTyped DEF Kept
    <3> HIDE DEF p, q, s
    <3> QED
      BY <3>1, <3>2, <3>3
  <2>5. /\ c.span[1] \in Nat /\ c.span[2] \in Int /\ m[1] <= c.span[1] /\ c.span[2] <= m[2]
        /\ d.span[1] \in Nat /\ d.span[2] \in Int /\ n[1] <= d.span[1] /\ d.span[2] <= n[2]
    BY <1>2, <2>1, <2>2, <2>4
  <2>6. m[1] \in Nat /\ m[2] \in Nat /\ n[1] \in Nat /\ n[2] \in Nat
    BY MatchTyped DEF Kept
  <2> QED
    BY <2>3, <2>5, <2>6
<1> QED
  BY <1>1, <1>2 DEF SpansStandOrSlip

\* A text that begins with a letter and is one run of the body with its full stops is one
\* claim, the whole of it.
LEMMA WholeIs ==
  ASSUME ParsingAssumption, NEW u \in Seq(Characters), NEW n \in 1..Len(u),
         \A k \in 1..n : u[k] \in Body, \A k \in n + 1..Len(u) : u[k] = ".",
         u[1] = "a", u[Len(u)] \notin White
  PROVE  \E d \in Claims(u) : d.part = <<1, Len(u)>> /\ \A e \in Claims(u) : e = d
<1> DEFINE z == Len(u)
           m == <<1, z>>
           r == <<1, n>>
<1>0. z \in Nat /\ DOMAIN u = 1..z /\ n \in 1..z /\ 1 \in 1..z
  OBVIOUS
<1> HIDE DEF z
<1>1. \A k \in 1..z : u[k] \in Body <=> k <= n
  BY <1>0 DEF Body, z
<1>2. \A i, j \in 1..z : <<i, j>> \in Runs(u) <=> i = 1 /\ j = n
  <2>1. r \in Runs(u)
    <3>1. \A k \in r[1]..r[2] : u[k] \in Body
      OBVIOUS
    <3>2. r[2] < z => u[r[2] + 1] \notin Body
      BY <1>0, <1>1
    <3> QED
      BY <1>0, <3>1, <3>2 DEF Runs, z
  <2>2. ASSUME NEW i \in 1..z, NEW j \in 1..z, <<i, j>> \in Runs(u) PROVE i = 1 /\ j = n
    <3>1. /\ i <= j /\ \A k \in i..j : u[k] \in Body
          /\ i > 1 => u[i - 1] \notin Body
          /\ j < z => u[j + 1] \notin Body
      BY <2>2 DEF Runs, z
    <3>2. i <= n /\ j <= n
      BY <3>1, <1>0, <1>1
    <3>3. i > 1 => i - 1 \in 1..z /\ i - 1 <= n
      BY <3>2, <1>0
    <3>4. j < n => j + 1 \in 1..z /\ j + 1 <= n /\ j < z
      BY <1>0
    <3> QED
      BY <3>1, <3>2, <3>3, <3>4, <1>0, <1>1
  <2> QED
    BY <2>1, <2>2
<1>3. Matches(u) = {m}
  <2>1. ASSUME NEW x \in Matches(u) PROVE x = m
    <3>1. PICK j \in x[1]..x[2] :
            /\ x[1] \in 1..z /\ x[2] \in x[1]..z /\ x = <<x[1], x[2]>>
            /\ <<x[1], j>> \in Runs(u)
            /\ x[2] < z => u[x[2] + 1] # "."
      BY MatchIs DEF z
    <3>2. x[1] = 1 /\ j = n
      BY <3>1, <1>0, <1>2
    <3>3. x[2] < z => x[2] + 1 \in n + 1..z
      BY <3>1, <3>2, <1>0
    <3>4. ~(x[2] < z)
      BY <3>1, <3>3 DEF z
    <3> QED
      BY <3>1, <3>2, <3>4, <1>0
  <2>2. r \in Runs(u)
    BY <1>0, <1>2
  <2>3. Closed(u, r)
    <3>1. n = z \/ n + 1 \in n + 1..z
      BY <1>0
    <3>2. n = z \/ u[n + 1] = "."
      BY <3>1 DEF z
    <3> QED
      BY <3>2 DEF Closed, z
  <2>4. End(u, r) = z
    <3>1. /\ End(u, r) \in n..z
          /\ End(u, r) < z => u[End(u, r) + 1] # "."
      BY <1>0, EndIs DEF z
    <3>2. End(u, r) < z => End(u, r) + 1 \in n + 1..z
      BY <3>1, <1>0
    <3> QED
      BY <3>1, <3>2, <1>0 DEF z
  <2>5. m \in Matches(u)
    <3>1. <<r[1], End(u, r)>> \in Matches(u)
      BY <2>2, <2>3 DEF Matches
    <3> QED
      BY <3>1, <2>4
  <2> QED
    BY <2>1, <2>5
<1>4. m[1] = 1 /\ m[2] = z
  OBVIOUS
<1> HIDE DEF m, r
<1>5. Cleaned(u, m) = <<1, z>>
  <2> DEFINE c == Cleaned(u, m)
  <2>1. /\ c = <<c[1], c[2]>> /\ c[1] \in 1..z + 1 /\ c[2] \in 0..z
        /\ \A k \in 1..z : u[k] \notin White \cup {"-"} => c[1] <= k /\ k <= c[2]
        /\ \A k \in c[1]..z : u[k] \notin White => k <= c[2]
    BY <1>3, <1>4, CleanedIs
  <2> HIDE DEF c
  <2>2. c[1] = 1
    <3>1. u[1] \notin White \cup {"-"}
      BY DEF White
    <3> QED
      BY <3>1, <2>1, <1>0
  <2>3. z \in c[1]..z /\ u[z] \notin White
    BY <2>2, <1>0 DEF z
  <2>4. z <= c[2]
    BY <2>1, <2>3
  <2>5. c[2] = z
    BY <2>1, <2>4, <1>0
  <2> QED
    BY <2>1, <2>2, <2>5 DEF c
<1>6. Kept(u) = {m}
  BY <1>0, <1>3, <1>5 DEF Kept
<1>7. Taken(u) = {m}
  <2>1. Before(u, m) = {}
    BY <1>4, <1>6 DEF Before
  <2>2. Cardinality(Before(u, m)) < MaxClaims
    BY <2>1, FS_EmptySet DEF ParsingAssumption
  <2> QED
    BY <1>6, <2>2 DEF Taken
<1>8. Claims(u) = {Claim(u, m)} /\ Claim(u, m).part = <<1, z>>
  BY <1>5, <1>7, ClaimsAre DEF Claim
<1> QED
  BY <1>8 DEF z

LEMMA PlainAgain ==
  ASSUME ParsingAssumption, text \in Seq(Characters)
  PROVE  PlainClaimsParseAgain
<1> SUFFICES ASSUME NEW c \in Claims(text), text[c.part[1]] \notin {"-", "."}
             PROVE  \E d \in Claims(Text(c)) :
                      /\ d.part = <<1, Len(Text(c))>>
                      /\ \A e \in Claims(Text(c)) : e = d
  BY DEF PlainClaimsParseAgain
<1>1. PICK m \in Kept(text) : c = Claim(text, m) /\ c.part = Cleaned(text, m)
  BY ClaimIs
<1> DEFINE p == c.part[1]
           q == c.part[2]
           u == Text(c)
           z == q - p + 1
           first == m[1]
           last == m[2]
<1>2. m \in Matches(text) /\ p <= q
  BY <1>1 DEF Kept
<1>3. PICK j \in first..last :
        /\ first \in 1..Len(text) /\ last \in first..Len(text)
        /\ \A k \in first..j : text[k] \in Body
        /\ \A k \in j + 1..last : text[k] = "."
  BY <1>2, MatchIs
<1>4. /\ p \in first..last + 1 /\ q \in first - 1..last
      /\ text[p] \notin White /\ text[q] \notin White
  BY <1>1, <1>2, CleanedIs
<1> HIDE DEF first, last
<1>5. Len(text) \in Nat
  OBVIOUS
<1>6. u = SubSeq(text, p, q)
  BY DEF Text
<1>7. text[p] \notin {"-", "."}
  OBVIOUS
<1> HIDE DEF p, q, u
<1>8. /\ first \in Nat /\ last \in Nat /\ j \in Nat /\ j <= last /\ first <= j /\ last <= Len(text)
      /\ p \in 1..Len(text) /\ q \in 1..Len(text) /\ p <= q /\ z \in Nat \ {0} /\ first <= p /\ q <= last
  BY <1>2, <1>3, <1>4, <1>5
<1>9. u \in Seq(Characters) /\ Len(u) = z /\ \A k \in 1..z : u[k] = text[p + k - 1]
  BY <1>6, <1>8
<1>10. p <= j /\ text[p] = "a"
  <2>1. p <= j
    BY <1>3, <1>7, <1>8
  <2> QED
    BY <2>1, <1>3, <1>4, <1>7, <1>8 DEF Body, White
<1> DEFINE n == IF j <= q THEN j - p + 1 ELSE z
<1>11. n \in 1..z
  BY <1>8, <1>10
<1>12. ASSUME NEW k \in 1..n PROVE u[k] \in Body
  <2>1. k \in 1..z /\ p + k - 1 \in first..j
    BY <1>8, <1>10, <1>11
  <2> QED
    BY <2>1, <1>3, <1>9
<1>13. ASSUME NEW k \in n + 1..z PROVE u[k] = "."
  <2>1. k \in 1..z /\ p + k - 1 \in j + 1..last
    BY <1>8, <1>10, <1>11
  <2> QED
    BY <2>1, <1>3, <1>9
<1>14. u[1] = "a" /\ u[z] \notin White
  <2>1. 1 \in 1..z /\ z \in 1..z /\ p + 1 - 1 = p /\ p + z - 1 = q
    BY <1>8
  <2> QED
    BY <2>1, <1>4, <1>9, <1>10
<1> HIDE DEF n, z
<1>15. \E d \in Claims(u) : d.part = <<1, Len(u)>> /\ \A e \in Claims(u) : e = d
  BY <1>9, <1>11, <1>12, <1>13, <1>14, WholeIs
<1> QED
  BY <1>15 DEF u

-----------------------------------------------------------------------------
(* Theorems about parse_claims                                              *)

LEMMA TextTyped == ParsingSpec => [](text \in Seq(Characters))
<1>1. ParsingInit => text \in Seq(Characters)
  BY DEF ParsingInit
<1>2. text \in Seq(Characters) /\ [Type]_text => (text \in Seq(Characters))'
  BY DEF Type
<1> QED
  BY <1>1, <1>2, PTL DEF ParsingSpec

\* auditor.py, parse_claims: of a text of any length, every letter of a sentence that a full
\* stop or the end of the text closes is in a claim, as long as max_claims are not reached.
THEOREM SentencesAreTaken == ParsingSpec => []SentencesAreClaims
<1>1. text \in Seq(Characters) => SentencesAreClaims
  BY SentencesAre, ParsingAssumption
<1> QED
  BY <1>1, TextTyped, PTL

\* auditor.py and delivery_reports.py: a claim stands at its span exactly if no bullet begins its
\* text and no whitespace but spaces and tabs leads it; the spans of claims that no bullet begins
\* are apart; and a claim that begins neither with a bullet nor with a full stop is found again,
\* whole and alone, when its stored text is parsed for the assessment.
THEOREM ClaimsAreFound == ParsingSpec => []ClaimsKeepTheirSource
<1>1. text \in Seq(Characters) => ClaimsKeepTheirSource
  BY SpansAre, PlainAgain, ParsingAssumption DEF ClaimsKeepTheirSource
<1> QED
  BY <1>1, TextTyped, PTL

-----------------------------------------------------------------------------
(* Sequences and their first elements                                       *)

\* The first of some candidates that the tree has.
LEMMA FirstKnownIsFirst ==
  ASSUME NEW candidates, NEW known, Len(candidates) \in Nat
  PROVE  LET first == FirstKnown(candidates, known) IN
         /\ first \in 0..Len(candidates)
         /\ first = 0 => \A k \in 1..Len(candidates) : candidates[k] \notin known
         /\ first # 0 => /\ candidates[first] \in known
                         /\ \A k \in 1..Len(candidates) : candidates[k] \in known => first <= k
<1> DEFINE I == {k \in 1..Len(candidates) : candidates[k] \in known}
<1>1. FirstKnown(candidates, known) = IF I # {} THEN Min(I) ELSE 0
  BY DEF FirstKnown, SelectInSeq
<1>2. CASE I = {}
  BY <1>1, <1>2
<1>3. CASE I # {}
  <2>0. I \in SUBSET Nat
    OBVIOUS
  <2>1. Min(I) \in I /\ \A n \in I : Min(I) <= n
    BY <1>3, <2>0, MinIs
  <2> QED BY <1>1, <1>3, <2>1
<1> QED BY <1>2, <1>3

LEMMA FunctionIsSequence ==
  ASSUME NEW S, NEW n \in Nat, NEW f \in [1..n -> S]
  PROVE  f \in Seq(S) /\ Len(f) = n
<1>1. f \in Seq(S)
  BY SeqDef
<1> QED BY <1>1, LenProperties

LEMMA SuffixedTyped ==
  ASSUME NEW base \in Seq(Segments), base # <<>>, NEW suffixes \in Seq(SourceSuffixes)
  PROVE  /\ WithSuffixes(base, suffixes) \in Seq(Seq(Segments))
         /\ Len(WithSuffixes(base, suffixes)) = Len(suffixes)
         /\ Indices(base, suffixes) \in Seq(Seq(Segments))
         /\ Len(Indices(base, suffixes)) = Len(suffixes)
<1>1. DOMAIN suffixes = 1..Len(suffixes) /\ Len(suffixes) \in Nat
  OBVIOUS
<1>2. Front(base) \in Seq(Segments) /\ Last(base) \in Segments
  BY DEF Front, Last
<1>3. ASSUME NEW k \in 1..Len(suffixes)
      PROVE  /\ Append(Front(base), [stem |-> Last(base).stem, suffix |-> suffixes[k]]) \in Seq(Segments)
             /\ Append(base, [stem |-> "index", suffix |-> suffixes[k]]) \in Seq(Segments)
  <2>0. suffixes \in [1..Len(suffixes) -> SourceSuffixes]
    BY LenProperties
  <2>1. suffixes[k] \in SourceSuffixes
    BY <2>0
  <2>2. SourceSuffixes \subseteq Endings /\ "index" \in Stems
    BY GenomeAssumption
  <2>3. Last(base).stem \in Stems
    BY <1>2 DEF Segments
  <2>4. /\ [stem |-> Last(base).stem, suffix |-> suffixes[k]] \in Segments
        /\ [stem |-> "index", suffix |-> suffixes[k]] \in Segments
    BY <2>1, <2>2, <2>3 DEF Segments
  <2> QED BY <1>2, <2>4, AppendProperties
<1> DEFINE AnyPath == Seq(Segments)
<1>4. /\ WithSuffixes(base, suffixes) \in [1..Len(suffixes) -> AnyPath]
      /\ Indices(base, suffixes) \in [1..Len(suffixes) -> AnyPath]
  BY <1>1, <1>3 DEF WithSuffixes, Indices
<1> HIDE DEF AnyPath
<1>5. /\ WithSuffixes(base, suffixes) \in Seq(AnyPath) /\ Len(WithSuffixes(base, suffixes)) = Len(suffixes)
      /\ Indices(base, suffixes) \in Seq(AnyPath) /\ Len(Indices(base, suffixes)) = Len(suffixes)
  BY <1>1, <1>4, FunctionIsSequence
<1> QED BY <1>5 DEF AnyPath

\* The suffixes that are tried.
LEMMA Literals ==
  /\ <<".ts", ".tsx">> \in Seq(SourceSuffixes) /\ Len(<<".ts", ".tsx">>) = 2
  /\ <<".ts", ".tsx", ".js", ".jsx">> \in Seq(SourceSuffixes) /\ Len(<<".ts", ".tsx", ".js", ".jsx">>) = 4
  /\ <<".ts", ".tsx", ".js", ".jsx", ".mjs", ".cjs">> \in Seq(SourceSuffixes)
  /\ Len(<<".ts", ".tsx", ".js", ".jsx", ".mjs", ".cjs">>) = 6
<1>1. /\ <<".ts", ".tsx">> \in [1..2 -> SourceSuffixes]
      /\ <<".ts", ".tsx", ".js", ".jsx">> \in [1..4 -> SourceSuffixes]
      /\ <<".ts", ".tsx", ".js", ".jsx", ".mjs", ".cjs">> \in [1..6 -> SourceSuffixes]
  BY DEF SourceSuffixes
<1> QED BY <1>1, FunctionIsSequence

LEMMA CandidatesTyped ==
  ASSUME NEW base \in Seq(Segments)
  PROVE  CandidatesOf(base) \in Seq(Seq(Segments))
<1> DEFINE AnyPath == Seq(Segments)
<1> HIDE DEF AnyPath
<1>1. <<>> \in Seq(AnyPath) /\ <<base>> \in Seq(AnyPath)
  BY DEF AnyPath
<1>2. CASE base = <<>> \/ Escapes(base)
  <2>1. CandidatesOf(base) = <<>>
    BY <1>2 DEF CandidatesOf
  <2> QED BY <1>1, <2>1 DEF AnyPath
<1>3. CASE ~(base = <<>> \/ Escapes(base))
  <2> DEFINE W2 == WithSuffixes(base, <<".ts", ".tsx">>)
             W6 == WithSuffixes(base, <<".ts", ".tsx", ".js", ".jsx", ".mjs", ".cjs">>)
             J4 == Indices(base, <<".ts", ".tsx", ".js", ".jsx">>)
  <2>1. CandidatesOf(base) \in {<<base>>, <<base>> \o W2, <<base>> \o W6 \o J4}
    BY <1>3 DEF CandidatesOf
  <2>2. W2 \in Seq(AnyPath) /\ W6 \in Seq(AnyPath) /\ J4 \in Seq(AnyPath)
    BY <1>3, Literals, SuffixedTyped DEF AnyPath
  <2> HIDE DEF W2, W6, J4
  <2>3. <<base>> \o W2 \in Seq(AnyPath) /\ <<base>> \o W6 \in Seq(AnyPath)
    BY <1>1, <2>2, ConcatProperties
  <2>4. <<base>> \o W6 \o J4 \in Seq(AnyPath)
    BY <2>2, <2>3, ConcatProperties
  <2> QED BY <1>1, <2>1, <2>3, <2>4 DEF AnyPath
<1> QED BY <1>2, <1>3

\* Normalizing a path yields a path.
LEMMA FoldsOfSegments ==
  ASSUME NEW base \in Seq(Segments), NEW seq \in Seq(Segments)
  PROVE  FoldLeft(Enter, base, seq) \in Seq(Segments)
<1> DEFINE D == DOMAIN seq
           R == Seq(Segments)
           Step(it, s) == IF s = {} THEN base ELSE Enter(it[s \ {Max(s)}], seq[Max(s)])
           op == [k \in D |-> [r \in R |-> Enter(r, seq[k])]]
           pick == [s \in SUBSET D |-> Max(s)]
           Solution == CHOOSE it : it = [s \in SUBSET D |-> Step(it, s)]
<1>1. FoldLeft(Enter, base, seq) = Solution[D]
  BY DEF FoldLeft, MapThenFoldSet
<1>2. ASSUME NEW s \in SUBSET D, s # {} PROVE Max(s) \in s
  <2>1. Len(seq) \in Nat /\ s \in SUBSET (0..Len(seq))
    OBVIOUS
  <2> QED
    BY <1>2, <2>1, MaxIs
<1>3. ASSUME NEW k \in D, NEW r \in R PROVE Enter(r, seq[k]) \in R
  <2>1. seq[k] \in Segments
    OBVIOUS
  <2>2. r # <<>> => Front(r) \in R
    BY DEF Front
  <2> QED
    BY <2>1, <2>2 DEF Enter
<1>4. \A k \in D, r \in R : op[k][r] = Enter(r, seq[k]) /\ op[k][r] \in R
  BY <1>3
<1>5. \A s \in SUBSET D : pick[s] = Max(s) /\ (s # {} => Max(s) \in s)
  BY <1>2
<1> HIDE DEF op, pick
<1>6. PICK it : Solves(D, R, base, op, pick, it)
  <2>1. IsFiniteSet(D)
    BY FS_Interval
  <2>2. Foldable(D, R, base, op, pick)
    BY <1>4, <1>5, <2>1 DEF Foldable
  <2> HIDE DEF D, R
  <2> QED
    BY <2>2, FoldDefines
<1>7. it = [s \in SUBSET D |-> Step(it, s)]
  <2>1. ASSUME NEW s \in SUBSET D PROVE it[s] = Step(it, s)
    <3>1. it[s] = Taking(base, op, pick, it, s)
      BY <1>6 DEF Solves
    <3>2. CASE s = {}
      BY <3>1, <3>2 DEF Taking
    <3>3. CASE s # {}
      <4>1. it[s \ {Max(s)}] \in R
        BY <1>6 DEF Solves
      <4> QED
        BY <1>4, <1>5, <3>1, <3>3, <4>1 DEF Taking
    <3> QED
      BY <3>2, <3>3
  <2> HIDE DEF Step
  <2> QED
    BY <1>6, <2>1 DEF Solves
<1>8. Solution = [s \in SUBSET D |-> Step(Solution, s)]
  BY <1>7
<1> HIDE DEF Solution
<1>9. Solution[D] = it[D]
  <2>1. ASSUME NEW s \in SUBSET D, s = {} \/ Solution[s \ {pick[s]}] \in R
        PROVE  Solution[s] = Taking(base, op, pick, Solution, s)
    <3>1. Solution[s] = Step(Solution, s)
      BY <1>8
    <3>2. CASE s = {}
      BY <3>1, <3>2 DEF Taking
    <3>3. CASE s # {}
      BY <1>4, <1>5, <2>1, <3>1, <3>3 DEF Taking
    <3> QED
      BY <3>2, <3>3
  <2> QED
    BY <1>6, <2>1 DEF Solves
<1> QED
  BY <1>1, <1>6, <1>9 DEF Solves
LEMMA NormalizedTyped == Normalized \in [Files \X DOMAIN Specifiers -> Seq(Segments)]
<1>1. ASSUME NEW u \in Files \X DOMAIN Specifiers
      PROVE  FoldLeft(Enter, Front(u[1]), Specifiers[u[2]]) \in Seq(Segments)
  <2>1. u[1] \in Seq(Segments) /\ u[1] # <<>>
    BY GenomeAssumption
  <2>2. Specifiers[u[2]] \in Seq(Segments)
    <3> DEFINE AnyPath == Seq(Segments)
    <3>1. Specifiers \in Seq(AnyPath) /\ u[2] \in DOMAIN Specifiers
      BY GenomeAssumption
    <3> HIDE DEF AnyPath
    <3>2. Specifiers[u[2]] \in AnyPath
      BY <3>1, LenProperties
    <3> QED
      BY <3>2 DEF AnyPath
  <2>3. Front(u[1]) \in Seq(Segments)
    BY <2>1 DEF Front
  <2> QED
    BY <2>2, <2>3, FoldsOfSegments
<1> QED
  BY <1>1 DEF Normalized

LEMMA ImportsTyped ==
  ASSUME NEW u \in Files \X DOMAIN Specifiers
  PROVE  /\ Normalized[u] \in Seq(Segments)
         /\ Specifiers[u[2]] \in Seq(Segments) /\ Specifiers[u[2]] # <<>>
         /\ ImportCandidates[u] \in Seq(Seq(Segments))
         /\ ImportCandidates[u] =
              IF Relative(Specifiers[u[2]]) THEN CandidatesOf(Normalized[u]) ELSE <<>>
<1>1. Normalized[u] \in Seq(Segments) /\ Specifiers[u[2]] \in Seq(Segments) /\ Specifiers[u[2]] # <<>>
  <2> DEFINE AnyPath == Seq(Segments)
  <2> HIDE DEF AnyPath
  <2>1. Specifiers \in Seq(AnyPath) /\ Normalized \in [Files \X DOMAIN Specifiers -> AnyPath]
    BY GenomeAssumption, NormalizedTyped DEF AnyPath
  <2>2. Specifiers \in [DOMAIN Specifiers -> AnyPath]
    BY <2>1, LenProperties
  <2>3. Specifiers[u[2]] # <<>>
    BY GenomeAssumption
  <2> QED BY <2>1, <2>2, <2>3 DEF AnyPath
<1>2. ImportCandidates[u] =
        IF Relative(Specifiers[u[2]]) THEN CandidatesOf(Normalized[u]) ELSE <<>>
  BY DEF ImportCandidates
<1>3. CandidatesOf(Normalized[u]) \in Seq(Seq(Segments)) /\ <<>> \in Seq(Seq(Segments))
  BY <1>1, CandidatesTyped, EmptySeq
<1> QED BY <1>1, <1>2, <1>3

-----------------------------------------------------------------------------
(* Targets                                                                  *)

\* An import leads to the first of its candidates that the tree has; without one, to what its
\* specifier says, whatever the tree.
LEMMA TargetIs ==
  ASSUME NEW tree, NEW f \in Files, NEW i \in DOMAIN Specifiers
  PROVE  LET candidates == ImportCandidates[<<f, i>>]
             first == FirstKnown(candidates, tree.files)
             target == Target(tree, f, i)
         IN /\ first \in 0..Len(candidates)
            /\ first # 0 => /\ candidates[first] \in tree.files
                            /\ target = FileNode(candidates[first])
            /\ first = 0 => \/ target = Unresolved
                            \/ target.kind = "ASSET" \/ target.kind = "EXTERNAL"
<1> DEFINE candidates == ImportCandidates[<<f, i>>]
           first == FirstKnown(candidates, tree.files)
<1>1. Len(candidates) \in Nat
  BY ImportsTyped, LenProperties
<1>2. first \in 0..Len(candidates) /\ (first # 0 => candidates[first] \in tree.files)
  BY <1>1, FirstKnownIsFirst
<1>3. first # 0 => Target(tree, f, i) = FileNode(candidates[first])
  BY DEF Target
<1>4. first = 0 => \/ Target(tree, f, i) = Unresolved
                   \/ Target(tree, f, i).kind = "ASSET" \/ Target(tree, f, i).kind = "EXTERNAL"
  BY DEF Target, Node
<1> QED BY <1>2, <1>3, <1>4

\* An import is redirected only by the file that it leads to now, which is new, or by the file
\* that it led to before, which is gone.
LEMMA TargetFollows ==
  ASSUME NEW before, NEW after, NEW f \in Files, NEW i \in DOMAIN Specifiers,
         Target(before, f, i) # Target(after, f, i)
  PROVE  \/ Target(after, f, i) \in {FileNode(g) : g \in after.files \ before.files}
         \/ Target(before, f, i) \in {FileNode(g) : g \in before.files \ after.files}
<1> DEFINE c == ImportCandidates[<<f, i>>]
           b == FirstKnown(c, before.files)
           a == FirstKnown(c, after.files)
<1>1. Len(c) \in Nat
  BY ImportsTyped, LenProperties
<1>2. /\ b \in 0..Len(c) /\ a \in 0..Len(c)
      /\ b = 0 => \A k \in 1..Len(c) : c[k] \notin before.files
      /\ a = 0 => \A k \in 1..Len(c) : c[k] \notin after.files
      /\ b # 0 => c[b] \in before.files /\ \A k \in 1..Len(c) : c[k] \in before.files => b <= k
      /\ a # 0 => c[a] \in after.files /\ \A k \in 1..Len(c) : c[k] \in after.files => a <= k
  BY <1>1, FirstKnownIsFirst
<1>3. /\ b # 0 => Target(before, f, i) = FileNode(c[b])
      /\ a # 0 => Target(after, f, i) = FileNode(c[a])
  BY DEF Target
<1>4. a # b
  BY DEF Target
<1> HIDE DEF a, b
<1>5. CASE a # 0 /\ c[a] \notin before.files
  BY <1>2, <1>3, <1>5
<1>6. CASE b # 0 /\ c[b] \notin after.files
  BY <1>2, <1>3, <1>6
<1>7. CASE (a # 0 => c[a] \in before.files) /\ (b # 0 => c[b] \in after.files)
  BY <1>1, <1>2, <1>4, <1>7
<1> QED BY <1>5, <1>6, <1>7

\* What an import resolves to is a node that a graph may have.
LEMMA TargetTyped ==
  ASSUME NEW tree, tree.files \subseteq Files, NEW f \in Files, NEW i \in DOMAIN Specifiers,
         Target(tree, f, i) # Unresolved
  PROVE  Target(tree, f, i) \in AnyNode
<1> DEFINE target == Target(tree, f, i)
           first == FirstKnown(ImportCandidates[<<f, i>>], tree.files)
           Names == {Specifiers[k] : k \in DOMAIN Specifiers}
                      \cup {Normalized[u] : u \in Files \X DOMAIN Specifiers}
<1>1. CASE first # 0
  <2>1. target \in {FileNode(g) : g \in Files}
    BY <1>1, TargetIs
  <2> QED BY <2>1 DEF AnyNode
<1>2. CASE first = 0
  <2>1. Specifiers[i] \in Names /\ Normalized[<<f, i>>] \in Names
    OBVIOUS
  <2>2. \E kind \in {"ASSET", "EXTERNAL"}, p \in Names : target = Node(kind, p, 0)
    BY <1>2, <2>1 DEF Target
  <2> HIDE DEF Names
  <2>3. target \in {Node(kind, p, 0) : kind \in {"ASSET", "EXTERNAL"}, p \in Names}
    BY <2>2
  <2> QED BY <2>3 DEF AnyNode, Names
<1> QED BY <1>1, <1>2

\* An import in a tree leads to a node of its graph, if it is resolved.
LEMMA TargetInGraph ==
  ASSUME NEW tree, tree.files \subseteq Files, NEW u \in ImportsOf(tree),
         Target(tree, u[1], u[2]) # Unresolved
  PROVE  Target(tree, u[1], u[2]) \in Nodes(tree)
<1> DEFINE target == Target(tree, u[1], u[2])
           first == FirstKnown(ImportCandidates[<<u[1], u[2]>>], tree.files)
<1>1. u[1] \in Files /\ u[2] \in DOMAIN Specifiers
  BY DEF ImportsOf
<1>2. CASE first # 0
  <2>1. target \in {FileNode(g) : g \in tree.files}
    BY <1>1, <1>2, TargetIs
  <2> QED BY <2>1 DEF Nodes
<1>3. CASE first = 0
  <2>1. target.kind \in {"ASSET", "EXTERNAL"}
    BY <1>1, <1>3, TargetIs
  <2>2. target \in Modules(tree)
    BY <2>1 DEF Modules, Targets
  <2> QED BY <2>2 DEF Nodes
<1> QED BY <1>2, <1>3

\* What is stored as evidence.
LEMMA StoredEvidence ==
  ASSUME NEW tree
  PROVE  /\ \A f \in tree.files : Evidence("file", f, 0) \in EvidenceSet(tree)
         /\ \A n \in SymbolNodes(tree) : Evidence("symbol", n.path, n.line) \in EvidenceSet(tree)
         /\ \A f \in tree.files : \A x \in Exports[f] :
              x.name \in {s.name : s \in Symbols[f]} => Evidence("export", f, x.line) \in EvidenceSet(tree)
         /\ \A u \in ImportsOf(tree) : Evidence("import", u[1], u[2]) \in EvidenceSet(tree)
<1> DEFINE A == {Evidence("file", f, 0) : f \in tree.files}
           B == {Evidence("symbol", n.path, n.line) : n \in SymbolNodes(tree)}
           E(f) == {Evidence("export", f, x.line) :
                      x \in {x \in Exports[f] : x.name \in {s.name : s \in Symbols[f]}}}
           C == UNION {E(f) : f \in tree.files}
           D == {Evidence("import", u[1], u[2]) : u \in ImportsOf(tree)}
           F == {Evidence("diagnostic", f, 0) : f \in tree.files \cap Broken}
<1>1. EvidenceSet(tree) = A \cup B \cup C \cup D \cup F
  BY DEF EvidenceSet
<1>2. \A f \in tree.files : \A x \in Exports[f] :
        x.name \in {s.name : s \in Symbols[f]} => Evidence("export", f, x.line) \in C
  <2> SUFFICES ASSUME NEW f \in tree.files, NEW x \in Exports[f], x.name \in {s.name : s \in Symbols[f]}
               PROVE  Evidence("export", f, x.line) \in C
    BY Zenon
  <2>1. Evidence("export", f, x.line) \in E(f)
    OBVIOUS
  <2> HIDE DEF E
  <2> QED BY <2>1
<1>3. /\ \A f \in tree.files : Evidence("file", f, 0) \in A
      /\ \A n \in SymbolNodes(tree) : Evidence("symbol", n.path, n.line) \in B
      /\ \A u \in ImportsOf(tree) : Evidence("import", u[1], u[2]) \in D
  OBVIOUS
<1> HIDE DEF A, B, C, D, F
<1> QED BY <1>1, <1>2, <1>3

\* The edges of a graph join its nodes, and their evidence is stored.
LEMMA EdgesClosed ==
  ASSUME NEW tree, tree.files \subseteq Files, NEW e \in Edges(tree)
  PROVE  {e.from, e.to} \subseteq Nodes(tree) /\ e.evidence \in EvidenceSet(tree)
<1>1. CASE e \in ImportEdges(tree)
  <2>1. PICK u \in ImportsOf(tree) :
          /\ Target(tree, u[1], u[2]) # Unresolved
          /\ e = Edge("IMPORTS", FileNode(u[1]), Target(tree, u[1], u[2]), Evidence("import", u[1], u[2]))
    BY <1>1 DEF ImportEdges
  <2>2. FileNode(u[1]) \in Nodes(tree)
    BY DEF ImportsOf, Nodes
  <2>3. Evidence("import", u[1], u[2]) \in EvidenceSet(tree)
    BY StoredEvidence
  <2> QED BY <2>1, <2>2, <2>3, TargetInGraph DEF Edge
<1>2. CASE e \in SymbolEdges(tree)
  <2>1. PICK n \in SymbolNodes(tree) :
          LET f == n.path
              name == (CHOOSE s \in Symbols[f] : s.line = n.line).name
              lines == {x.line : x \in {x \in Exports[f] : x.name = name}}
          IN e \in {Edge("DECLARES", FileNode(f), n, Evidence("symbol", f, n.line))}
                     \cup {Edge("EXPORTS", FileNode(f), n, Evidence("export", f, l)) :
                             l \in {l \in lines : \A k \in lines : k <= l}}
    BY <1>2 DEF SymbolEdges
  <2> DEFINE f == n.path
             s == CHOOSE s \in Symbols[f] : s.line = n.line
  <2>2. f \in tree.files /\ \E t \in Symbols[f] : t.line = n.line
    <3>1. PICK g \in tree.files : n \in {Node("SYMBOL", g, t.line) : t \in Symbols[g]}
      BY DEF SymbolNodes
    <3> QED BY <3>1 DEF Node
  <2>3. s \in Symbols[f]
    BY <2>2
  <2>4. FileNode(f) \in Nodes(tree) /\ n \in Nodes(tree)
    BY <2>2 DEF Nodes
  <2>5. CASE e = Edge("DECLARES", FileNode(f), n, Evidence("symbol", f, n.line))
    <3>1. Evidence("symbol", f, n.line) \in EvidenceSet(tree)
      BY StoredEvidence
    <3> QED BY <2>4, <2>5, <3>1 DEF Edge
  <2>6. ASSUME NEW x \in Exports[f], x.name = s.name,
               e = Edge("EXPORTS", FileNode(f), n, Evidence("export", f, x.line))
        PROVE  {e.from, e.to} \subseteq Nodes(tree) /\ e.evidence \in EvidenceSet(tree)
    <3>1. x.name \in {t.name : t \in Symbols[f]}
      BY <2>3, <2>6
    <3>2. Evidence("export", f, x.line) \in EvidenceSet(tree)
      BY <2>2, <3>1, StoredEvidence
    <3> QED BY <2>4, <2>6, <3>2 DEF Edge
  <2> QED BY <2>1, <2>5, <2>6
<1> QED BY <1>1, <1>2 DEF Edges

\* So is the evidence of its nodes.
LEMMA NodesShown ==
  ASSUME NEW tree, tree.files \subseteq Files, NEW n \in Nodes(tree)
  PROVE  EvidenceOf(tree, n) \subseteq EvidenceSet(tree)
<1>1. CASE n \in {FileNode(f) : f \in tree.files}
  BY <1>1, StoredEvidence DEF FileNode, Node, EvidenceOf
<1>2. CASE n \in SymbolNodes(tree)
  <2>1. n.kind = "SYMBOL"
    BY <1>2 DEF SymbolNodes, Node
  <2>2. Evidence("symbol", n.path, n.line) \in EvidenceSet(tree)
    BY <1>2, StoredEvidence
  <2> QED BY <2>1, <2>2 DEF EvidenceOf
<1>3. CASE n \in Modules(tree)
  <2>1. n.kind \in {"ASSET", "EXTERNAL"}
    BY <1>3 DEF Modules
  <2>2. EvidenceOf(tree, n) = {Evidence("import", u[1], u[2]) : u \in ImportersOf(tree, n)}
    BY <2>1 DEF EvidenceOf
  <2>3. ImportersOf(tree, n) \subseteq ImportsOf(tree)
    BY DEF ImportersOf
  <2> QED BY <2>2, <2>3, StoredEvidence
<1> QED BY <1>1, <1>2, <1>3 DEF Nodes

-----------------------------------------------------------------------------
(* Types                                                                    *)

\* A repository has finitely many nodes.
LEMMA AnyNodeFinite == IsFiniteSet(AnyNode)
<1>1. IsFiniteSet({FileNode(f) : f \in Files})
  <2> DEFINE g == [f \in Files |-> FileNode(f)]
  <2>1. IsFiniteSet({g[f] : f \in Files})
    BY GenomeAssumption, ImageFinite
  <2>2. {g[f] : f \in Files} = {FileNode(f) : f \in Files}
    OBVIOUS
  <2> QED BY <2>1, <2>2
<1>2. IsFiniteSet(UNION {{Node("SYMBOL", f, s.line) : s \in Symbols[f]} : f \in Files})
  <2> DEFINE N(f) == {Node("SYMBOL", f, s.line) : s \in Symbols[f]}
             h == [f \in Files |-> N(f)]
  <2>1. ASSUME NEW f \in Files PROVE IsFiniteSet(N(f))
    <3> DEFINE g == [s \in Symbols[f] |-> Node("SYMBOL", f, s.line)]
    <3>1. IsFiniteSet({g[s] : s \in Symbols[f]})
      BY GenomeAssumption, ImageFinite
    <3>2. {g[s] : s \in Symbols[f]} = N(f)
      OBVIOUS
    <3> QED BY <3>1, <3>2
  <2> HIDE DEF N
  <2>2. IsFiniteSet({h[f] : f \in Files})
    BY GenomeAssumption, ImageFinite
  <2>3. {h[f] : f \in Files} = {N(f) : f \in Files}
    OBVIOUS
  <2>4. IsFiniteSet(UNION {N(f) : f \in Files})
    BY <2>1, <2>2, <2>3, FS_UNION
  <2> QED BY <2>4 DEF N
<1> DEFINE Specs == {Specifiers[i] : i \in DOMAIN Specifiers}
           Bases == {Normalized[u] : u \in Files \X DOMAIN Specifiers}
           Kinds == {"ASSET", "EXTERNAL"}
           Modes == {Node(kind, p, 0) : kind \in Kinds, p \in Specs \cup Bases}
<1>3. IsFiniteSet(Specs \cup Bases)
  <2>1. IsFiniteSet(DOMAIN Specifiers)
    <3>1. DOMAIN Specifiers = 1..Len(Specifiers) /\ Len(Specifiers) \in Nat
      BY GenomeAssumption, LenProperties
    <3> QED BY <3>1, FS_Interval
  <2>2. IsFiniteSet(Files \X DOMAIN Specifiers)
    BY <2>1, GenomeAssumption, FS_Product
  <2>3. IsFiniteSet(Specs)
    BY <2>1, ImageFinite
  <2>4. IsFiniteSet(Bases)
    BY <2>2, ImageFinite
  <2> QED BY <2>3, <2>4, FS_Union
<1>4. IsFiniteSet(Modes)
  <2>1. IsFiniteSet(Kinds)
    <3>1. IsFiniteSet({"EXTERNAL"}) /\ IsFiniteSet({"ASSET"})
      BY FS_Singleton
    <3>2. Kinds = {"ASSET"} \cup {"EXTERNAL"}
      OBVIOUS
    <3> QED BY <3>1, <3>2, FS_Union
  <2> HIDE DEF Specs, Bases, Kinds
  <2> DEFINE P == Kinds \X (Specs \cup Bases)
             g == [x \in P |-> Node(x[1], x[2], 0)]
  <2>2. IsFiniteSet(P)
    BY <1>3, <2>1, FS_Product
  <2>3. Modes = {g[x] : x \in P}
    <3>1. ASSUME NEW kind \in Kinds, NEW p \in Specs \cup Bases
          PROVE  Node(kind, p, 0) = g[<<kind, p>>] /\ <<kind, p>> \in P
      OBVIOUS
    <3>2. ASSUME NEW x \in P PROVE g[x] = Node(x[1], x[2], 0) /\ x[1] \in Kinds /\ x[2] \in Specs \cup Bases
      OBVIOUS
    <3> HIDE DEF P, g
    <3>3. Modes \subseteq {g[x] : x \in P}
      <4> SUFFICES ASSUME NEW kind \in Kinds, NEW p \in Specs \cup Bases
                   PROVE  Node(kind, p, 0) \in {g[x] : x \in P}
        OBVIOUS
      <4> QED BY <3>1
    <3>4. {g[x] : x \in P} \subseteq Modes
      <4> SUFFICES ASSUME NEW x \in P PROVE g[x] \in Modes
        OBVIOUS
      <4> QED BY <3>2
    <3> QED BY <3>3, <3>4
  <2> HIDE DEF P, g
  <2>4. IsFiniteSet({g[x] : x \in P})
    BY <2>2, ImageFinite
  <2> QED BY <2>3, <2>4
<1> HIDE DEF Kinds, Modes
<1>5. AnyNode = {FileNode(f) : f \in Files}
                  \cup (UNION {{Node("SYMBOL", f, s.line) : s \in Symbols[f]} : f \in Files})
                  \cup Modes
  BY DEF AnyNode, Kinds, Modes
<1> QED BY <1>1, <1>2, <1>4, <1>5, FS_Union

\* The graph of a tree has nodes and edges that a graph may have.
LEMMA GraphTyped ==
  ASSUME NEW tree, tree.files \subseteq Files
  PROVE  Nodes(tree) \subseteq AnyNode /\ Edges(tree) \subseteq AnyEdge
<1>1. \A n \in SymbolNodes(tree) :
        /\ n \in AnyNode /\ n.path \in tree.files
        /\ \E s \in Symbols[n.path] : n.line = s.line
  <2> SUFFICES ASSUME NEW f \in tree.files, NEW s \in Symbols[f]
               PROVE  LET n == Node("SYMBOL", f, s.line) IN
                      n \in AnyNode /\ n.path = f /\ n.line = s.line
    BY DEF SymbolNodes
  <2>1. Node("SYMBOL", f, s.line) \in {Node("SYMBOL", f, t.line) : t \in Symbols[f]}
    OBVIOUS
  <2>2. Node("SYMBOL", f, s.line) \in UNION {{Node("SYMBOL", g, t.line) : t \in Symbols[g]} : g \in Files}
    BY <2>1
  <2>3. Node("SYMBOL", f, s.line) \in AnyNode
    BY <2>2 DEF AnyNode
  <2> QED BY <2>3 DEF Node
<1>2. Nodes(tree) \subseteq AnyNode
  <2>1. {FileNode(f) : f \in tree.files} \subseteq AnyNode
    BY DEF AnyNode
  <2>2. ASSUME NEW n \in Modules(tree) PROVE n \in AnyNode
    <3>1. PICK u \in ImportsOf(tree) : n = Target(tree, u[1], u[2]) /\ n.kind \in {"ASSET", "EXTERNAL"}
      BY DEF Modules, Targets
    <3>2. u[1] \in Files /\ u[2] \in DOMAIN Specifiers /\ n # Unresolved
      BY <3>1 DEF ImportsOf, Unresolved, Node
    <3> QED BY <3>1, <3>2, TargetTyped
  <2> QED BY <1>1, <2>1, <2>2 DEF Nodes
<1>3. ASSUME NEW e \in ImportEdges(tree) PROVE e \in AnyEdge
  <2>1. PICK u \in ImportsOf(tree) :
          /\ Target(tree, u[1], u[2]) # Unresolved
          /\ e = Edge("IMPORTS", FileNode(u[1]), Target(tree, u[1], u[2]), Evidence("import", u[1], u[2]))
    BY <1>3 DEF ImportEdges
  <2>2. u[1] \in Files /\ u[1] \in tree.files /\ u[2] \in DOMAIN Specifiers /\ u[2] \in Nat
    <3>1. DOMAIN Specifiers = 1..Len(Specifiers)
      BY GenomeAssumption, LenProperties
    <3> QED BY <3>1 DEF ImportsOf
  <2>3. FileNode(u[1]) \in AnyNode /\ Target(tree, u[1], u[2]) \in AnyNode
    BY <1>2, <2>1, <2>2, TargetTyped DEF Nodes
  <2>4. Evidence("import", u[1], u[2]) \in AnyEvidence
    BY <2>2 DEF Evidence, AnyEvidence
  <2> QED BY <2>1, <2>3, <2>4 DEF Edge, AnyEdge
<1>4. ASSUME NEW e \in SymbolEdges(tree) PROVE e \in AnyEdge
  <2>1. PICK n \in SymbolNodes(tree) :
          LET f == n.path
              name == (CHOOSE s \in Symbols[f] : s.line = n.line).name
              lines == {x.line : x \in {x \in Exports[f] : x.name = name}}
          IN e \in {Edge("DECLARES", FileNode(f), n, Evidence("symbol", f, n.line))}
                     \cup {Edge("EXPORTS", FileNode(f), n, Evidence("export", f, l)) :
                             l \in {l \in lines : \A k \in lines : k <= l}}
    BY <1>4 DEF SymbolEdges
  <2> DEFINE f == n.path
  <2>2. /\ n \in AnyNode /\ f \in tree.files /\ f \in Files /\ n.line \in Nat
        /\ \A x \in Exports[f] : x.line \in Nat
    BY <1>1, GenomeAssumption
  <2>3. FileNode(f) \in AnyNode
    BY <1>2, <2>2 DEF Nodes
  <2>4. PICK kind \in {"DECLARES", "EXPORTS"}, origin \in {"symbol", "export"}, l \in Nat :
          e = Edge(kind, FileNode(f), n, Evidence(origin, f, l))
    BY <2>1, <2>2
  <2>5. Evidence(origin, f, l) \in AnyEvidence
    BY <2>2 DEF Evidence, AnyEvidence
  <2> QED BY <2>2, <2>3, <2>4, <2>5 DEF Edge, AnyEdge
<1> QED BY <1>2, <1>3, <1>4 DEF Edges

\* The type of a client that reads.
Walk == [pc : {"idle", "more", "done"}, pinned : BOOLEAN, offset : Nat,
         scopes : SUBSET Nat, seen : SUBSET AnyNode, twice : BOOLEAN,
         edges : SUBSET AnyEdge, limited : BOOLEAN]

\* A page is read by a client of that type, from a published snapshot.
LEMMA PageTyped ==
  ASSUME TypeOK, NEW w \in Walk, published # <<>>, w.scopes \subseteq DOMAIN published, GetPage(w)
  PROVE  walk' \in Walk /\ Answering(w) \in DOMAIN published
<1>1. DOMAIN published = 1..Len(published) /\ Len(published) \in Nat \ {0}
  BY EmptySeq, LenProperties DEF TypeOK
<1>2. Answering(w) \in DOMAIN published
  BY <1>1 DEF Answering
<1>3. published[Answering(w)].nodes \subseteq AnyNode /\ published[Answering(w)].edges \subseteq AnyEdge
  <2>1. published \in [DOMAIN published -> [nodes : SUBSET AnyNode, edges : SUBSET AnyEdge]]
    BY LenProperties DEF TypeOK
  <2> QED BY <1>2, <2>1
<1>4. PageSize \in Nat /\ w.offset + PageSize \in Nat
  <2>1. PageSize \in Nat
    BY GenomeAssumption
  <2>2. w.offset \in Nat
    BY DEF Walk
  <2> QED BY <2>1, <2>2
<1>5. Page(published[Answering(w)].nodes, w.offset) \subseteq AnyNode
  BY <1>3 DEF Page
<1>6. /\ w.pinned \in BOOLEAN /\ w.twice \in BOOLEAN /\ w.limited \in BOOLEAN
      /\ w.scopes \subseteq Nat /\ w.seen \subseteq AnyNode /\ w.edges \subseteq AnyEdge
  BY DEF Walk
<1>7. /\ w.scopes \cup {Answering(w)} \subseteq Nat
      /\ w.seen \cup Page(published[Answering(w)].nodes, w.offset) \subseteq AnyNode
  BY <1>1, <1>2, <1>5, <1>6
<1>10. w.edges \cup PageEdges(published[Answering(w)], w.offset) \subseteq AnyEdge
  BY <1>3, <1>6 DEF PageEdges
<1>8. walk' = [pc |-> IF HasMore(published[Answering(w)].nodes, w.offset) THEN "more" ELSE "done",
               pinned |-> w.pinned, offset |-> w.offset + PageSize,
               scopes |-> w.scopes \cup {Answering(w)},
               seen |-> w.seen \cup Page(published[Answering(w)].nodes, w.offset),
               twice |-> w.twice \/ w.seen \cap Page(published[Answering(w)].nodes, w.offset) # {},
               edges |-> w.edges \cup PageEdges(published[Answering(w)], w.offset),
               limited |-> w.limited \/ Limited(published[Answering(w)].nodes, w.offset)]
  BY DEF GetPage, Walk
<1>9. walk'.twice \in BOOLEAN /\ walk'.limited \in BOOLEAN
  BY <1>6, <1>8 DEF Limited, HasMore
<1> QED BY <1>2, <1>4, <1>6, <1>7, <1>8, <1>9, <1>10 DEF Walk

\* Every variable keeps its type, and every published graph is a graph of the repository.
LEMMA TypeStep ==
  ASSUME TypeOK, WalkInv, [Next]_vars
  PROVE  TypeOK'
<1>0. /\ files \subseteq Files /\ imports \in [Files -> SUBSET DOMAIN Specifiers] /\ edits \in 0..MaxEdits
      /\ published \in Seq([nodes : SUBSET AnyNode, edges : SUBSET AnyEdge]) /\ walk \in Walk
      /\ walk.scopes \subseteq DOMAIN published
  BY DEF TypeOK, Walk, WalkInv, Reads
<1>1. ASSUME NEW f \in Files, AddFile(f) \/ RemoveFile(f) PROVE TypeOK'
  <2>1. edits' \in 0..MaxEdits
    <3>1. MaxEdits \in Nat
      BY GenomeAssumption
    <3> QED BY <1>0, <1>1, <3>1 DEF AddFile, RemoveFile, Edit
  <2> QED BY <1>0, <1>1, <2>1 DEF AddFile, RemoveFile, Edit, TypeOK, Walk
<1>2. ASSUME NEW f \in Files, NEW i \in DOMAIN Specifiers, AddImport(f, i) PROVE TypeOK'
  <2>1. edits' \in 0..MaxEdits
    <3>1. MaxEdits \in Nat
      BY GenomeAssumption
    <3> QED BY <1>0, <1>2, <3>1 DEF AddImport, Edit
  <2> QED BY <1>0, <1>2, <2>1 DEF AddImport, Edit, TypeOK, Walk
<1>3. CASE Publish
  <2>1. Graph(Tree) \in [nodes : SUBSET AnyNode, edges : SUBSET AnyEdge]
    BY <1>0, GraphTyped DEF Graph, Tree
  <2>2. published' \in Seq([nodes : SUBSET AnyNode, edges : SUBSET AnyEdge])
    BY <1>0, <1>3, <2>1, AppendProperties DEF Publish
  <2> QED BY <1>0, <1>3, <2>2 DEF Publish, TypeOK, Walk
<1>4. CASE FirstPage
  <2>1. PICK pinned \in BOOLEAN : GetPage([NoWalk EXCEPT !.pinned = pinned])
    BY <1>4 DEF FirstPage
  <2>2. /\ [NoWalk EXCEPT !.pinned = pinned] \in Walk
        /\ [NoWalk EXCEPT !.pinned = pinned].scopes = {}
    BY DEF NoWalk, Walk
  <2>3. walk' \in Walk
    BY <1>4, <2>1, <2>2, PageTyped DEF FirstPage
  <2> QED BY <1>0, <1>4, <2>3 DEF FirstPage, TypeOK, Walk
<1>5. CASE NextPage
  <2>1. published # <<>>
    BY <1>0, <1>5 DEF NextPage, WalkInv
  <2>2. walk' \in Walk
    BY <1>0, <1>5, <2>1, PageTyped DEF NextPage
  <2> QED BY <1>0, <1>5, <2>2 DEF NextPage, TypeOK, Walk
<1>6. CASE UNCHANGED vars
  BY <1>0, <1>6 DEF vars, TypeOK, Walk
<1> QED BY <1>1, <1>2, <1>3, <1>4, <1>5, <1>6 DEF Next

-----------------------------------------------------------------------------
(* Pages                                                                    *)

\* The place of a node is behind others, never behind all.
LEMMA PlaceIs ==
  ASSUME NEW nodes \in SUBSET AnyNode, NEW n \in nodes
  PROVE  /\ Place(nodes, n) \in Nat /\ Cardinality(nodes) \in Nat
         /\ Place(nodes, n) < Cardinality(nodes)
<1> DEFINE S == {m \in nodes : Rank[m] < Rank[n]}
<1>1. IsFiniteSet(nodes)
  BY AnyNodeFinite, FS_Subset
<1>2. n \notin S
  <2>1. Rank[n] \in Int
    BY RankAssumption
  <2> QED BY <2>1
<1>3. S \in SUBSET nodes
  OBVIOUS
<1> HIDE DEF S
<1>4. /\ IsFiniteSet(S) /\ Cardinality(S) <= Cardinality(nodes)
      /\ Cardinality(S) = Cardinality(nodes) => S = nodes
  BY <1>1, <1>3, FS_Subset
<1>5. Cardinality(S) \in Nat /\ Cardinality(nodes) \in Nat
  BY <1>1, <1>4, FS_CardinalityType
<1>6. Cardinality(S) < Cardinality(nodes)
  BY <1>2, <1>4, <1>5
<1> QED BY <1>5, <1>6 DEF S, Place

\* A page shows what comes next, and the last page what is left.
LEMMA PageExtends ==
  ASSUME NEW nodes \in SUBSET AnyNode, NEW offset \in Nat
  PROVE  /\ Shown(nodes, offset) \cup Page(nodes, offset) = Shown(nodes, offset + PageSize)
         /\ Shown(nodes, offset) \cap Page(nodes, offset) = {}
         /\ ~HasMore(nodes, offset) => Cardinality(nodes) <= offset + PageSize
         /\ Shown(nodes, 0) = {}
<1>1. PageSize \in Nat \ {0}
  BY GenomeAssumption
<1>2. \A n \in nodes : Place(nodes, n) \in Nat
  BY PlaceIs
<1>3. Cardinality(nodes) \in Nat
  BY AnyNodeFinite, FS_Subset, FS_CardinalityType
<1>4. ASSUME NEW n \in nodes
      PROVE  /\ Place(nodes, n) < offset + PageSize
                 <=> Place(nodes, n) < offset \/ Place(nodes, n) \in offset..offset + PageSize - 1
             /\ ~(Place(nodes, n) < offset /\ Place(nodes, n) \in offset..offset + PageSize - 1)
             /\ ~(Place(nodes, n) < 0)
  BY <1>1, <1>2
<1> QED BY <1>1, <1>3, <1>4 DEF Shown, Page, HasMore

\* Behind the last node, everything was shown.
LEMMA AllShown ==
  ASSUME NEW nodes \in SUBSET AnyNode, NEW offset \in Nat, Cardinality(nodes) <= offset
  PROVE  Shown(nodes, offset) = nodes
<1>1. ASSUME NEW n \in nodes PROVE Place(nodes, n) < offset
  BY PlaceIs
<1> QED BY <1>1 DEF Shown

\* The edges of a page are edges of the graph, and all of them if it names no limitation.
LEMMA PageDraws ==
  ASSUME NEW graph, graph.nodes \in SUBSET AnyNode, NEW offset \in Nat,
         \A e \in graph.edges : {e.from, e.to} \subseteq graph.nodes
  PROVE  /\ PageEdges(graph, offset) \subseteq graph.edges
         /\ ~Limited(graph.nodes, offset) => PageEdges(graph, offset) = graph.edges
<1> SUFFICES ASSUME ~Limited(graph.nodes, offset) PROVE Page(graph.nodes, offset) = graph.nodes
  BY DEF PageEdges
<1> DEFINE nodes == graph.nodes
<1>1. PageSize \in Nat \ {0}
  BY GenomeAssumption
<1>2. offset = 0 /\ ~HasMore(nodes, 0)
  BY <1>1 DEF Limited
<1> HIDE DEF nodes
<1>3. nodes \in SUBSET AnyNode
  BY DEF nodes
<1>4. Cardinality(nodes) <= 0 + PageSize
  BY <1>2, <1>3, PageExtends
<1>5. ASSUME NEW n \in nodes PROVE Place(nodes, n) \in 0..0 + PageSize - 1
  BY <1>1, <1>3, <1>4, PlaceIs
<1> QED BY <1>2, <1>5 DEF Page, nodes

\* What a page adds to what a client has read.
LEMMA PageReads ==
  ASSUME TypeOK, NEW w \in Walk, Reads(w), published # <<>>, GetPage(w), UNCHANGED published,
         \A s \in DOMAIN published : \A e \in published[s].edges :
           {e.from, e.to} \subseteq published[s].nodes
  PROVE  /\ Reads(walk)' /\ walk'.pc \in {"more", "done"} /\ walk'.scopes # {}
         /\ walk'.pc = "done" =>
              \A s \in walk'.scopes :
                walk'.scopes = {s} => Cardinality(published'[s].nodes) <= walk'.offset
<1> DEFINE s == Answering(w)
           nodes == published[s].nodes
<1>1. s \in DOMAIN published /\ walk' \in Walk
  BY PageTyped DEF Reads
<1>2. nodes \subseteq AnyNode
  <2>1. published \in [DOMAIN published -> [nodes : SUBSET AnyNode, edges : SUBSET AnyEdge]]
    BY LenProperties DEF TypeOK
  <2> QED BY <1>1, <2>1
<1>3. w.offset \in Nat
  BY DEF Walk
<1>4. /\ Shown(nodes, w.offset) \cup Page(nodes, w.offset) = Shown(nodes, w.offset + PageSize)
      /\ Shown(nodes, w.offset) \cap Page(nodes, w.offset) = {}
      /\ ~HasMore(nodes, w.offset) => Cardinality(nodes) <= w.offset + PageSize
      /\ Shown(nodes, 0) = {}
  BY <1>2, <1>3, PageExtends
<1>5. /\ walk'.pc = (IF HasMore(nodes, w.offset) THEN "more" ELSE "done")
      /\ walk'.pinned = w.pinned /\ walk'.offset = w.offset + PageSize
      /\ walk'.scopes = w.scopes \cup {s} /\ walk'.seen = w.seen \cup Page(nodes, w.offset)
      /\ walk'.twice = (w.twice \/ w.seen \cap Page(nodes, w.offset) # {})
      /\ walk'.edges = w.edges \cup PageEdges(published[s], w.offset)
      /\ walk'.limited = (w.limited \/ Limited(nodes, w.offset))
  BY DEF GetPage, Walk
<1>6. w.pinned /\ w.scopes # {} => s \in w.scopes
  BY DEF Answering
<1>13. /\ PageEdges(published[s], w.offset) \subseteq published[s].edges
       /\ ~Limited(nodes, w.offset) => PageEdges(published[s], w.offset) = published[s].edges
  <2>1. \A e \in published[s].edges : {e.from, e.to} \subseteq published[s].nodes
    BY <1>1
  <2> HIDE DEF s
  <2> QED BY <1>2, <1>3, <2>1, PageDraws
<1> HIDE DEF s, nodes
<1>7. walk'.scopes \subseteq DOMAIN published'
  BY <1>1, <1>5 DEF Reads
<1>8. \A r \in walk'.scopes : walk'.pinned => walk'.scopes = {r}
  BY <1>5, <1>6 DEF Reads
<1>9. ASSUME NEW r \in walk'.scopes, walk'.scopes = {r}
      PROVE  /\ r = s /\ w.seen = Shown(nodes, w.offset) /\ ~w.twice
             /\ w.edges = {} \/ Draws(w, published[s])
  <2>1. r = s /\ (w.scopes = {} \/ w.scopes = {s})
    BY <1>5, <1>9
  <2>2. CASE w.scopes = {}
    BY <1>4, <2>1, <2>2 DEF Reads
  <2>3. CASE w.scopes = {s}
    BY <2>1, <2>3 DEF Reads, nodes
  <2> QED BY <2>1, <2>2, <2>3
<1>10. ASSUME NEW r \in walk'.scopes, walk'.scopes = {r}
       PROVE  /\ walk'.seen = Shown(published'[r].nodes, walk'.offset) /\ ~walk'.twice
              /\ Draws(walk', published'[r])
              /\ walk'.pc = "done" => Cardinality(published'[r].nodes) <= walk'.offset
  <2>1. published'[r].nodes = nodes
    BY <1>9, <1>10 DEF nodes
  <2>2. w.seen = Shown(nodes, w.offset) /\ ~w.twice
    BY <1>9, <1>10
  <2>3. Draws(walk', published'[r])
    BY <1>5, <1>9, <1>10, <1>13 DEF Draws
  <2> QED BY <1>4, <1>5, <2>1, <2>2, <2>3
<1>11. walk'.scopes # {} /\ walk'.pc \in {"more", "done"}
  BY <1>5
<1>12. Reads(walk)'
  BY <1>7, <1>8, <1>10, <1>11 DEF Reads
<1> QED BY <1>10, <1>11, <1>12

\* What a client has read stays what it is while snapshots are added.
LEMMA WalkStep ==
  ASSUME TypeOK, WalkInv, [Next]_vars
  PROVE  WalkInv'
<1> DEFINE EdgesStay == \A s \in DOMAIN published : \A e \in published[s].edges :
                       {e.from, e.to} \subseteq published[s].nodes
           AtEnd == walk.pc = "done" =>
                      \A s \in walk.scopes :
                        walk.scopes = {s} => Cardinality(published[s].nodes) <= walk.offset
<1>0. walk \in Walk /\ EdgesStay /\ Reads(walk) /\ AtEnd
  BY DEF TypeOK, Walk, WalkInv
<1>1. CASE UNCHANGED <<published, walk>>
  BY <1>1 DEF WalkInv, Reads, Draws
<1>2. CASE Publish
  <2>1. /\ Len(published) \in Nat /\ DOMAIN published = 1..Len(published)
        /\ published \in Seq([nodes : SUBSET AnyNode, edges : SUBSET AnyEdge])
    BY LenProperties DEF TypeOK
  <2>2. Graph(Tree) \in [nodes : SUBSET AnyNode, edges : SUBSET AnyEdge]
    BY GraphTyped DEF TypeOK, Graph, Tree
  <2>3. /\ DOMAIN published' = 1..Len(published) + 1
        /\ \A s \in DOMAIN published : published'[s] = published[s]
        /\ published'[Len(published) + 1] = Graph(Tree)
    BY <1>2, <2>1, <2>2, AppendProperties, LenProperties DEF Publish
  <2>4. \A e \in Graph(Tree).edges : {e.from, e.to} \subseteq Graph(Tree).nodes
    BY EdgesClosed DEF Graph, Tree, TypeOK
  <2>5. EdgesStay'
    <3>1. ASSUME NEW s \in DOMAIN published' PROVE s \in DOMAIN published \/ s = Len(published) + 1
      BY <2>1, <2>3
    <3> QED BY <1>0, <2>3, <2>4, <3>1
  <2>6. UNCHANGED walk
    BY <1>2 DEF Publish
  <2>7. Reads(walk)'
    BY <1>0, <2>1, <2>3, <2>6 DEF Reads, Draws
  <2>8. AtEnd'
    BY <1>0, <2>3, <2>6 DEF Reads
  <2> QED BY <2>5, <2>6, <2>7, <2>8 DEF WalkInv
<1>3. CASE FirstPage
  <2>1. PICK pinned \in BOOLEAN : GetPage([NoWalk EXCEPT !.pinned = pinned])
    BY <1>3 DEF FirstPage
  <2> DEFINE w == [NoWalk EXCEPT !.pinned = pinned]
  <2>2. w \in Walk /\ Reads(w)
    BY DEF NoWalk, Walk, Reads
  <2>4. GetPage(w) /\ published # <<>> /\ UNCHANGED published
    BY <1>3, <2>1 DEF FirstPage
  <2> HIDE DEF w
  <2>3. /\ Reads(walk)' /\ walk'.pc \in {"more", "done"} /\ walk'.scopes # {} /\ AtEnd'
    BY <1>0, <2>2, <2>4, PageReads
  <2> QED BY <1>0, <1>3, <2>3 DEF FirstPage, WalkInv
<1>4. CASE NextPage
  <2>1. published # <<>>
    BY <1>4 DEF NextPage, WalkInv, Reads
  <2>2. /\ Reads(walk)' /\ walk'.pc \in {"more", "done"} /\ walk'.scopes # {} /\ AtEnd'
    BY <1>0, <1>4, <2>1, PageReads DEF NextPage
  <2> QED BY <1>0, <1>4, <2>2 DEF NextPage, WalkInv
<1> QED BY <1>1, <1>2, <1>3, <1>4 DEF Next, AddFile, RemoveFile, AddImport, Edit, vars

\* Types, closed snapshots, and a client's pages that neither repeat nor leave out a node.
THEOREM GenomeCorrect == Spec => [](TypeOK /\ WalkInv)
<1>1. Init => TypeOK /\ WalkInv
  <2> SUFFICES ASSUME Init PROVE TypeOK /\ WalkInv
    OBVIOUS
  <2>1. files \subseteq Files /\ imports \in [Files -> SUBSET DOMAIN Specifiers] /\ edits \in 0..MaxEdits
    <3>1. FirstFiles \subseteq Files /\ MaxEdits \in Nat
      BY GenomeAssumption
    <3> QED BY <3>1 DEF Init
  <2>2. /\ published \in Seq([nodes : SUBSET AnyNode, edges : SUBSET AnyEdge])
        /\ DOMAIN published = {}
    BY EmptySeq, LenProperties DEF Init
  <2>3. walk \in Walk
    BY DEF Init, NoWalk, Walk
  <2>4. WalkInv
    BY <2>2 DEF Init, NoWalk, WalkInv, Reads
  <2> QED BY <2>1, <2>2, <2>3, <2>4 DEF TypeOK, Walk
<1>2. TypeOK /\ WalkInv /\ [Next]_vars => (TypeOK /\ WalkInv)'
  BY TypeStep, WalkStep
<1> QED BY <1>1, <1>2, PTL DEF Spec

\* A client whose pages have one scope has edges of that snapshot only, all of them unless a
\* page has named the limitation, and at the last page every node of it once.
THEOREM WalksAreComplete == Spec => []WalkIsComplete
<1>1. TypeOK /\ WalkInv => WalkIsComplete
  <2> SUFFICES ASSUME TypeOK, WalkInv PROVE WalkIsComplete
    OBVIOUS
  <2>0. \A s \in DOMAIN published : published[s].nodes \in SUBSET AnyNode
    <3>1. published \in [DOMAIN published -> [nodes : SUBSET AnyNode, edges : SUBSET AnyEdge]]
      BY LenProperties DEF TypeOK
    <3> QED BY <3>1
  <2>1. ASSUME walk.pinned PROVE Cardinality(walk.scopes) = 1
    <3>1. PICK s \in walk.scopes : walk.scopes = {s}
      BY <2>1 DEF WalkInv, Reads
    <3> QED BY <3>1, FS_Singleton
  <2>2. ASSUME Cardinality(walk.scopes) = 1
        PROVE  \A s \in walk.scopes :
                 /\ Draws(walk, published[s])
                 /\ walk.pc = "done" => ~walk.twice /\ walk.seen = published[s].nodes
    <3>1. PICK s : walk.scopes = {s}
      <4>1. IsFiniteSet(walk.scopes)
        <5>1. IsFiniteSet(DOMAIN published)
          BY LenProperties, FS_Interval DEF TypeOK
        <5> QED BY <5>1, FS_Subset DEF WalkInv, Reads
      <4> QED BY <2>2, <4>1, FS_Singleton
    <3>2. /\ walk.seen = Shown(published[s].nodes, walk.offset) /\ ~walk.twice
          /\ Draws(walk, published[s])
      BY <3>1 DEF WalkInv, Reads
    <3>3. published[s].nodes \in SUBSET AnyNode
      BY <2>0, <3>1 DEF WalkInv, Reads
    <3>4. ASSUME walk.pc = "done" PROVE walk.seen = published[s].nodes
      <4>1. Cardinality(published[s].nodes) <= walk.offset /\ walk.offset \in Nat
        BY <3>1, <3>4 DEF WalkInv, TypeOK
      <4> QED BY <3>2, <3>3, <4>1, AllShown
    <3> QED BY <3>1, <3>2, <3>4
  <2> QED BY <2>1, <2>2 DEF WalkIsComplete
<1> QED BY <1>1, GenomeCorrect, PTL

-----------------------------------------------------------------------------
(* Graphs and imports                                                       *)

\* Whatever the tree, its graph is closed.
THEOREM GraphsAreClosed == Spec => []GraphIsClosed
<1>1. TypeOK => GraphIsClosed
  BY EdgesClosed, NodesShown DEF TypeOK, GraphIsClosed, Tree
<1> QED BY <1>1, GenomeCorrect, PTL

\* Whatever changes in the tree, an import is redirected only by what it leads to.
THEOREM ImportsFollow == Spec => ImportsFollowTheTree
<1> DEFINE Follow ==
      \A f \in files \cap files' : \A i \in imports[f] :
        LET before == Target(Tree, f, i)
            after == Target(Tree, f, i)'
        IN before # after =>
             \/ after \in {FileNode(g) : g \in files' \ files}
             \/ before \in {FileNode(g) : g \in files \ files'}
<1>1. TypeOK => Follow
  <2> SUFFICES ASSUME TypeOK, NEW f \in files \cap files', NEW i \in imports[f],
                      Target(Tree, f, i) # Target(Tree, f, i)'
               PROVE  \/ Target(Tree, f, i)' \in {FileNode(g) : g \in files' \ files}
                      \/ Target(Tree, f, i) \in {FileNode(g) : g \in files \ files'}
    BY Zenon
  <2>1. f \in Files /\ i \in DOMAIN Specifiers
    BY DEF TypeOK
  <2>2. Tree.files = files /\ Tree'.files = files'
    BY DEF Tree
  <2>3. Target(Tree, f, i)' = Target(Tree', f, i)
    OBVIOUS
  <2> QED BY <2>1, <2>2, <2>3, TargetFollows
<1>2. Spec => []TypeOK
  BY GenomeCorrect, PTL
<1>3. TypeOK /\ [Next]_vars => [Follow]_vars
  BY <1>1
<1> QED BY <1>2, <1>3, PTL DEF Spec, ImportsFollowTheTree

\* A set of numbers that are at most some number has a greatest one.
LEMMA GreatestNumber ==
  ASSUME NEW max \in Nat, NEW S \in SUBSET (1..max), S # {}
  PROVE  \E i \in S : \A k \in S : k <= i
<1> DEFINE T == {max - k : k \in S}
<1>1. T \in SUBSET Nat /\ T # {}
  <2>1. \A k \in S : max - k \in Nat
    OBVIOUS
  <2>2. \A n \in T : n \in Nat
    BY <2>1
  <2> QED BY <2>2
<1>2. Min(T) \in T /\ \A n \in T : Min(T) <= n
  BY <1>1, MinIs
<1>3. PICK i \in S : Min(T) = max - i
  BY <1>2
<1>4. \A k \in S : max - i <= max - k
  BY <1>2, <1>3
<1>5. \A k \in S : k <= i
  BY <1>4
<1> QED BY <1>5

\* The last import of a file among those with one target is the edge to it.
LEMMA LatestImport ==
  ASSUME NEW tree, NEW u \in ImportsOf(tree),
         tree.imports[u[1]] \subseteq DOMAIN Specifiers,
         Target(tree, u[1], u[2]) # Unresolved
  PROVE  \E e \in ImportEdges(tree) : /\ e.from = FileNode(u[1]) /\ e.to = Target(tree, u[1], u[2])
                                      /\ e.evidence.line >= u[2]
<1> DEFINE target == Target(tree, u[1], u[2])
           S == {i \in tree.imports[u[1]] : Target(tree, u[1], i) = target}
<1>1. DOMAIN Specifiers = 1..Len(Specifiers) /\ Len(Specifiers) \in Nat
  BY GenomeAssumption, LenProperties
<1>2. u[1] \in tree.files /\ u[2] \in S /\ S \in SUBSET (1..Len(Specifiers))
  BY <1>1 DEF ImportsOf
<1>3. PICK i \in S : \A k \in S : k <= i
  BY <1>1, <1>2, GreatestNumber
<1> DEFINE v == <<u[1], i>>
<1>4. v \in ImportsOf(tree) /\ v[1] = u[1] /\ v[2] = i
  BY <1>2 DEF ImportsOf
<1>5. /\ Target(tree, v[1], v[2]) = target
      /\ \A k \in tree.imports[v[1]] : Target(tree, v[1], k) = Target(tree, v[1], v[2]) => k <= v[2]
  BY <1>3, <1>4
<1> HIDE DEF v
<1> DEFINE e == Edge("IMPORTS", FileNode(v[1]), Target(tree, v[1], v[2]), Evidence("import", v[1], v[2]))
<1>6. e \in ImportEdges(tree)
  BY <1>4, <1>5 DEF ImportEdges
<1>7. e.from = FileNode(u[1]) /\ e.to = target /\ e.evidence.line = i
  BY <1>4, <1>5 DEF Edge, Evidence
<1>8. i >= u[2]
  BY <1>1, <1>2, <1>3
<1> QED BY <1>6, <1>7, <1>8

\* An element of a sequence.
Among(g, s) == \E k \in 1..Len(s) : s[k] = g

LEMMA AmongConcat ==
  ASSUME NEW S, NEW s \in Seq(S), NEW t \in Seq(S), NEW g
  PROVE  Among(g, s \o t) <=> Among(g, s) \/ Among(g, t)
<1>1. /\ Len(s) \in Nat /\ Len(t) \in Nat /\ Len(s \o t) = Len(s) + Len(t)
      /\ \A k \in 1..Len(s) + Len(t) : (s \o t)[k] = IF k <= Len(s) THEN s[k] ELSE t[k - Len(s)]
  BY ConcatProperties, LenProperties
<1>2. ASSUME Among(g, s \o t) PROVE Among(g, s) \/ Among(g, t)
  <2>1. PICK k \in 1..Len(s) + Len(t) : (s \o t)[k] = g
    BY <1>1, <1>2 DEF Among
  <2> QED BY <1>1, <2>1 DEF Among
<1>3. ASSUME Among(g, s) PROVE Among(g, s \o t)
  BY <1>1, <1>3 DEF Among
<1>4. ASSUME Among(g, t) PROVE Among(g, s \o t)
  <2>1. PICK k \in 1..Len(t) : t[k] = g
    BY <1>4 DEF Among
  <2>2. Len(s) + k \in 1..Len(s) + Len(t) /\ (s \o t)[Len(s) + k] = g
    BY <1>1, <2>1
  <2> QED BY <1>1, <2>2 DEF Among
<1> QED BY <1>2, <1>3, <1>4

\* A path is its directory and its name.
LEMMA AppendIs ==
  ASSUME NEW p \in Seq(Segments), NEW e \in Segments, NEW g \in Seq(Segments), g # <<>>
  PROVE  g = Append(p, e) <=> Front(g) = p /\ Last(g) = e
<1>1. ASSUME g = Append(p, e) PROVE Front(g) = p /\ Last(g) = e
  BY <1>1 DEF Front, Last
<1>2. ASSUME Front(g) = p, Last(g) = e PROVE g = Append(p, e)
  <2>1. Len(g) \in Nat \ {0} /\ Len(p) = Len(g) - 1
    BY <1>2, EmptySeq DEF Front
  <2>2. /\ Append(p, e) \in Seq(Segments) /\ Len(Append(p, e)) = Len(g)
        /\ \A k \in 1..Len(g) : Append(p, e)[k] = g[k]
    BY <1>2, <2>1, AppendProperties DEF Front, Last
  <2> QED BY <2>2, SeqEqual
<1> QED BY <1>1, <1>2

LEMMA AmongSuffixed ==
  ASSUME NEW base \in Seq(Segments), base # <<>>, NEW suffixes \in Seq(SourceSuffixes),
         NEW g \in Seq(Segments), g # <<>>
  PROVE  /\ Among(g, WithSuffixes(base, suffixes)) <=>
              Front(g) = Front(base) /\ Last(g).stem = Last(base).stem /\ Among(Last(g).suffix, suffixes)
         /\ Among(g, Indices(base, suffixes)) <=>
              Front(g) = base /\ Last(g).stem = "index" /\ Among(Last(g).suffix, suffixes)
<1> DEFINE n == Len(suffixes)
           W(k) == [stem |-> Last(base).stem, suffix |-> suffixes[k]]
           J(k) == [stem |-> "index", suffix |-> suffixes[k]]
<1>1. /\ n \in Nat /\ DOMAIN suffixes = 1..n
      /\ \A k \in 1..n : suffixes[k] \in Endings
  <2>1. SourceSuffixes \subseteq Endings
    BY GenomeAssumption
  <2> QED BY <2>1, LenProperties
<1>2. /\ Front(base) \in Seq(Segments) /\ Last(base) \in Segments
      /\ Front(g) \in Seq(Segments) /\ Last(g) \in Segments
  BY DEF Front, Last
<1>3. ASSUME NEW k \in 1..n PROVE W(k) \in Segments /\ J(k) \in Segments
  <2>1. "index" \in Stems /\ Last(base).stem \in Stems
    BY <1>2, GenomeAssumption DEF Segments
  <2> QED BY <1>1, <2>1 DEF Segments
<1>4. /\ Len(WithSuffixes(base, suffixes)) = n /\ Len(Indices(base, suffixes)) = n
  BY SuffixedTyped
<1>5. \A k \in 1..n : /\ WithSuffixes(base, suffixes)[k] = Append(Front(base), W(k))
                     /\ Indices(base, suffixes)[k] = Append(base, J(k))
  BY <1>1 DEF WithSuffixes, Indices
<1>8. ASSUME NEW k \in 1..n
      PROVE  /\ WithSuffixes(base, suffixes)[k] = g <=>
                  Front(g) = Front(base) /\ Last(g).stem = Last(base).stem /\ suffixes[k] = Last(g).suffix
             /\ Indices(base, suffixes)[k] = g <=>
                  Front(g) = base /\ Last(g).stem = "index" /\ suffixes[k] = Last(g).suffix
  <2> DEFINE w == W(k)
             j == J(k)
  <2>1. WithSuffixes(base, suffixes)[k] = Append(Front(base), w) /\ Indices(base, suffixes)[k] = Append(base, j)
    BY <1>5
  <2>2. w \in Segments /\ j \in Segments
    BY <1>3
  <2>3. /\ Last(g) = w <=> Last(g).stem = Last(base).stem /\ Last(g).suffix = suffixes[k]
        /\ Last(g) = j <=> Last(g).stem = "index" /\ Last(g).suffix = suffixes[k]
    BY <1>2 DEF Segments
  <2> HIDE DEF w, j
  <2>4. g = Append(Front(base), w) <=> Front(g) = Front(base) /\ Last(g) = w
    BY <1>2, <2>2, AppendIs
  <2>5. g = Append(base, j) <=> Front(g) = base /\ Last(g) = j
    BY <1>2, <2>2, AppendIs
  <2> QED BY <2>1, <2>3, <2>4, <2>5
<1>9. /\ Among(g, WithSuffixes(base, suffixes)) <=> \E k \in 1..n : WithSuffixes(base, suffixes)[k] = g
      /\ Among(g, Indices(base, suffixes)) <=> \E k \in 1..n : Indices(base, suffixes)[k] = g
      /\ Among(Last(g).suffix, suffixes) <=> \E k \in 1..n : suffixes[k] = Last(g).suffix
  BY <1>4 DEF Among
<1> HIDE DEF n
<1> QED BY <1>8, <1>9

\* The candidates of an import are what a resolver may take for its path.
LEMMA CandidatesMayBeMeant ==
  ASSUME NEW base \in Seq(Segments), base # <<>>, ~Escapes(base), NEW g \in Files
  PROVE  Among(g, CandidatesOf(base)) <=> MayMean(base, g)
<1> DEFINE two == <<".ts", ".tsx">>
           four == <<".ts", ".tsx", ".js", ".jsx">>
           six == <<".ts", ".tsx", ".js", ".jsx", ".mjs", ".cjs">>
           AnyPath == Seq(Segments)
<1>1. g \in Seq(Segments) /\ g # <<>>
  BY GenomeAssumption
<1>2. \A x : /\ Among(x, two) <=> x \in {".ts", ".tsx"}
             /\ Among(x, four) <=> x \in {".ts", ".tsx", ".js", ".jsx"}
             /\ Among(x, six) <=> x \in SourceSuffixes \ {".mts", ".cts"}
  BY DEF Among, SourceSuffixes
<1>3. /\ two \in Seq(SourceSuffixes) /\ four \in Seq(SourceSuffixes) /\ six \in Seq(SourceSuffixes)
  BY Literals
<1> HIDE DEF two, four, six
<1>4. /\ Among(g, WithSuffixes(base, two)) <=>
           Front(g) = Front(base) /\ Last(g).stem = Last(base).stem /\ Last(g).suffix \in {".ts", ".tsx"}
      /\ Among(g, WithSuffixes(base, six)) <=>
           /\ Front(g) = Front(base) /\ Last(g).stem = Last(base).stem
           /\ Last(g).suffix \in SourceSuffixes \ {".mts", ".cts"}
      /\ Among(g, Indices(base, four)) <=>
           Front(g) = base /\ Last(g).stem = "index" /\ Last(g).suffix \in {".ts", ".tsx", ".js", ".jsx"}
  BY <1>1, <1>2, <1>3, AmongSuffixed
<1>5. Among(g, <<base>>) <=> g = base
  BY DEF Among
<1>6. /\ <<base>> \in Seq(AnyPath) /\ WithSuffixes(base, two) \in Seq(AnyPath)
      /\ WithSuffixes(base, six) \in Seq(AnyPath) /\ Indices(base, four) \in Seq(AnyPath)
  BY <1>3, SuffixedTyped
<1> HIDE DEF AnyPath
<1>7. /\ <<base>> \o WithSuffixes(base, six) \in Seq(AnyPath)
      /\ Among(g, <<base>> \o WithSuffixes(base, two)) <=> Among(g, <<base>>) \/ Among(g, WithSuffixes(base, two))
      /\ Among(g, <<base>> \o WithSuffixes(base, six)) <=> Among(g, <<base>>) \/ Among(g, WithSuffixes(base, six))
  BY <1>6, AmongConcat, ConcatProperties
<1>8. Among(g, <<base>> \o WithSuffixes(base, six) \o Indices(base, four)) <=>
        Among(g, <<base>>) \/ Among(g, WithSuffixes(base, six)) \/ Among(g, Indices(base, four))
  BY <1>6, <1>7, AmongConcat
<1>9. CandidatesOf(base) =
        CASE Lower[Last(base).suffix] \in {".js", ".jsx"} -> <<base>> \o WithSuffixes(base, two)
          [] Lower[Last(base).suffix] = "" -> <<base>> \o WithSuffixes(base, six) \o Indices(base, four)
          [] OTHER -> <<base>>
  BY DEF CandidatesOf, two, four, six
<1>10. CASE Lower[Last(base).suffix] \in {".js", ".jsx"}
  <2>1. CandidatesOf(base) = <<base>> \o WithSuffixes(base, two)
    BY <1>9, <1>10
  <2>2. Lower[Last(base).suffix] # ""
    BY <1>10
  <2> QED BY <1>4, <1>5, <1>7, <1>10, <2>1, <2>2 DEF MayMean
<1>11. CASE Lower[Last(base).suffix] = ""
  <2>1. CandidatesOf(base) = <<base>> \o WithSuffixes(base, six) \o Indices(base, four)
    BY <1>9, <1>11
  <2>2. Lower[Last(base).suffix] \notin {".js", ".jsx"}
    BY <1>11
  <2> QED BY <1>4, <1>5, <1>8, <1>11, <2>1, <2>2 DEF MayMean
<1>12. CASE Lower[Last(base).suffix] \notin {".js", ".jsx", ""}
  <2>1. CandidatesOf(base) = <<base>>
    BY <1>9, <1>12
  <2> QED BY <1>5, <1>12, <2>1 DEF MayMean
<1> QED BY <1>10, <1>11, <1>12

\* Whatever the tree and its imports, none is lost or invented.
THEOREM ImportsAccounted == Spec => []ImportsAreAccountedFor
<1>1. ASSUME TypeOK, NEW u \in ImportsOf(Tree)
      PROVE  LET to == {e.to : e \in {e \in ImportEdges(Tree) :
                                        e.from = FileNode(u[1]) /\ e.evidence.line >= u[2]}}
             IN IF Meant(u) # {} THEN \E g \in Meant(u) : FileNode(g) \in to
                ELSE \/ u \in Diagnosed(Tree)
                     \/ \E n \in to : /\ n.kind \in {"ASSET", "EXTERNAL"}
                                      /\ Evidence("import", u[1], u[2]) \in EvidenceOf(Tree, n)
  <2> DEFINE to == {e.to : e \in {e \in ImportEdges(Tree) :
                                    e.from = FileNode(u[1]) /\ e.evidence.line >= u[2]}}
             target == Target(Tree, u[1], u[2])
             spec == Specifiers[u[2]]
             base == Normalized[u]
             candidates == ImportCandidates[u]
             first == FirstKnown(candidates, files)
  <2>1. /\ Tree.files = files /\ Tree.imports = imports /\ files \subseteq Files
        /\ u \in Files \X DOMAIN Specifiers /\ u = <<u[1], u[2]>>
        /\ imports[u[1]] \subseteq DOMAIN Specifiers
    BY <1>1 DEF Tree, ImportsOf, TypeOK
  <2>2. /\ base \in Seq(Segments) /\ Len(candidates) \in Nat
        /\ candidates = IF Relative(spec) THEN CandidatesOf(base) ELSE <<>>
    BY <2>1, ImportsTyped, LenProperties
  <2>3. /\ first \in 0..Len(candidates)
        /\ first # 0 => candidates[first] \in files /\ target = FileNode(candidates[first])
        /\ first = 0 => \/ target = Unresolved
                        \/ target.kind = "ASSET" \/ target.kind = "EXTERNAL"
    BY <2>1, TargetIs
  <2>4. first = 0 => \A k \in 1..Len(candidates) : candidates[k] \notin files
    BY <2>2, FirstKnownIsFirst
  <2>5. \A g \in files : g \in Meant(u) <=> Among(g, candidates)
    <3> SUFFICES ASSUME NEW g \in files PROVE g \in Meant(u) <=> Among(g, candidates)
      OBVIOUS
    <3>1. CASE Relative(spec) /\ base # <<>> /\ ~Escapes(base)
      BY <2>1, <2>2, <3>1, CandidatesMayBeMeant DEF Meant
    <3>2. CASE ~(Relative(spec) /\ base # <<>> /\ ~Escapes(base))
      <4>1. candidates = <<>>
        BY <2>2, <3>2 DEF CandidatesOf
      <4> QED BY <3>2, <4>1 DEF Meant, Among
    <3> QED BY <3>1, <3>2
  <2>6. target # Unresolved => target \in to
    BY <2>1, LatestImport
  <2> HIDE DEF to, target, candidates, first
  <2>7. CASE first # 0
    <3>1. candidates[first] \in Meant(u) /\ target = FileNode(candidates[first])
      BY <2>3, <2>5, <2>7 DEF Among
    <3>2. target # Unresolved
      BY <3>1 DEF FileNode, Node, Unresolved
    <3> QED BY <2>6, <3>1, <3>2 DEF to
  <2>8. CASE first = 0
    <3>1. Meant(u) = {}
      <4>1. Meant(u) \subseteq files
        BY DEF Meant
      <4> QED BY <2>4, <2>5, <2>8, <4>1 DEF Among
    <3>2. CASE target = Unresolved
      BY <3>1, <3>2 DEF Diagnosed, target
    <3>3. CASE target # Unresolved
      <4>1. target.kind \in {"ASSET", "EXTERNAL"}
        BY <2>3, <2>8, <3>3
      <4>2. Evidence("import", u[1], u[2]) \in EvidenceOf(Tree, target)
        <5>1. EvidenceOf(Tree, target) = {Evidence("import", v[1], v[2]) : v \in ImportersOf(Tree, target)}
          BY <4>1 DEF EvidenceOf
        <5>2. u \in ImportersOf(Tree, target)
          BY DEF ImportersOf, target
        <5> QED BY <5>1, <5>2
      <4> QED BY <2>6, <3>1, <3>3, <4>1, <4>2 DEF to
    <3> QED BY <3>2, <3>3
  <2> QED BY <2>7, <2>8
<1>2. TypeOK => ImportsAreAccountedFor
  BY <1>1 DEF ImportsAreAccountedFor
<1> QED BY <1>2, GenomeCorrect, PTL
=============================================================================
