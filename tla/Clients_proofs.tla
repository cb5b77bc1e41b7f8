---------------------------- MODULE Clients_proofs ----------------------------
(***************************************************************************)
(* Proofs about the two ends of the API's traffic: RateLimiter, which      *)
(* implements SlidingWindow for any clients, limit, window and size of the *)
(* map, and Dashboard, the ledger of which is of the selected repository   *)
(* for any repositories, runs, requests in flight and failures.            *)
(***************************************************************************)
EXTENDS RateLimiter, Dashboard, Folds_proofs

-----------------------------------------------------------------------------
(* The times that are later than a cutoff                                   *)

Sorted(times) == \A i, j \in DOMAIN times : i <= j => times[i] <= times[j]

\* The last n times of a sequence, beginning behind position k, are those after the cutoff.
Cut(times, cutoff, k) ==
  k \in 0..Len(times) /\ \A i \in DOMAIN times : times[i] > cutoff <=> i > k

\* What Trimmed leaves, as an operator of the cutoff.
After(times, cutoff) ==
  LET counting == {i \in DOMAIN times : times[i] > cutoff} IN
  IF counting = {} THEN <<>>
  ELSE SubSeq(times, CHOOSE i \in counting : \A j \in counting : i <= j, Len(times))

LEMMA TrimmedIsAfter == \A times : Trimmed(times) = After(times, Cutoff)
BY DEF Trimmed, After, Counts

\* A sequence that is sorted has one cut, and what is after the cutoff begins there.
LEMMA AfterIsSuffix ==
  ASSUME NEW times \in Seq(Nat), Sorted(times), NEW cutoff \in Int
  PROVE  \E k : Cut(times, cutoff, k) /\ After(times, cutoff) = SubSeq(times, k + 1, Len(times))
<1> DEFINE counting == {i \in DOMAIN times : times[i] > cutoff}
<1>0. DOMAIN times = 1..Len(times) /\ Len(times) \in Nat
  OBVIOUS
<1>1. CASE counting = {}
  <2>1. Cut(times, cutoff, Len(times))
    BY <1>0, <1>1 DEF Cut
  <2>2. After(times, cutoff) = <<>>
    BY <1>1 DEF After
  <2>3. SubSeq(times, Len(times) + 1, Len(times)) = <<>>
    BY <1>0
  <2> QED
    BY <2>1, <2>2, <2>3
<1>2. CASE counting # {}
  <2> DEFINE m == CHOOSE i \in counting : \A j \in counting : i <= j
  <2>1. counting \in SUBSET Nat
    BY <1>0
  <2>2. m \in counting /\ \A j \in counting : m <= j
    BY <2>1, <1>2, LeastNumber
  <2>3. After(times, cutoff) = SubSeq(times, m, Len(times))
    BY <1>2 DEF After
  <2> HIDE DEF m
  <2>4. m \in 1..Len(times) /\ times[m] > cutoff
    BY <2>2, <1>0
  <2>5. ASSUME NEW i \in DOMAIN times PROVE times[i] > cutoff <=> i > m - 1
    <3>1. times[i] \in Nat /\ times[m] \in Nat /\ i \in 1..Len(times)
      BY <1>0, <2>4
    <3>2. CASE i >= m
      BY <3>1, <3>2, <2>4, <1>0 DEF Sorted
    <3>3. CASE i < m
      BY <3>1, <3>3, <2>2
    <3> QED
      BY <3>1, <3>2, <3>3, <2>4
  <2>6. Cut(times, cutoff, m - 1)
    BY <2>4, <2>5, <1>0 DEF Cut
  <2>7. (m - 1) + 1 = m
    BY <2>4
  <2> QED
    BY <2>3, <2>6, <2>7
<1> QED
  BY <1>1, <1>2

LEMMA SuffixIs ==
  ASSUME NEW S, NEW times \in Seq(S), NEW k \in 0..Len(times)
  PROVE  LET rest == SubSeq(times, k + 1, Len(times)) IN
         /\ rest \in Seq(S) /\ Len(rest) = Len(times) - k
         /\ \A i \in 1..Len(times) - k : rest[i] = times[i + k]
OBVIOUS

LEMMA CutIsUnique ==
  ASSUME NEW times \in Seq(Nat), NEW cutoff \in Int, NEW j, NEW k,
         Cut(times, cutoff, j), Cut(times, cutoff, k)
  PROVE  j = k
<1>1. DOMAIN times = 1..Len(times) /\ Len(times) \in Nat /\ j \in 0..Len(times) /\ k \in 0..Len(times)
  BY DEF Cut
<1>2. CASE j < k
  BY <1>1, <1>2 DEF Cut
<1>3. CASE k < j
  BY <1>1, <1>3 DEF Cut
<1> QED
  BY <1>1, <1>2, <1>3

LEMMA AfterTyped ==
  ASSUME NEW t \in Nat, NEW times \in Seq(0..t), Sorted(times), NEW cutoff \in Int
  PROVE  /\ After(times, cutoff) \in Seq(0..t) /\ Sorted(After(times, cutoff))
         /\ \A i \in DOMAIN After(times, cutoff) : After(times, cutoff)[i] > cutoff
<1>0. times \in Seq(Nat)
  <2>1. 0..t \subseteq Nat
    OBVIOUS
  <2> QED
    BY <2>1
<1>1. PICK k : Cut(times, cutoff, k) /\ After(times, cutoff) = SubSeq(times, k + 1, Len(times))
  BY <1>0, AfterIsSuffix
<1> DEFINE rest == After(times, cutoff)
<1>2. k \in 0..Len(times) /\ Len(times) \in Nat /\ DOMAIN times = 1..Len(times)
  BY <1>1 DEF Cut
<1>3. /\ rest \in Seq(0..t) /\ Len(rest) = Len(times) - k
      /\ \A i \in 1..Len(times) - k : rest[i] = times[i + k]
  BY <1>1, <1>2, SuffixIs
<1> HIDE DEF rest
<1>4. DOMAIN rest = 1..Len(times) - k
  BY <1>3
<1>5. \A i \in DOMAIN rest : i + k \in DOMAIN times /\ i + k > k
  BY <1>2, <1>4
<1>6. Sorted(rest)
  <2> SUFFICES ASSUME NEW i \in DOMAIN rest, NEW j \in DOMAIN rest, i <= j PROVE rest[i] <= rest[j]
    BY DEF Sorted
  <2>1. i + k <= j + k
    BY <1>2, <1>4
  <2> QED
    BY <2>1, <1>3, <1>4, <1>5 DEF Sorted
<1>7. \A i \in DOMAIN rest : rest[i] > cutoff
  BY <1>1, <1>3, <1>4, <1>5 DEF Cut
<1> QED
  BY <1>3, <1>6, <1>7 DEF rest

\* What is all after the cutoff stays as it is.
LEMMA AfterOfLater ==
  ASSUME NEW times \in Seq(Nat), Sorted(times), NEW cutoff \in Int,
         \A i \in DOMAIN times : times[i] > cutoff
  PROVE  After(times, cutoff) = times
<1>1. PICK k : Cut(times, cutoff, k) /\ After(times, cutoff) = SubSeq(times, k + 1, Len(times))
  BY AfterIsSuffix
<1>2. Cut(times, cutoff, 0)
  BY DEF Cut
<1>3. k = 0
  BY <1>1, <1>2, CutIsUnique
<1> QED
  BY <1>1, <1>3

\* Nothing is after the cutoff if the last time is not.
LEMMA AfterOfEarlier ==
  ASSUME NEW times \in Seq(Nat), Sorted(times), NEW cutoff \in Int,
         times # <<>> => ~(times[Len(times)] > cutoff)
  PROVE  After(times, cutoff) = <<>>
<1>1. DOMAIN times = 1..Len(times) /\ Len(times) \in Nat
  OBVIOUS
<1>2. ASSUME NEW i \in DOMAIN times PROVE ~(times[i] > cutoff)
  <2>1. times # <<>> /\ Len(times) \in DOMAIN times /\ i <= Len(times)
    BY <1>1
  <2>2. times[i] <= times[Len(times)]
    BY <2>1 DEF Sorted
  <2>3. times[i] \in Nat /\ times[Len(times)] \in Nat
    BY <1>1, <2>1
  <2> QED
    BY <2>1, <2>2, <2>3
<1> QED
  BY <1>2 DEF After

\* As time passes, what is recent loses its first times.
LEMMA AfterRecedes ==
  ASSUME NEW times \in Seq(Nat), Sorted(times), NEW t \in Nat, NEW width \in Nat
  PROVE  LET older == After(times, t - width)
             newer == After(times, t + 1 - width)
         IN  \E left \in 0..Len(older) :
               /\ \A i \in DOMAIN older : i <= left <=> older[i] + width <= t + 1
               /\ newer = SubSeq(older, left + 1, Len(older))
<1> DEFINE older == After(times, t - width)
           newer == After(times, t + 1 - width)
<1>0. DOMAIN times = 1..Len(times) /\ Len(times) \in Nat /\ \A i \in DOMAIN times : times[i] \in Nat
  OBVIOUS
<1>1. PICK j : Cut(times, t - width, j) /\ older = SubSeq(times, j + 1, Len(times))
  BY AfterIsSuffix
<1>2. PICK k : Cut(times, t + 1 - width, k) /\ newer = SubSeq(times, k + 1, Len(times))
  BY AfterIsSuffix
<1> HIDE DEF older, newer
<1>3. j \in 0..Len(times) /\ k \in 0..Len(times)
  BY <1>1, <1>2 DEF Cut
<1>4. j <= k
  <2> SUFFICES ASSUME k < j PROVE FALSE
    BY <1>3
  <2>1. j \in DOMAIN times
    BY <1>0, <1>3
  <2>2. times[j] > t + 1 - width /\ ~(times[j] > t - width)
    BY <1>1, <1>2, <1>3, <2>1 DEF Cut
  <2> QED
    BY <2>1, <2>2, <1>0
<1>5. /\ older \in Seq(Nat) /\ Len(older) = Len(times) - j
      /\ \A i \in 1..Len(times) - j : older[i] = times[i + j]
  BY <1>1, <1>3, SuffixIs
<1>6. /\ newer \in Seq(Nat) /\ Len(newer) = Len(times) - k
      /\ \A i \in 1..Len(times) - k : newer[i] = times[i + k]
  BY <1>2, <1>3, SuffixIs
<1>7. k - j \in 0..Len(older)
  BY <1>3, <1>4, <1>5
<1>8. ASSUME NEW i \in DOMAIN older PROVE i <= k - j <=> older[i] + width <= t + 1
  <2>0. DOMAIN older = 1..Len(older)
    BY <1>5
  <2>1. i \in 1..Len(times) - j /\ i + j \in DOMAIN times
    BY <2>0, <1>0, <1>3, <1>5, <1>8
  <2>2. times[i + j] > t + 1 - width <=> i + j > k
    BY <2>1, <1>2 DEF Cut
  <2>3. older[i] = times[i + j] /\ times[i + j] \in Nat
    BY <2>1, <1>0, <1>5
  <2> QED
    BY <2>1, <2>2, <2>3, <1>3
<1>9. newer = SubSeq(older, (k - j) + 1, Len(older))
  <2> DEFINE rest == SubSeq(older, (k - j) + 1, Len(older))
  <2>1. /\ rest \in Seq(Nat) /\ Len(rest) = Len(older) - (k - j)
        /\ \A i \in 1..Len(older) - (k - j) : rest[i] = older[i + (k - j)]
    BY <1>5, <1>7, SuffixIs
  <2> HIDE DEF rest
  <2>2. Len(rest) = Len(newer)
    BY <2>1, <1>3, <1>5, <1>6
  <2>3. ASSUME NEW i \in 1..Len(newer) PROVE newer[i] = rest[i]
    <3>1. i \in 1..Len(times) - k /\ i \in 1..Len(older) - (k - j)
      BY <1>3, <1>5, <1>6
    <3>2. i + (k - j) \in 1..Len(times) - j /\ (i + (k - j)) + j = i + k
      BY <3>1, <1>3, <1>4, <1>5
    <3> QED
      BY <3>1, <3>2, <2>1, <1>5, <1>6
  <2>4. newer = rest
    BY <1>6, <2>1, <2>2, <2>3, SeqEqual
  <2> QED
    BY <2>4 DEF rest
<1> QED
  BY <1>7, <1>8, <1>9 DEF older, newer

-----------------------------------------------------------------------------
(* The invariant                                                            *)

\* What is stored of any client, one that is not in the map included.
LEMMA TimesTyped ==
  ASSUME LimiterInv, NEW c
  PROVE  TimesOf(c) \in Seq(0..now) /\ Sorted(TimesOf(c))
<1>1. CASE c \in DOMAIN requests
  <2>1. TimesOf(c) = requests[c] /\ requests[c] \in Seq(0..now)
    BY <1>1 DEF LimiterInv, TimesOf
  <2> QED
    BY <1>1, <2>1 DEF LimiterInv, Sorted
<1>2. CASE c \notin DOMAIN requests
  <2>1. TimesOf(c) = <<>>
    BY <1>2 DEF TimesOf
  <2> QED
    BY <2>1 DEF Sorted
<1> QED
  BY <1>1, <1>2

LEMMA WiderTyped ==
  ASSUME NEW n \in Nat, NEW times \in Seq(0..n)
  PROVE  times \in Seq(0..n + 1) /\ times \in Seq(Nat)
<1>1. \A i \in 1..Len(times) : times[i] \in 0..n + 1 /\ times[i] \in Nat
  OBVIOUS
<1> QED
  BY <1>1, IsASeq

\* The cutoff is a number.
LEMMA CutoffTyped == ASSUME LimiterAssumption, LimiterInv PROVE Cutoff \in Int /\ Cutoff < now
BY DEF LimiterAssumption, LimiterInv, Cutoff

LEMMA TrimmedTyped ==
  ASSUME LimiterAssumption, LimiterInv, NEW times \in Seq(0..now), Sorted(times)
  PROVE  /\ Trimmed(times) \in Seq(0..now) /\ Sorted(Trimmed(times))
         /\ \A i \in DOMAIN Trimmed(times) : Trimmed(times)[i] > Cutoff
BY CutoffTyped, TrimmedIsAfter, AfterTyped DEF LimiterInv

\* A request that comes now is the last one.
LEMMA AppendedTyped ==
  ASSUME NEW n \in Nat, NEW times \in Seq(0..n), Sorted(times)
  PROVE  Append(times, n) \in Seq(0..n) /\ Sorted(Append(times, n))
<1>1. \A i \in 1..Len(times) : times[i] \in 0..n /\ times[i] <= n
  OBVIOUS
<1> QED
  BY <1>1 DEF Sorted

\* What allow stores for the client, when it serves or refuses it.
Stored(c) == IF Full(Trimmed(TimesOf(c))) THEN Trimmed(TimesOf(c)) ELSE Append(Trimmed(TimesOf(c)), now)

LEMMA StoredTyped ==
  ASSUME LimiterAssumption, LimiterInv, NEW c
  PROVE  /\ Stored(c) \in Seq(0..now) /\ Sorted(Stored(c))
         /\ \A i \in DOMAIN Stored(c) : Stored(c)[i] > Cutoff
<1> DEFINE times == Trimmed(TimesOf(c))
<1>1. times \in Seq(0..now) /\ Sorted(times) /\ \A i \in DOMAIN times : times[i] > Cutoff
  BY TimesTyped, TrimmedTyped
<1>2. now \in Nat
  BY DEF LimiterInv
<1> HIDE DEF times
<1>3. Append(times, now) \in Seq(0..now) /\ Sorted(Append(times, now))
  BY <1>1, <1>2, AppendedTyped
<1>4. \A i \in DOMAIN Append(times, now) : Append(times, now)[i] > Cutoff
  BY <1>1, CutoffTyped
<1>5. Stored(c) \in {times, Append(times, now)}
  BY DEF Stored, times
<1> QED
  BY <1>1, <1>3, <1>4, <1>5

\* The map after a call: the client's times are replaced, and perhaps inactive clients dropped.
LEMMA AllowedMap ==
  ASSUME LimiterAssumption, LimiterInv, NEW c \in Clients, Allow(c)
  PROVE  /\ now' = now
         /\ requests' = [k \in DOMAIN requests' |-> With(c, Stored(c))[k]]
         /\ DOMAIN requests' \subseteq DOMAIN requests \cup {c}
         /\ \A k \in (DOMAIN requests \cup {c}) \ DOMAIN requests' : ~Keep(With(c, Stored(c))[k])
<1> DEFINE map == With(c, Stored(c))
<1>1. map = [k \in DOMAIN map |-> map[k]] /\ DOMAIN map = DOMAIN requests \cup {c}
  BY DEF With
<1>2. CASE Full(Trimmed(TimesOf(c)))
  <2>1. requests' = map /\ now' = now
    BY <1>2 DEF Allow, Stored
  <2> QED
    BY <1>1, <2>1
<1>3. CASE ~Full(Trimmed(TimesOf(c)))
  <2>1. requests' = Pruned(map) /\ now' = now
    BY <1>3 DEF Allow, Stored
  <2> HIDE DEF map
  <2>2. CASE Cardinality(DOMAIN map) > MaximumKeys
    <3>1. requests' = [k \in {k \in DOMAIN map : Keep(map[k])} |-> map[k]]
      BY <2>1, <2>2 DEF Pruned
    <3> QED
      BY <1>1, <2>1, <3>1 DEF map
  <2>3. CASE ~(Cardinality(DOMAIN map) > MaximumKeys)
    <3>1. requests' = map
      BY <2>1, <2>3 DEF Pruned
    <3> QED
      BY <1>1, <2>1, <3>1 DEF map
  <2> QED
    BY <2>2, <2>3
<1> QED
  BY <1>2, <1>3

LEMMA MapTyped ==
  ASSUME LimiterAssumption, LimiterInv, NEW c \in Clients, NEW k \in DOMAIN requests \cup {c}
  PROVE  /\ With(c, Stored(c))[k] = IF k = c THEN Stored(c) ELSE TimesOf(k)
         /\ With(c, Stored(c))[k] \in Seq(0..now)
         /\ Sorted(With(c, Stored(c))[k])
<1>1. With(c, Stored(c))[k] = IF k = c THEN Stored(c) ELSE TimesOf(k)
  BY DEF With, TimesOf
<1> QED
  BY <1>1, StoredTyped, TimesTyped

LEMMA AllowInv ==
  ASSUME LimiterAssumption, LimiterInv, NEW c \in Clients, Allow(c)
  PROVE  LimiterInv'
<1> DEFINE map == With(c, Stored(c))
<1>1. /\ now' = now /\ requests' = [k \in DOMAIN requests' |-> map[k]]
      /\ DOMAIN requests' \subseteq DOMAIN requests \cup {c}
  BY AllowedMap
<1>2. \A k \in DOMAIN requests \cup {c} : map[k] \in Seq(0..now) /\ Sorted(map[k])
  BY MapTyped
<1>3. DOMAIN requests \subseteq Clients /\ now \in Nat
  BY DEF LimiterInv
<1> HIDE DEF map
<1>4. requests' \in [DOMAIN requests' -> Seq(0..now')]
  BY <1>1, <1>2
<1>5. \A k \in DOMAIN requests' : Sorted(requests'[k])
  BY <1>1, <1>2
<1> QED
  BY <1>1, <1>3, <1>4, <1>5 DEF LimiterInv, Sorted

LEMMA TickInv == ASSUME LimiterInv, Tick PROVE LimiterInv'
<1>1. now \in Nat /\ now' = now + 1 /\ requests' = requests
  BY DEF LimiterInv, Tick
<1>2. \A c \in DOMAIN requests : requests[c] \in Seq(0..now + 1)
  BY <1>1, WiderTyped DEF LimiterInv
<1> QED
  BY <1>1, <1>2 DEF LimiterInv

LEMMA NextInv == ASSUME LimiterAssumption, LimiterInv, [LimiterNext]_limiterVars PROVE LimiterInv'
<1>1. CASE Tick
  BY <1>1, TickInv
<1>2. ASSUME NEW c \in Clients, Allow(c) PROVE LimiterInv'
  BY <1>2, AllowInv
<1>3. CASE UNCHANGED <<now, requests>>
  BY <1>3 DEF LimiterInv
<1> QED
  BY <1>1, <1>2, <1>3 DEF LimiterNext, NotAsked, limiterVars

LEMMA InitInv == LimiterInit => LimiterInv
<1>1. ASSUME LimiterInit PROVE LimiterInv
  <2>1. now = 0 /\ requests = <<>>
    BY <1>1 DEF LimiterInit
  <2>2. DOMAIN requests = {}
    BY <2>1
  <2>3. requests \in [{} -> Seq(0..now)]
    BY <2>1
  <2> QED
    BY <2>1, <2>2, <2>3 DEF LimiterInv
<1> QED
  BY <1>1

\* What the map holds is in order and not of the future, whatever is trimmed and pruned.
THEOREM LimiterCorrect == LimiterSpec => []LimiterInv
<1>1. LimiterInv /\ [LimiterNext]_limiterVars => LimiterInv'
  BY LimiterAssumption, NextInv
<1> QED
  BY <1>1, InitInv, PTL DEF LimiterSpec

-----------------------------------------------------------------------------
(* The map of clients                                                       *)

LEMMA AllowGrows ==
  ASSUME LimiterAssumption, LimiterInv, NEW c \in Clients, Allow(c),
         DOMAIN requests' # DOMAIN requests, Cardinality(DOMAIN requests') > MaximumKeys
  PROVE  \A k \in DOMAIN requests' : Last(requests'[k]) > Cutoff
<1> DEFINE times == Trimmed(TimesOf(c))
<1>1. CASE Full(times)
  <2>1. DOMAIN requests' = DOMAIN requests \cup {c}
    BY <1>1 DEF Allow, With
  <2>2. TimesOf(c) = <<>>
    BY <2>1 DEF TimesOf
  <2>3. times = <<>>
    BY <2>2 DEF Trimmed
  <2>4. ~Full(times)
    BY <2>3 DEF Full, LimiterAssumption
  <2> QED
    BY <1>1, <2>4
<1>2. CASE ~Full(times)
  <2> DEFINE map == With(c, Append(times, now))
  <2>1. requests' = Pruned(map)
    BY <1>2 DEF Allow
  <2> HIDE DEF map
  <2>2. Cardinality(DOMAIN map) > MaximumKeys
    BY <2>1 DEF Pruned
  <2>3. requests' = [k \in {k \in DOMAIN map : Keep(map[k])} |-> map[k]]
    BY <2>1, <2>2 DEF Pruned
  <2> QED
    BY <2>3 DEF Keep
<1> QED
  BY <1>1, <1>2

\* For any number of clients, any limit and any maximum_keys: a call that adds a client to a map
\* that is larger than maximum_keys leaves only clients that count in it.
THEOREM GrowsByActiveClients == LimiterSpec => GrowsByActiveClientsOnly
<1>1. ASSUME LimiterInv, [LimiterNext]_limiterVars,
             DOMAIN requests' # DOMAIN requests, Cardinality(DOMAIN requests') > MaximumKeys
      PROVE  \A c \in DOMAIN requests' : Last(requests'[c]) > Cutoff
  <2>1. CASE \E c \in Clients : Allow(c)
    BY <1>1, <2>1, LimiterAssumption, AllowGrows
  <2>2. CASE UNCHANGED requests
    BY <1>1, <2>2
  <2> QED
    BY <1>1, <2>1, <2>2 DEF LimiterNext, Tick, NotAsked, limiterVars
<1> QED
  BY <1>1, LimiterCorrect, PTL DEF LimiterSpec, GrowsByActiveClientsOnly

-----------------------------------------------------------------------------
(* The sliding window                                                       *)

\* What is recent of a client.
RecentOf(c) == Trimmed(TimesOf(c))

Recent == [c \in Clients |-> RecentOf(c)]

\* Who calls keeps what was stored, all of it recent; of the others nothing recent is lost.
LEMMA AllowKeepsRecent ==
  ASSUME LimiterAssumption, LimiterInv, LimiterInv', NEW c \in Clients, Allow(c),
         NEW k \in Clients
  PROVE  RecentOf(k)' = IF k = c THEN Stored(c) ELSE RecentOf(k)
<1> DEFINE map == With(c, Stored(c))
<1>1. /\ now' = now /\ requests' = [j \in DOMAIN requests' |-> map[j]]
      /\ DOMAIN requests' \subseteq DOMAIN requests \cup {c}
      /\ \A j \in (DOMAIN requests \cup {c}) \ DOMAIN requests' : ~Keep(map[j])
  BY AllowedMap
<1>2. Cutoff' = Cutoff /\ Cutoff \in Int /\ now \in Nat
  BY <1>1, CutoffTyped DEF Cutoff, LimiterInv
<1>3. RecentOf(k)' = After(TimesOf(k)', Cutoff)
  BY <1>1 DEF RecentOf, Trimmed, After, Counts, Cutoff
<1>4. Stored(c) \in Seq(Nat) /\ Sorted(Stored(c)) /\ After(Stored(c), Cutoff) = Stored(c)
  <2>1. Stored(c) \in Seq(Nat)
    BY <1>2, StoredTyped, WiderTyped
  <2> QED
    BY <1>2, <2>1, StoredTyped, AfterOfLater
<1>5. TimesOf(k) \in Seq(Nat) /\ Sorted(TimesOf(k)) /\ After(TimesOf(k), Cutoff) = RecentOf(k)
  BY <1>2, TimesTyped, WiderTyped, TrimmedIsAfter DEF RecentOf
<1>6. CASE k \in DOMAIN requests'
  <2>1. TimesOf(k)' = map[k] /\ k \in DOMAIN requests \cup {c}
    BY <1>1, <1>6 DEF TimesOf
  <2>2. map[k] = IF k = c THEN Stored(c) ELSE TimesOf(k)
    BY <2>1, MapTyped
  <2> QED
    BY <1>3, <1>4, <1>5, <2>1, <2>2
<1>7. CASE k \notin DOMAIN requests'
  <2>1. TimesOf(k)' = <<>>
    BY <1>7 DEF TimesOf
  <2>2. RecentOf(k)' = <<>>
    BY <1>3, <2>1 DEF After
  <2>3. CASE k \in DOMAIN requests \cup {c}
    <3>1. ~Keep(map[k]) /\ map[k] = IF k = c THEN Stored(c) ELSE TimesOf(k)
      BY <1>1, <1>7, <2>3, MapTyped
    <3>2. map[k] \in Seq(Nat) /\ Sorted(map[k])
      BY <3>1, <1>4, <1>5
    <3> HIDE DEF map
    <3>3. map[k] # <<>> => ~(map[k][Len(map[k])] > Cutoff)
      BY <3>1 DEF Keep, Last
    <3>4. After(map[k], Cutoff) = <<>>
      BY <1>2, <3>2, <3>3, AfterOfEarlier
    <3> QED
      BY <1>4, <1>5, <2>2, <3>1, <3>4
  <2>4. CASE k \notin DOMAIN requests \cup {c}
    <3>1. TimesOf(k) = <<>> /\ k # c
      BY <2>4 DEF TimesOf
    <3>2. RecentOf(k) = <<>>
      BY <3>1 DEF RecentOf, Trimmed
    <3> QED
      BY <2>2, <3>1, <3>2
  <2> QED
    BY <2>3, <2>4
<1> QED
  BY <1>6, <1>7

\* A call is served, or refused, as the window does it.
LEMMA AllowIsPromised ==
  ASSUME LimiterAssumption, LimiterInv, LimiterInv', NEW c \in Clients, Allow(c)
  PROVE  Promise!Serve(c) \/ Promise!Refuse(c)
<1>1. Recent' = [k \in Clients |-> IF k = c THEN Stored(c) ELSE RecentOf(k)]
  BY AllowKeepsRecent DEF Recent
<1>2. Recent = [k \in Clients |-> Trimmed(TimesOf(k))]
  BY DEF Recent, RecentOf
<1>3. Recent' = [k \in Clients |-> Trimmed(TimesOf(k))]'
  BY DEF Recent, RecentOf
<1>4. RecentOf(c) \in Seq(0..now)
  BY TimesTyped, TrimmedTyped DEF RecentOf
<1>5. CASE Full(RecentOf(c))
  <2>1. Recent' = Recent
    BY <1>1, <1>5 DEF Stored, Recent, RecentOf
  <2>2. Promise!Refuse(c)
    BY <1>2, <1>3, <1>5, <2>1 DEF Promise!Refuse, Allow, Full, RecentOf
  <2> QED
    BY <2>2
<1>6. CASE ~Full(RecentOf(c))
  <2>1. Len(RecentOf(c)) < Limit
    BY <1>4, <1>6 DEF Full, LimiterAssumption
  <2>2. Recent' = [Recent EXCEPT ![c] = Append(Recent[c], now)]
    BY <1>1, <1>6 DEF Stored, Recent, RecentOf
  <2>3. answer' = [client |-> c, status |-> 200] /\ now' = now
    BY <1>6 DEF Allow, RecentOf
  <2>4. Recent[c] = RecentOf(c)
    BY DEF Recent
  <2>5. Promise!Serve(c)
    BY <1>2, <1>3, <2>1, <2>2, <2>3, <2>4 DEF Promise!Serve, RecentOf
  <2> QED
    BY <2>5
<1> QED
  BY <1>5, <1>6

\* As the clock advances, what leaves the window is no longer recent.
LEMMA TickIsPromised ==
  ASSUME LimiterAssumption, LimiterInv, LimiterInv', Tick PROVE Promise!Advance
<1>1. now \in Nat /\ now' = now + 1 /\ requests' = requests /\ answer' = answer
  BY DEF LimiterInv, Tick
<1>2. Window \in Nat
  BY DEF LimiterAssumption
<1>3. ASSUME NEW c \in Clients
      PROVE  /\ Trimmed(TimesOf(c))' \in Seq(0..now)
             /\ Promise!StillRecent(Trimmed(TimesOf(c)), Trimmed(TimesOf(c))', now')
  <2> DEFINE times == TimesOf(c)
             older == After(times, now - Window)
             newer == After(times, now + 1 - Window)
  <2>1. times \in Seq(0..now) /\ times \in Seq(Nat) /\ Sorted(times)
    BY <1>1, TimesTyped, WiderTyped
  <2>2. Trimmed(TimesOf(c)) = older
    BY TrimmedIsAfter DEF Cutoff
  <2>3. Trimmed(TimesOf(c))' = newer
    BY <1>1 DEF Trimmed, After, Counts, Cutoff, TimesOf
  <2> HIDE DEF times
  <2>4. \E left \in 0..Len(older) :
          /\ \A i \in DOMAIN older : i <= left <=> older[i] + Window <= now + 1
          /\ newer = SubSeq(older, left + 1, Len(older))
    BY <1>1, <1>2, <2>1, AfterRecedes
  <2>5. newer \in Seq(0..now)
    <3>1. now + 1 - Window \in Int
      BY <1>1, <1>2
    <3> QED
      BY <1>1, <2>1, <3>1, AfterTyped
  <2> HIDE DEF older, newer
  <2> QED
    BY <1>1, <2>2, <2>3, <2>4, <2>5 DEF Promise!StillRecent
<1>4. [c \in Clients |-> Trimmed(TimesOf(c))]' = [c \in Clients |-> Trimmed(TimesOf(c))']
  OBVIOUS
<1> QED
  BY <1>1, <1>3, <1>4 DEF Promise!Advance

LEMMA NextIsPromised ==
  ASSUME LimiterAssumption, LimiterInv, LimiterInv', [LimiterNext]_limiterVars
  PROVE  [Promise!Next]_Promise!vars
<1>1. CASE Tick
  BY <1>1, TickIsPromised DEF Promise!Next
<1>2. ASSUME NEW c \in Clients, Allow(c) PROVE Promise!Next
  BY <1>2, AllowIsPromised DEF Promise!Next
<1>3. ASSUME NEW c \in Clients, NotAsked(c) PROVE Promise!Next
  <2>1. Promise!Exempt(c)
    BY <1>3 DEF NotAsked, Promise!Exempt, Trimmed, Counts, Cutoff, TimesOf
  <2> QED
    BY <2>1 DEF Promise!Next
<1>4. CASE UNCHANGED limiterVars
  BY <1>4 DEF limiterVars, Promise!vars, Trimmed, Counts, Cutoff, TimesOf
<1> QED
  BY <1>1, <1>2, <1>3, <1>4 DEF LimiterNext

LEMMA InitIsPromised == LimiterInit => Promise!Init
BY DEF LimiterInit, Promise!Init, TimesOf, Trimmed

\* For any clients, limit, window and maximum_keys: whatever is trimmed, pruned and forgotten,
\* every request is answered as the sliding window answers it.
THEOREM LimiterImplementsWindow == LimiterSpec => ImplementsSlidingWindow
<1>1. LimiterInv /\ LimiterInv' /\ [LimiterNext]_limiterVars => [Promise!Next]_Promise!vars
  BY LimiterAssumption, NextIsPromised
<1> QED
  BY <1>1, InitIsPromised, LimiterCorrect, PTL DEF LimiterSpec, ImplementsSlidingWindow, Promise!Spec

-----------------------------------------------------------------------------
(* Dashboard: what is true of a browser, its requests and their answers     *)

Sha == [repo : Repository \cup {Nobody}, n : Nat]

AnyRun == [repo : Repository, state : AnalysisState, sha : Sha]

AnyCopy == [id : Nat, state : AnalysisState, sha : Sha]

AnyScreen == [repositories : SUBSET Repository, selectedId : Repository \cup {Nobody},
              runs : Seq(AnyCopy), isStarting : BOOLEAN,
              graph : Sha, inventory : Sha, architecture : Sha]

AnyMessage == [kind : Kinds, repo : Repository \cup {Nobody}, about : Sha, id : Nat,
               answered : BOOLEAN, n : Nat, runs : Seq(AnyCopy)]

\* A bag of requests and answers.
NetOf(bag) == DOMAIN bag \subseteq AnyMessage /\ bag \in [DOMAIN bag -> Nat \ {0}]

\* TypeOK without the bounds on runs.
Typed ==
  /\ registered \in Repository
  /\ analyses \in Seq(AnyRun)
  /\ snapshots \in [Repository -> Nat]
  /\ screen \in AnyScreen
  /\ NetOf(net)
  /\ disturbed \in BOOLEAN

Runs == 1..Len(analyses)

\* Copies of runs that exist, each of another.
LedgerOK(runs) ==
  /\ \A i \in DOMAIN runs : runs[i].id \in Runs
  /\ \A i, j \in DOMAIN runs : runs[i].id = runs[j].id => i = j

OfRepository(runs, repo) == \A i \in DOMAIN runs : analyses[runs[i].id].repo = repo

\* The kinds whose answers select a repository, and the kind of which one request at most is in
\* flight.
Selecting == {"repositories", "register"}

Alone == {"repositories"}

SingleIn(bag, m) == bag[m] = 1 /\ \A other \in DOMAIN bag : other.kind = m.kind => other = m

\* What every request and answer in flight is, whoever did what.
Sound(bag, m) ==
  /\ m.kind \in Alone => SingleIn(bag, m)
  /\ m.kind \in Selecting /\ m.answered => m.n \in Repository
  /\ m.kind \in {"create", "graph", "architecture"} => m.repo \in Repository
  /\ m.kind = "poll" => m.id \in Runs
  /\ m.kind \in {"create", "poll"} /\ m.answered => Len(m.runs) = 1 /\ m.runs[1].id \in Runs
  /\ m.kind = "poll" /\ m.answered => m.runs[1].id = m.id
  /\ m.kind = "analyses" /\ m.answered => LedgerOK(m.runs) /\ OfRepository(m.runs, m.repo)

\* What is in flight for the ledger of a repository, if nobody outran it.
Meant(bag, m, repo, runs) ==
  /\ m.kind \in {"analyses", "create"} => m.repo = repo
  /\ m.kind = "create" /\ m.answered => analyses[m.runs[1].id].repo = repo
  /\ m.kind = "poll" => analyses[m.id].repo = repo
  /\ m.kind = "register" => SingleIn(bag, m)
  /\ m.kind = "repositories" =>
       repo = Nobody /\ runs = <<>> /\ \A other \in DOMAIN bag : other.kind \in Unguarded => other = m

BrowserInv ==
  /\ Typed
  /\ LedgerOK(screen.runs)
  /\ \A m \in DOMAIN net : Sound(net, m)
  /\ ~disturbed =>
       /\ OfRepository(screen.runs, screen.selectedId)
       /\ screen.selectedId \in screen.repositories \cup {Nobody}
       /\ \A m \in DOMAIN net : Meant(net, m, screen.selectedId, screen.runs)

-----------------------------------------------------------------------------
(* The ledger                                                               *)

\* What setRuns makes of a ledger: the copy, and the other runs of the ledger.
LEMMA InFrontIs ==
  ASSUME NEW copy \in AnyCopy, screen.runs \in Seq(AnyCopy)
  PROVE  /\ InFront(copy) \in Seq(AnyCopy)
         /\ \A i \in DOMAIN InFront(copy) :
              InFront(copy)[i] = copy \/ \E j \in DOMAIN screen.runs : InFront(copy)[i] = screen.runs[j]
         /\ (\A i, j \in DOMAIN screen.runs : screen.runs[i].id = screen.runs[j].id => i = j) =>
              \A i, j \in DOMAIN InFront(copy) : InFront(copy)[i].id = InFront(copy)[j].id => i = j
<1> DEFINE runs == screen.runs
           n == Len(runs)
           D == 1..n
           R == Seq(AnyCopy)
           Step(it, s) ==
             IF s = {} THEN <<copy>>
             ELSE IF runs[Max(s)].id = copy.id THEN it[s \ {Max(s)}] ELSE Append(it[s \ {Max(s)}], runs[Max(s)])
           op == [k \in D |-> [r \in R |-> IF runs[k].id = copy.id THEN r ELSE Append(r, runs[k])]]
           pick == [s \in SUBSET D |-> Max(s)]
           Solution == CHOOSE it : it = [s \in SUBSET D |-> Step(it, s)]
           distinct == \A i, j \in D : runs[i].id = runs[j].id => i = j
           From(r, k) == \A i \in DOMAIN r :
                           r[i] = copy \/ \E j \in 1..k : r[i] = runs[j] /\ runs[j].id # copy.id
           Apart(r) == \A i, j \in DOMAIN r : r[i].id = r[j].id => i = j
           good == [k \in 0..n |-> {r \in R : From(r, k) /\ (distinct => Apart(r))}]
<1>0. n \in Nat /\ DOMAIN runs = D /\ \A k \in D : runs[k] \in AnyCopy
  OBVIOUS
<1>1. InFront(copy) = Solution[D]
  BY <1>0 DEF InFront, FoldLeft, MapThenFoldSet
<1>2. ASSUME NEW k \in D, NEW r \in R
      PROVE  op[k][r] = (IF runs[k].id = copy.id THEN r ELSE Append(r, runs[k])) /\ op[k][r] \in R
  BY <1>0
<1> HIDE DEF n, op, runs
<1>3. PICK it : Solves(D, R, <<copy>>, op, pick, it)
  <2>1. <<copy>> \in R
    OBVIOUS
  <2> HIDE DEF R
  <2>2. Foldable(D, R, <<copy>>, op, pick)
    BY <1>0, <1>2, <2>1, LeftFoldable
  <2> HIDE DEF D, pick
  <2> QED
    BY <2>2, FoldDefines
<1>4. ASSUME NEW f, NEW s \in SUBSET D, s = {} \/ f[s \ {pick[s]}] \in R
      PROVE  Step(f, s) = Taking(<<copy>>, op, pick, f, s)
  <2>1. CASE s = {}
    BY <2>1 DEF Taking
  <2>2. CASE s # {}
    <3>1. pick[s] = Max(s) /\ Max(s) \in D /\ f[s \ {Max(s)}] \in R
      <4>1. s \in SUBSET (0..n)
        BY <1>0
      <4> QED
        BY <1>0, <1>4, <2>2, <4>1, MaxIs
    <3> QED
      BY <1>2, <2>2, <3>1 DEF Taking
  <2> QED
    BY <2>1, <2>2
<1>5. Solution[D] = it[D]
  <2>1. ASSUME NEW s \in SUBSET D PROVE it[s] = Step(it, s)
    <3>1. s = {} \/ it[s \ {pick[s]}] \in R
      BY <1>3 DEF Solves
    <3> HIDE DEF Step
    <3> QED
      BY <1>3, <1>4, <3>1 DEF Solves
  <2> HIDE DEF Step
  <2>2. it = [s \in SUBSET D |-> Step(it, s)]
    BY <1>3, <2>1 DEF Solves
  <2>3. Solution = [s \in SUBSET D |-> Step(Solution, s)]
    BY <2>2
  <2> HIDE DEF Solution
  <2>4. \A s \in SUBSET D : s = {} \/ Solution[s \ {pick[s]}] \in R =>
          Solution[s] = Taking(<<copy>>, op, pick, Solution, s)
    BY <1>4, <2>3
  <2> QED
    BY <1>3, <2>4 DEF Solves
<1>6. KeptBy(n, <<copy>>, op, good)
  <2>1. <<copy>> \in good[0]
    BY <1>0
  <2>2. ASSUME NEW k \in 1..n, NEW r \in good[k - 1] PROVE op[k][r] \in good[k]
    <3>1. k - 1 \in 0..n /\ k \in 0..n /\ k \in D
      BY <1>0
    <3>2. r \in R /\ From(r, k - 1) /\ (distinct => Apart(r))
      BY <3>1
    <3>3. From(r, k)
      BY <1>0, <3>2
    <3>4. CASE runs[k].id = copy.id
      <4>1. op[k][r] = r
        BY <1>2, <3>1, <3>2, <3>4
      <4> QED
        BY <3>1, <3>2, <3>3, <4>1
    <3>5. CASE runs[k].id # copy.id
      <4> DEFINE a == Append(r, runs[k])
      <4>1. op[k][r] = a /\ a \in R
        BY <1>2, <3>1, <3>2, <3>5
      <4>2. /\ DOMAIN a = 1..Len(r) + 1 /\ DOMAIN r = 1..Len(r) /\ Len(r) \in Nat
            /\ a[Len(r) + 1] = runs[k] /\ \A i \in 1..Len(r) : a[i] = r[i]
        BY <1>0, <3>1, <3>2
      <4> HIDE DEF a
      <4>3. From(a, k)
        <5>1. ASSUME NEW i \in DOMAIN a PROVE a[i] = copy \/ \E j \in 1..k : a[i] = runs[j] /\ runs[j].id # copy.id
          <6>1. i = Len(r) + 1 \/ i \in DOMAIN r
            BY <4>2
          <6> QED
            BY <1>0, <3>1, <3>3, <3>5, <4>2, <6>1
        <5> QED
          BY <5>1
      <4>4. ASSUME distinct PROVE Apart(a)
        <5>1. \A i \in DOMAIN r : r[i].id # runs[k].id
          BY <1>0, <3>1, <3>2, <3>5, <4>4
        <5>2. Apart(r)
          BY <3>2, <4>4
        <5> HIDE DEF distinct
        <5>3. ASSUME NEW i \in DOMAIN a, NEW j \in DOMAIN a, a[i].id = a[j].id PROVE i = j
          <6>1. (i = Len(r) + 1 \/ i \in DOMAIN r) /\ (j = Len(r) + 1 \/ j \in DOMAIN r)
            BY <4>2
          <6> QED
            BY <4>2, <5>1, <5>2, <5>3, <6>1
        <5> QED
          BY <5>3
      <4> QED
        BY <3>1, <4>1, <4>3, <4>4
    <3> QED
      BY <3>4, <3>5
  <2> HIDE DEF good
  <2> QED
    BY <2>1, <2>2 DEF KeptBy
<1>7. it[D] \in good[n]
  <2> HIDE DEF good, R
  <2> QED
    BY <1>0, <1>3, <1>6, LeftFoldKeeps
<1>8. InFront(copy) \in R /\ From(InFront(copy), n) /\ (distinct => Apart(InFront(copy)))
  <2>1. InFront(copy) \in good[n]
    BY <1>1, <1>5, <1>7
  <2> QED
    BY <1>0, <2>1
<1> QED
  BY <1>0, <1>8 DEF runs

\* What the server lists are runs of the repository, each once.
LEMMA ListAnalysesIs ==
  ASSUME NEW repo, analyses \in Seq(AnyRun)
  PROVE  ListAnalyses(repo) \in Seq(AnyCopy) /\ LedgerOK(ListAnalyses(repo)) /\ OfRepository(ListAnalyses(repo), repo)
<1> DEFINE n == Len(analyses)
           D == 1..n
           R == Seq(AnyCopy)
           ids == [id \in 1..n |-> id]
           Step(it, s) ==
             IF s = {} THEN <<>>
             ELSE IF analyses[ids[Max(s)]].repo = repo THEN <<CopyOf(ids[Max(s)])>> \o it[s \ {Max(s)}]
                  ELSE it[s \ {Max(s)}]
           op == [k \in D |-> [r \in R |-> IF analyses[k].repo = repo THEN <<CopyOf(k)>> \o r ELSE r]]
           pick == [s \in SUBSET D |-> Max(s)]
           Solution == CHOOSE it : it = [s \in SUBSET D |-> Step(it, s)]
           Of(r, k) == \A i \in DOMAIN r : r[i].id \in 1..k /\ analyses[r[i].id].repo = repo
           Apart(r) == \A i, j \in DOMAIN r : r[i].id = r[j].id => i = j
           good == [k \in 0..n |-> {r \in R : Of(r, k) /\ Apart(r)}]
<1>0. n \in Nat /\ DOMAIN analyses = D /\ \A k \in D : analyses[k] \in AnyRun /\ ids[k] = k
  OBVIOUS
<1>a. \A k \in D : CopyOf(k) \in AnyCopy /\ CopyOf(k).id = k
  BY <1>0 DEF CopyOf, AnyCopy, AnyRun
<1>1. ListAnalyses(repo) = Solution[D]
  <2>1. Len(ids) = n
    BY <1>0
  <2> QED
    BY <1>0, <2>1 DEF ListAnalyses, FoldLeft, MapThenFoldSet
<1>2. ASSUME NEW k \in D, NEW r \in R
      PROVE  op[k][r] = (IF analyses[k].repo = repo THEN <<CopyOf(k)>> \o r ELSE r) /\ op[k][r] \in R
  <2>1. CopyOf(k) \in AnyCopy
    BY <1>a
  <2>2. <<CopyOf(k)>> \o r \in R
    BY <2>1
  <2> QED
    BY <2>2
<1> HIDE DEF n, op
<1>3. PICK it : Solves(D, R, <<>>, op, pick, it)
  <2>1. <<>> \in R
    OBVIOUS
  <2> HIDE DEF R
  <2>2. Foldable(D, R, <<>>, op, pick)
    BY <1>0, <1>2, <2>1, LeftFoldable
  <2> HIDE DEF D, pick
  <2> QED
    BY <2>2, FoldDefines
<1>4. ASSUME NEW f, NEW s \in SUBSET D, s = {} \/ f[s \ {pick[s]}] \in R
      PROVE  Step(f, s) = Taking(<<>>, op, pick, f, s)
  <2>1. CASE s = {}
    BY <2>1 DEF Taking
  <2>2. CASE s # {}
    <3>1. pick[s] = Max(s) /\ Max(s) \in D /\ f[s \ {Max(s)}] \in R
      <4>1. s \in SUBSET (0..n)
        BY <1>0
      <4> QED
        BY <1>0, <1>4, <2>2, <4>1, MaxIs
    <3>2. ids[Max(s)] = Max(s)
      BY <1>0, <3>1
    <3> HIDE DEF ids
    <3> QED
      BY <1>2, <2>2, <3>1, <3>2 DEF Taking
  <2> QED
    BY <2>1, <2>2
<1>5. Solution[D] = it[D]
  <2>1. ASSUME NEW s \in SUBSET D PROVE it[s] = Step(it, s)
    <3>1. s = {} \/ it[s \ {pick[s]}] \in R
      BY <1>3 DEF Solves
    <3> HIDE DEF Step
    <3> QED
      BY <1>3, <1>4, <3>1 DEF Solves
  <2> HIDE DEF Step
  <2>2. it = [s \in SUBSET D |-> Step(it, s)]
    BY <1>3, <2>1 DEF Solves
  <2>3. Solution = [s \in SUBSET D |-> Step(Solution, s)]
    BY <2>2
  <2> HIDE DEF Solution
  <2>4. \A s \in SUBSET D : s = {} \/ Solution[s \ {pick[s]}] \in R =>
          Solution[s] = Taking(<<>>, op, pick, Solution, s)
    BY <1>4, <2>3
  <2> QED
    BY <1>3, <2>4 DEF Solves
<1>6. KeptBy(n, <<>>, op, good)
  <2>1. <<>> \in good[0]
    BY <1>0
  <2>2. ASSUME NEW k \in 1..n, NEW r \in good[k - 1] PROVE op[k][r] \in good[k]
    <3>1. k - 1 \in 0..n /\ k \in 0..n /\ k \in D
      BY <1>0
    <3>2. r \in R /\ Of(r, k - 1) /\ Apart(r)
      BY <3>1
    <3>3. Of(r, k)
      BY <1>0, <3>2
    <3>4. CASE analyses[k].repo # repo
      <4>1. op[k][r] = r
        BY <1>2, <3>1, <3>2, <3>4
      <4> QED
        BY <3>1, <3>2, <3>3, <4>1
    <3>5. CASE analyses[k].repo = repo
      <4> DEFINE a == <<CopyOf(k)>> \o r
      <4>1. op[k][r] = a /\ op[k][r] \in R
        <5>1. op[k][r] = (IF analyses[k].repo = repo THEN <<CopyOf(k)>> \o r ELSE r)
          BY <1>2, <3>1, <3>2
        <5>2. op[k][r] \in R
          BY <1>2, <3>1, <3>2
        <5> QED
          BY <3>5, <5>1, <5>2
      <4>2. /\ DOMAIN a = 1..Len(r) + 1 /\ DOMAIN r = 1..Len(r) /\ Len(r) \in Nat
            /\ a[1] = CopyOf(k) /\ \A i \in 2..Len(r) + 1 : a[i] = r[i - 1]
        <5>1. CopyOf(k) \in AnyCopy
          BY <1>a, <3>1
        <5> QED
          BY <1>0, <3>1, <3>2, <5>1
      <4>3. CopyOf(k).id = k
        BY <1>a, <3>1
      <4> HIDE DEF a
      <4>4. ASSUME NEW i \in DOMAIN a
            PROVE  (i = 1 /\ a[i].id = k) \/ (i - 1 \in DOMAIN r /\ a[i] = r[i - 1] /\ a[i].id # k)
        <5>1. CASE i = 1
          BY <4>2, <4>3, <5>1
        <5>2. CASE i # 1
          <6>1. i \in 2..Len(r) + 1 /\ i - 1 \in DOMAIN r
            BY <4>2, <5>2
          <6>2. r[i - 1].id \in 1..(k - 1)
            BY <3>2, <6>1
          <6> QED
            BY <3>1, <4>2, <6>1, <6>2
        <5> QED
          BY <5>1, <5>2
      <4>5. Of(a, k)
        <5>1. ASSUME NEW i \in DOMAIN a PROVE a[i].id \in 1..k /\ analyses[a[i].id].repo = repo
          BY <3>1, <3>3, <3>5, <4>4
        <5> QED
          BY <5>1
      <4>6. Apart(a)
        <5>1. ASSUME NEW i \in DOMAIN a, NEW j \in DOMAIN a, a[i].id = a[j].id PROVE i = j
          <6>1. i \in Nat /\ j \in Nat
            BY <4>2
          <6> QED
            BY <3>2, <4>4, <5>1, <6>1
        <5> QED
          BY <5>1
      <4> QED
        BY <3>1, <4>1, <4>5, <4>6
    <3> QED
      BY <3>4, <3>5
  <2> HIDE DEF good
  <2> QED
    BY <2>1, <2>2 DEF KeptBy
<1>7. it[D] \in good[n]
  <2> HIDE DEF good, R
  <2> QED
    BY <1>0, <1>3, <1>6, LeftFoldKeeps
<1>8. ListAnalyses(repo) \in R /\ Of(ListAnalyses(repo), n) /\ Apart(ListAnalyses(repo))
  <2>1. ListAnalyses(repo) \in good[n]
    BY <1>1, <1>5, <1>7
  <2> QED
    BY <1>0, <2>1
<1> QED
  BY <1>0, <1>8 DEF n, LedgerOK, OfRepository, Runs

-----------------------------------------------------------------------------
(* The bag of what is in flight                                             *)

\* Taking one request out of a bag.
LEMMA RestIs ==
  ASSUME NetOf(net), NEW m \in DOMAIN net, NEW rest, rest = net (-) SetToBag({m})
  PROVE  /\ NetOf(rest) /\ DOMAIN rest \subseteq DOMAIN net
         /\ \A x \in DOMAIN rest : rest[x] <= net[x]
         /\ net[m] = 1 => m \notin DOMAIN rest
<1>1. /\ net \in [DOMAIN net -> Nat \ {0}] /\ DOMAIN net \subseteq AnyMessage
      /\ DOMAIN SetToBag({m}) = {m} /\ SetToBag({m})[m] = 1
  BY DEF NetOf, SetToBag
<1> DEFINE left == [e \in DOMAIN net |-> IF e = m THEN net[e] - 1 ELSE net[e]]
<1>2. rest = [d \in {d \in DOMAIN left : left[d] > 0} |-> left[d]]
  BY <1>1 DEF (-)
<1>3. DOMAIN rest = {d \in DOMAIN net : left[d] > 0} /\ \A d \in DOMAIN rest : rest[d] = left[d]
  BY <1>2
<1>4. \A d \in DOMAIN net : left[d] \in Nat /\ left[d] <= net[d] /\ (d = m => left[d] = net[d] - 1)
  BY <1>1
<1>5. rest \in [DOMAIN rest -> Nat \ {0}]
  <2>1. \A d \in DOMAIN rest : rest[d] \in Nat \ {0}
    <3> HIDE DEF left
    <3> QED
      BY <1>3, <1>4
  <2> QED
    BY <1>2, <2>1
<1> HIDE DEF left
<1>6. NetOf(rest)
  BY <1>1, <1>3, <1>5 DEF NetOf
<1>7. net[m] = 1 => m \notin DOMAIN rest
  BY <1>1, <1>3, <1>4
<1> QED
  BY <1>3, <1>4, <1>6, <1>7

\* Sending messages, each once.
Sent(sum, bag, new) == NetOf(bag) /\ new \subseteq AnyMessage /\ sum = bag (+) SetToBag(new)

Sum(sum, bag, new) ==
  /\ NetOf(sum) /\ DOMAIN sum = DOMAIN bag \cup new
  /\ \A x \in DOMAIN bag \ new : sum[x] = bag[x]
  /\ \A x \in new \ DOMAIN bag : sum[x] = 1

LEMMA SentIs ==
  ASSUME NEW bag, NEW new, NEW sum, Sent(sum, bag, new)
  PROVE  Sum(sum, bag, new)
<1>1. /\ bag \in [DOMAIN bag -> Nat \ {0}] /\ DOMAIN bag \subseteq AnyMessage
      /\ DOMAIN SetToBag(new) = new /\ \A x \in new : SetToBag(new)[x] = 1
  BY DEF Sent, NetOf, SetToBag
<1>2. sum = [e \in DOMAIN bag \cup new |->
               (IF e \in DOMAIN bag THEN bag[e] ELSE 0) + (IF e \in new THEN SetToBag(new)[e] ELSE 0)]
  BY <1>1 DEF Sent, (+)
<1>3. DOMAIN sum = DOMAIN bag \cup new /\ \A e \in DOMAIN sum :
        sum[e] = (IF e \in DOMAIN bag THEN bag[e] ELSE 0) + (IF e \in new THEN 1 ELSE 0)
  BY <1>1, <1>2
<1>4. \A e \in DOMAIN sum : sum[e] \in Nat \ {0}
  BY <1>1, <1>3
<1>5. sum \in [DOMAIN sum -> Nat \ {0}]
  BY <1>2, <1>3, <1>4
<1>6. NetOf(sum)
  BY <1>1, <1>3, <1>5 DEF Sent, NetOf
<1>7. \A x \in DOMAIN bag \ new : sum[x] = bag[x]
  <2>1. \A x \in DOMAIN bag : bag[x] \in Nat
    BY <1>1
  <2> QED
    BY <1>3, <2>1
<1>8. \A x \in new \ DOMAIN bag : sum[x] = 1
  BY <1>3
<1> QED
  BY <1>3, <1>6, <1>7, <1>8 DEF Sum

\* Whatever is in a bag and is not new was in flight before, at least as often.
Carried(bag, new) ==
  /\ NetOf(bag) /\ DOMAIN bag \subseteq DOMAIN net \cup new
  /\ \A x \in DOMAIN bag : x \notin new => bag[x] <= net[x]

LEMMA AskedIs ==
  ASSUME NEW kind \in Kinds, NEW repo \in Repository \cup {Nobody}, NEW about \in Sha, NEW id \in Nat
  PROVE  /\ Asked(kind, repo, about, id) \in AnyMessage
         /\ Asked(kind, repo, about, id).kind = kind /\ Asked(kind, repo, about, id).repo = repo
         /\ Asked(kind, repo, about, id).id = id /\ ~Asked(kind, repo, about, id).answered
BY DEF Asked, AnyMessage

\* One request more.
LEMMA AskedCarries ==
  ASSUME NetOf(net), NEW m \in AnyMessage, net' = net (+) SetToBag({m})
  PROVE  Carried(net', {m}) /\ m \in DOMAIN net' /\ (m \notin DOMAIN net => net'[m] = 1)
<1>1. {m} \subseteq AnyMessage
  OBVIOUS
<1>2. /\ NetOf(net') /\ DOMAIN net' = DOMAIN net \cup {m}
      /\ \A x \in DOMAIN net \ {m} : net'[x] = net[x]
      /\ \A x \in {m} \ DOMAIN net : net'[x] = 1
  <2>1. Sent(net', net, {m})
    BY <1>1 DEF Sent
  <2>2. Sum(net', net, {m})
    BY <2>1, SentIs
  <2> QED
    BY <2>2 DEF Sum
<1>3. \A x \in DOMAIN net : net[x] \in Nat
  BY DEF NetOf
<1> QED
  BY <1>2, <1>3 DEF Carried

\* What the handler turned a request into.
Reply(m, n, runs) == [m EXCEPT !.answered = TRUE, !.n = n, !.runs = runs]

LEMMA ReplyIs ==
  ASSUME NEW m \in AnyMessage, NEW n \in Nat, NEW runs \in Seq(AnyCopy)
  PROVE  /\ Reply(m, n, runs) \in AnyMessage /\ Reply(m, n, runs).kind = m.kind
         /\ Reply(m, n, runs).repo = m.repo /\ Reply(m, n, runs).id = m.id
         /\ Reply(m, n, runs).n = n /\ Reply(m, n, runs).runs = runs /\ Reply(m, n, runs).answered
BY DEF AnyMessage, Reply

\* A reply is in flight instead of one request.
Replaced(m, a) ==
  Carried(net', {a}) /\ (net[m] = 1 => m \notin DOMAIN net') /\ (a \notin DOMAIN net => net'[a] = 1)

LEMMA AnsweredIs ==
  ASSUME NetOf(net), NEW m \in DOMAIN net, ~m.answered,
         NEW n \in Nat, NEW runs \in Seq(AnyCopy), Answered(m, n, runs)
  PROVE  Replaced(m, Reply(m, n, runs))
<1>a. PICK a : a = Reply(m, n, runs)
  OBVIOUS
<1>b. PICK rest : rest = net (-) SetToBag({m})
  OBVIOUS
<1>1. m \in AnyMessage
  BY DEF NetOf
<1>2. /\ a \in AnyMessage /\ a.kind = m.kind /\ a.repo = m.repo /\ a.id = m.id
      /\ a.n = n /\ a.runs = runs /\ a.answered
  BY <1>1, <1>a, ReplyIs
<1>3. /\ NetOf(rest) /\ DOMAIN rest \subseteq DOMAIN net
      /\ \A x \in DOMAIN rest : rest[x] <= net[x]
      /\ net[m] = 1 => m \notin DOMAIN rest
  BY <1>b, RestIs
<1>4. net' = rest (+) SetToBag({a})
  BY <1>a, <1>b DEF Answered, Reply
<1>5. /\ NetOf(net') /\ DOMAIN net' = DOMAIN rest \cup {a}
      /\ \A x \in DOMAIN rest \ {a} : net'[x] = rest[x]
      /\ \A x \in {a} \ DOMAIN rest : net'[x] = 1
  <2>1. {a} \subseteq AnyMessage
    BY <1>2
  <2>2. Sent(net', rest, {a})
    BY <1>3, <1>4, <2>1 DEF Sent
  <2>3. Sum(net', rest, {a})
    BY <2>2, SentIs
  <2> QED
    BY <2>3 DEF Sum
<1>6. a # m
  BY <1>2
<1>7. Carried(net', {a})
  BY <1>3, <1>5 DEF Carried
<1> QED
  BY <1>2, <1>3, <1>5, <1>6, <1>7, <1>a DEF Replaced

\* What the effects of a state change send.
New(s) == Loads(s) \cup IF s.selectedId # screen.selectedId THEN Lists(s) ELSE {}

LEMMA NewIs ==
  ASSUME NEW s \in AnyScreen, NEW x \in New(s)
  PROVE  /\ x \in AnyMessage /\ ~x.answered /\ x.repo = s.selectedId /\ x.repo \in Repository
         /\ x.kind \in {"graph", "architecture", "analyses"}
         /\ x.kind = "analyses" => s.selectedId # screen.selectedId
<1>1. PublishedSha(s) \in Sha
  <2>1. NoSnapshot \in Sha
    BY DEF NoSnapshot, Sha, Nobody
  <2>2. ASSUME HasRun(s) PROVE s.runs[1].sha \in Sha
    <3>1. s.runs \in Seq(AnyCopy) /\ s.runs # <<>>
      BY <2>2 DEF AnyScreen, HasRun
    <3>2. s.runs[1] \in AnyCopy
      BY <3>1
    <3> QED
      BY <3>2 DEF AnyCopy
  <2> QED
    BY <2>1, <2>2 DEF PublishedSha
<1>2. s.selectedId \in Repository \cup {Nobody} /\ NoSnapshot \in Sha /\ 0 \in Nat
  BY DEF AnyScreen, NoSnapshot, Sha, Nobody
<1>3. {"graph", "architecture", "analyses"} \subseteq Kinds
  BY DEF Kinds
<1>4. CASE x \in Loads(s)
  <2>1. s.selectedId \in Repository
    BY <1>2, <1>4 DEF Loads
  <2>2. PICK k \in {"graph", "architecture"} : x = Asked(k, s.selectedId, PublishedSha(s), 0)
    BY <1>4 DEF Loads
  <2> QED
    BY <1>1, <1>2, <1>3, <2>1, <2>2, AskedIs
<1>5. CASE x \in Lists(s) /\ s.selectedId # screen.selectedId
  <2>1. s.selectedId \in Repository
    BY <1>2, <1>5 DEF Lists
  <2>2. x = Asked("analyses", s.selectedId, NoSnapshot, 0)
    BY <1>5 DEF Lists
  <2> QED
    BY <1>2, <1>3, <1>5, <2>1, <2>2, AskedIs
<1> QED
  BY <1>4, <1>5 DEF New

\* A state change leaves of the bag what no clean-up cancels, and sends the new requests.
LEMMA RenderedIs ==
  ASSUME NEW s \in AnyScreen, NEW rest, NetOf(net), NetOf(rest), DOMAIN rest \subseteq DOMAIN net,
         \A x \in DOMAIN rest : rest[x] <= net[x], Render(s, rest)
  PROVE  screen' = s /\ Carried(net', New(s)) /\ DOMAIN net' \subseteq DOMAIN rest \cup New(s)
<1> DEFINE keeps == {m \in BagToSet(rest) : m.kind \notin Cancelled}
           reload == Dependencies(s) # Dependencies(screen)
<1>a. PICK kept : kept = IF reload THEN [m \in keeps |-> rest[m]] ELSE rest
  OBVIOUS
<1>b. PICK loads : loads = IF reload THEN Loads(s) ELSE {}
  OBVIOUS
<1>c. PICK lists : lists = IF s.selectedId # screen.selectedId THEN Lists(s) ELSE {}
  OBVIOUS
<1>d. PICK sum : sum = kept (+) SetToBag(loads)
  OBVIOUS
<1>1. NetOf(kept) /\ DOMAIN kept \subseteq DOMAIN rest /\ \A x \in DOMAIN kept : kept[x] = rest[x]
  <2>1. keeps \subseteq DOMAIN rest
    BY DEF BagToSet
  <2> HIDE DEF keeps, reload
  <2>2. DOMAIN rest \subseteq AnyMessage /\ rest \in [DOMAIN rest -> Nat \ {0}]
    BY DEF NetOf
  <2>3. CASE reload
    <3>1. kept = [m \in keeps |-> rest[m]]
      BY <1>a, <2>3
    <3> QED
      BY <2>1, <2>2, <3>1 DEF NetOf
  <2>4. CASE ~reload
    <3>1. kept = rest
      BY <1>a, <2>4
    <3> QED
      BY <3>1
  <2> QED
    BY <2>3, <2>4
<1>2. screen' = s /\ net' = sum (+) SetToBag(lists)
  BY <1>a, <1>b, <1>c, <1>d DEF Render
<1> HIDE DEF keeps, reload
<1>3. loads \subseteq New(s) /\ lists \subseteq New(s) /\ New(s) \subseteq AnyMessage
  <2>1. loads \subseteq New(s) /\ lists \subseteq New(s)
    BY <1>b, <1>c DEF New
  <2> QED
    BY <2>1, NewIs
<1>4. Sum(sum, kept, loads)
  <2>1. Sent(sum, kept, loads)
    BY <1>1, <1>3, <1>d DEF Sent
  <2> QED
    BY <2>1, SentIs
<1>5. Sum(net', sum, lists)
  <2>1. Sent(net', sum, lists)
    BY <1>2, <1>3, <1>4 DEF Sent, Sum
  <2> QED
    BY <2>1, SentIs
<1>6. NetOf(net') /\ DOMAIN net' \subseteq DOMAIN rest \cup New(s)
  BY <1>1, <1>3, <1>4, <1>5 DEF Sum
<1>7. ASSUME NEW x \in DOMAIN net', x \notin New(s) PROVE net'[x] <= net[x]
  <2>1. x \notin loads /\ x \notin lists
    BY <1>3, <1>7
  <2>2. x \in DOMAIN sum /\ net'[x] = sum[x]
    BY <1>5, <2>1 DEF Sum
  <2>3. x \in DOMAIN kept /\ sum[x] = kept[x]
    BY <1>4, <2>1, <2>2 DEF Sum
  <2> QED
    BY <1>1, <2>2, <2>3
<1> QED
  BY <1>2, <1>6, <1>7 DEF Carried

-----------------------------------------------------------------------------
(* What a step leaves true of what is in flight                             *)

\* Runs are never lost and never change their repository.
Grown == /\ Len(analyses) <= Len(analyses')
         /\ \A id \in Runs : analyses'[id].repo = analyses[id].repo

LEMMA LedgersStay ==
  ASSUME Grown, Typed, Typed', NEW runs, LedgerOK(runs)
  PROVE  LedgerOK(runs)' /\ \A repo : OfRepository(runs, repo) => OfRepository(runs, repo)'
<1>1. Len(analyses) \in Nat /\ Len(analyses') \in Nat
  BY DEF Typed
<1>2. \A id \in Runs : id \in Runs' /\ analyses'[id].repo = analyses[id].repo
  BY <1>1 DEF Grown, Runs
<1> QED
  BY <1>2 DEF LedgerOK, OfRepository

\* A request of which there is one stays the only one of its kind if none of that kind is new.
LEMMA SingleStays ==
  ASSUME NetOf(net'), NEW new, Carried(net', new), NEW x \in DOMAIN net', x \notin new,
         SingleIn(net, x), \A y \in new : y.kind # x.kind
  PROVE  SingleIn(net', x)
<1>1. x \in DOMAIN net /\ net'[x] <= net[x] /\ net'[x] \in Nat \ {0}
  BY DEF Carried, NetOf
<1>2. net'[x] = 1
  BY <1>1 DEF SingleIn
<1>3. ASSUME NEW other \in DOMAIN net', other.kind = x.kind PROVE other = x
  <2>1. other \in DOMAIN net
    BY <1>3 DEF Carried
  <2> QED
    BY <1>3, <2>1 DEF SingleIn
<1> QED
  BY <1>2, <1>3 DEF SingleIn

\* A message that is not new stays what it was.
LEMMA SoundStays ==
  ASSUME Typed, Typed', Grown, NEW new, Carried(net', new), NEW x \in DOMAIN net', x \notin new,
         Sound(net, x), \A y \in new : y.kind \in Alone => y.kind # x.kind
  PROVE  Sound(net, x)'
<1>1. Len(analyses) \in Nat /\ Len(analyses') \in Nat
  BY DEF Typed
<1>2. \A id \in Runs : id \in Runs' /\ analyses'[id].repo = analyses[id].repo
  BY <1>1 DEF Grown, Runs
<1>4. ASSUME x.kind \in Alone PROVE SingleIn(net', x)
  <2>1. SingleIn(net, x) /\ NetOf(net')
    BY <1>4 DEF Sound, Typed
  <2>2. \A y \in new : y.kind # x.kind
    BY <1>4 DEF Alone
  <2> QED
    BY <2>1, <2>2, SingleStays
<1>5. ASSUME x.kind = "analyses", x.answered
      PROVE  LedgerOK(x.runs)' /\ OfRepository(x.runs, x.repo)'
  <2>1. LedgerOK(x.runs) /\ OfRepository(x.runs, x.repo)
    BY <1>5 DEF Sound
  <2> QED
    BY <2>1, LedgersStay
<1> QED
  BY <1>2, <1>4, <1>5 DEF Sound

\* Nobody outran what was sent for the ledger that is shown.
LEMMA MeantStays ==
  ASSUME Grown, NetOf(net'), NEW new, Carried(net', new), NEW x \in DOMAIN net', x \notin new,
         Sound(net, x), Meant(net, x, screen.selectedId, screen.runs),
         x.kind = "repositories" =>
           screen'.selectedId = screen.selectedId /\ screen'.runs = screen.runs
           /\ \A y \in new : y \in DOMAIN net' => y.kind \notin Unguarded,
         x.kind = "register" => \A y \in new : y.kind # "register",
         screen'.selectedId = screen.selectedId \/ x.kind \notin Unguarded
  PROVE  Meant(net, x, screen.selectedId, screen.runs)'
<1>1. \A id \in Runs : analyses'[id].repo = analyses[id].repo
  BY DEF Grown
<1>2. x.kind = "poll" => x.id \in Runs
  BY DEF Sound
<1>3. x.kind = "create" /\ x.answered => x.runs[1].id \in Runs
  BY DEF Sound
<1>4. ASSUME x.kind = "repositories", NEW other \in DOMAIN net', other.kind \in Unguarded
      PROVE  other = x
  <2>1. other \in DOMAIN net
    BY <1>4 DEF Carried
  <2> QED
    BY <1>4, <2>1 DEF Meant
<1>5. ASSUME x.kind = "register" PROVE SingleIn(net', x)
  <2>1. SingleIn(net, x) /\ \A y \in new : y.kind # x.kind
    BY <1>5 DEF Meant
  <2> QED
    BY <2>1, SingleStays
<1> QED
  BY <1>1, <1>2, <1>3, <1>4, <1>5 DEF Meant, Unguarded

LEMMA AllSound ==
  ASSUME BrowserInv, Typed', Grown, NEW new, Carried(net', new),
         \A x \in DOMAIN net' : x \in new => Sound(net, x)',
         \A x \in DOMAIN net' : \A y \in new : x \notin new /\ y.kind \in Alone => y.kind # x.kind
  PROVE  \A x \in DOMAIN net' : Sound(net, x)'
<1> SUFFICES ASSUME NEW x \in DOMAIN net', x \notin new PROVE Sound(net, x)'
  OBVIOUS
<1>1. Sound(net, x) /\ Typed
  BY DEF BrowserInv, Carried
<1> QED
  BY <1>1, SoundStays

LEMMA AllMeant ==
  ASSUME BrowserInv, ~disturbed, Grown, NetOf(net'), NEW new, Carried(net', new),
         \A x \in DOMAIN net' : x \in new => Meant(net, x, screen.selectedId, screen.runs)',
         \A x \in DOMAIN net' : x \notin new /\ x.kind = "repositories" =>
           screen'.selectedId = screen.selectedId /\ screen'.runs = screen.runs
           /\ \A y \in new : y \in DOMAIN net' => y.kind \notin Unguarded,
         \A x \in DOMAIN net' : x \notin new /\ x.kind = "register" =>
           \A y \in new : y.kind # "register",
         \A x \in DOMAIN net' : x \notin new =>
           screen'.selectedId = screen.selectedId \/ x.kind \notin Unguarded
  PROVE  \A x \in DOMAIN net' : Meant(net, x, screen.selectedId, screen.runs)'
<1> SUFFICES ASSUME NEW x \in DOMAIN net', x \notin new
             PROVE  Meant(net, x, screen.selectedId, screen.runs)'
  OBVIOUS
<1>1. Sound(net, x) /\ Meant(net, x, screen.selectedId, screen.runs)
  BY DEF BrowserInv, Carried
<1> QED
  BY <1>1, MeantStays

-----------------------------------------------------------------------------
(* The server's steps                                                       *)

LEMMA InitFits == Init => BrowserInv
<1> SUFFICES ASSUME Init PROVE BrowserInv
  OBVIOUS
<1> DEFINE m == Asked("repositories", Nobody, NoSnapshot, 0)
<1>1. 1 \in Repository
  BY DashboardAssumption DEF Repository
<1>2. NoSnapshot \in Sha /\ Nobody \in Repository \cup {Nobody}
  BY DEF NoSnapshot, Sha
<1>3. m \in AnyMessage /\ m.kind = "repositories" /\ ~m.answered
  BY <1>2, AskedIs DEF Kinds
<1> HIDE DEF m
<1>4. net = SetToBag({m})
  BY DEF Init, m
<1>5. DOMAIN net = {m} /\ net[m] = 1 /\ net = [e \in {m} |-> 1]
  BY <1>4 DEF SetToBag
<1>6. NetOf(net)
  BY <1>3, <1>5 DEF NetOf
<1>7. screen \in AnyScreen /\ screen.runs = <<>> /\ screen.selectedId = Nobody
  BY <1>2 DEF Init, AnyScreen
<1>8. Typed
  <2>1. registered = 1 /\ analyses = <<>> /\ disturbed = FALSE /\ snapshots = [r \in Repository |-> 0]
    BY DEF Init
  <2>2. analyses \in Seq(AnyRun) /\ snapshots \in [Repository -> Nat]
    BY <2>1
  <2> QED
    BY <1>1, <1>6, <1>7, <2>1, <2>2 DEF Typed
<1>9. Sound(net, m) /\ Meant(net, m, screen.selectedId, screen.runs)
  BY <1>3, <1>5, <1>7 DEF Sound, Meant, SingleIn, Alone
<1> QED
  BY <1>5, <1>7, <1>8, <1>9 DEF BrowserInv, LedgerOK, OfRepository

\* The net and the screen stay, and the runs of the server go on.
LEMMA AtTheServer ==
  ASSUME BrowserInv, analyses' \in Seq(AnyRun), snapshots' \in [Repository -> Nat], Grown,
         registered' = registered, screen' = screen, net' = net, disturbed' \in {disturbed, TRUE}
  PROVE  BrowserInv'
<1>1. Typed'
  BY DEF BrowserInv, Typed
<1>2. Carried(net', {})
  <2>1. NetOf(net)
    BY DEF BrowserInv, Typed
  <2>2. \A x \in DOMAIN net : net[x] \in Nat
    BY <2>1 DEF NetOf
  <2>3. \A x \in DOMAIN net : net[x] <= net[x]
    BY <2>2
  <2>4. NetOf(net')
    BY <2>1
  <2> QED
    BY <2>3, <2>4 DEF Carried
<1>3. \A x \in DOMAIN net' : Sound(net, x)'
  BY <1>1, <1>2, AllSound
<1>4. LedgerOK(screen.runs)' /\ (OfRepository(screen.runs, screen.selectedId) =>
                                   OfRepository(screen.runs, screen.selectedId)')
  <2>1. LedgerOK(screen.runs) /\ Typed
    BY DEF BrowserInv
  <2> QED
    BY <1>1, <2>1, LedgersStay
<1>5. ASSUME ~disturbed' PROVE \A x \in DOMAIN net' : Meant(net, x, screen.selectedId, screen.runs)'
  <2>1. ~disturbed
    BY <1>5
  <2>2. NetOf(net')
    BY <1>2 DEF Carried
  <2>3. screen'.selectedId = screen.selectedId /\ screen'.runs = screen.runs
    OBVIOUS
  <2> QED
    BY <1>2, <2>1, <2>2, <2>3, AllMeant
<1> QED
  BY <1>1, <1>3, <1>4, <1>5 DEF BrowserInv

LEMMA WorkKeeps == ASSUME BrowserInv, NEW id, Work(id) PROVE BrowserInv'
<1>1. /\ analyses \in Seq(AnyRun) /\ snapshots \in [Repository -> Nat] /\ id \in 1..Len(analyses)
      /\ registered' = registered /\ screen' = screen /\ net' = net /\ disturbed' = disturbed
  BY DEF Work, BrowserInv, Typed
<1>2. analyses[id] \in AnyRun /\ analyses[id].repo \in Repository
  <2>1. analyses[id] \in AnyRun
    BY <1>1
  <2> QED
    BY <2>1 DEF AnyRun
<1>3. PICK run \in AnyRun : run.repo = analyses[id].repo /\ analyses' = [analyses EXCEPT ![id] = run]
                              /\ snapshots' \in [Repository -> Nat]
  <2> DEFINE repo == analyses[id].repo
  <2>1. CASE \E state \in {"RUNNING", "FAILED"} :
               analyses' = [analyses EXCEPT ![id].state = state] /\ snapshots' = snapshots
    <3>1. PICK state \in {"RUNNING", "FAILED"} :
                 analyses' = [analyses EXCEPT ![id].state = state] /\ snapshots' = snapshots
      BY <2>1
    <3>2. [analyses[id] EXCEPT !.state = state] \in AnyRun
          /\ [analyses[id] EXCEPT !.state = state].repo = repo
      BY <1>2 DEF AnyRun, AnalysisState
    <3> QED
      BY <1>1, <3>1, <3>2
  <2>2. CASE \E n \in 1..snapshots[repo] + 1 :
               /\ analyses' = [analyses EXCEPT ![id] =
                    [repo |-> repo, state |-> "SUCCEEDED", sha |-> [repo |-> repo, n |-> n]]]
               /\ snapshots' = [snapshots EXCEPT ![repo] = IF n > @ THEN n ELSE @]
    <3>1. PICK n \in 1..snapshots[repo] + 1 :
               /\ analyses' = [analyses EXCEPT ![id] =
                    [repo |-> repo, state |-> "SUCCEEDED", sha |-> [repo |-> repo, n |-> n]]]
               /\ snapshots' = [snapshots EXCEPT ![repo] = IF n > @ THEN n ELSE @]
      BY <2>2
    <3>2. n \in Nat
      BY <1>1, <1>2
    <3>3. [repo |-> repo, state |-> "SUCCEEDED", sha |-> [repo |-> repo, n |-> n]] \in AnyRun
      BY <1>2, <3>2 DEF AnyRun, Sha, AnalysisState
    <3>4. snapshots' \in [Repository -> Nat]
      BY <1>1, <3>1, <3>2
    <3> QED
      BY <3>1, <3>3, <3>4
  <2> QED
    BY <2>1, <2>2 DEF Work
<1>4. analyses' \in Seq(AnyRun) /\ Grown
  <2>1. analyses' \in Seq(AnyRun) /\ Len(analyses') = Len(analyses)
    BY <1>1, <1>3
  <2>2. \A other \in Runs : analyses'[other].repo = analyses[other].repo
    BY <1>1, <1>3 DEF Runs
  <2> QED
    BY <1>1, <2>1, <2>2 DEF Grown
<1> QED
  BY <1>1, <1>3, <1>4, AtTheServer

\* A run more at the end.
LEMMA QueuedGrows ==
  ASSUME Typed, NEW repo \in Repository, analyses' = Append(analyses, Queued(repo))
  PROVE  /\ analyses' \in Seq(AnyRun) /\ Grown /\ Len(analyses) + 1 \in Runs'
         /\ analyses'[Len(analyses) + 1].repo = repo /\ Len(analyses) + 1 \in Nat
<1>1. analyses \in Seq(AnyRun)
  BY DEF Typed
<1>2. Queued(repo) \in AnyRun /\ Queued(repo).repo = repo
  BY DEF Queued, AnyRun, AnalysisState, NoSnapshot, Sha, Nobody
<1>3. /\ analyses' \in Seq(AnyRun) /\ Len(analyses') = Len(analyses) + 1 /\ Len(analyses) \in Nat
      /\ analyses'[Len(analyses) + 1] = Queued(repo)
      /\ \A id \in 1..Len(analyses) : analyses'[id] = analyses[id]
  BY <1>1, <1>2
<1> QED
  BY <1>2, <1>3 DEF Grown, Runs

LEMMA OtherStartsKeeps == ASSUME BrowserInv, NEW repo \in Repository, OtherStarts(repo) PROVE BrowserInv'
<1>1. /\ Typed /\ snapshots \in [Repository -> Nat] /\ analyses' = Append(analyses, Queued(repo))
      /\ registered' = registered /\ screen' = screen /\ net' = net
      /\ disturbed' = TRUE /\ snapshots' = snapshots
  BY DEF OtherStarts, BrowserInv, Typed
<1>2. analyses' \in Seq(AnyRun) /\ Grown
  BY <1>1, QueuedGrows
<1> QED
  BY <1>1, <1>2, AtTheServer

\* A handler answers with what is true of its reply.
LEMMA ReplyKeeps ==
  ASSUME BrowserInv, NEW m \in DOMAIN net, ~m.answered,
         NEW n \in Nat, NEW runs \in Seq(AnyCopy), Answered(m, n, runs),
         analyses' \in Seq(AnyRun), Grown, registered' \in Repository,
         UNCHANGED <<snapshots, screen, disturbed>>,
         m.kind = "register" \/ registered' = registered,
         m.kind \in Selecting => n \in Repository,
         m.kind \in {"create", "poll"} => Len(runs) = 1 /\ runs[1].id \in Runs',
         m.kind = "poll" => runs[1].id = m.id,
         m.kind = "create" => analyses'[runs[1].id].repo = m.repo,
         m.kind = "analyses" => LedgerOK(runs)' /\ OfRepository(runs, m.repo)'
  PROVE  BrowserInv'
<1>a. PICK a : a = Reply(m, n, runs)
  OBVIOUS
<1>0. Typed /\ NetOf(net) /\ Sound(net, m) /\ m \in AnyMessage /\ screen' = screen
  BY DEF BrowserInv, Typed, NetOf
<1>1. /\ a \in AnyMessage /\ a.kind = m.kind /\ a.repo = m.repo /\ a.id = m.id
      /\ a.n = n /\ a.runs = runs /\ a.answered
  BY <1>0, <1>a, ReplyIs
<1>b. Carried(net', {a})
  BY <1>0, <1>a, AnsweredIs DEF Replaced
<1>c. (net[m] = 1 => m \notin DOMAIN net') /\ (a \notin DOMAIN net => net'[a] = 1)
  BY <1>0, <1>a, AnsweredIs DEF Replaced
<1>2. Typed'
  BY <1>0, <1>b DEF Carried, Typed
<1>3. \A x \in DOMAIN net' : x # a => x \in DOMAIN net
  BY <1>b DEF Carried
<1>4. ASSUME SingleIn(net, m)
      PROVE  SingleIn(net', a) /\ \A x \in DOMAIN net' : x # a => x.kind # m.kind
  <2>2. m \notin DOMAIN net'
    BY <1>c, <1>4 DEF SingleIn
  <2>3. \A x \in DOMAIN net : x.kind = m.kind => x = m
    BY <1>4 DEF SingleIn
  <2>4. a \notin DOMAIN net
    BY <1>1, <2>3
  <2>5. \A x \in DOMAIN net' : x # a => x.kind # m.kind
    BY <1>3, <2>2, <2>3
  <2> QED
    BY <1>1, <1>c, <2>4, <2>5 DEF SingleIn
<1>s. m.kind \in Alone => SingleIn(net, m)
  BY <1>0 DEF Sound
<1>5. Sound(net, a)'
  <2>1. m.kind \in {"create", "graph", "architecture"} => m.repo \in Repository
    BY <1>0 DEF Sound
  <2>2. m.kind = "poll" => m.id \in Runs'
    BY DEF Runs
  <2> QED
    BY <1>1, <1>4, <1>s, <2>1, <2>2 DEF Sound
<1>6. \A x \in DOMAIN net' : Sound(net, x)'
  <2>1. \A x \in DOMAIN net' : x \in {a} => Sound(net, x)'
    BY <1>5
  <2>2. \A x \in DOMAIN net' : \A y \in {a} : x \notin {a} /\ y.kind \in Alone => y.kind # x.kind
    BY <1>1, <1>4, <1>s
  <2> HIDE DEF BrowserInv
  <2> QED
    BY <1>2, <1>b, <2>1, <2>2, AllSound
<1>7. LedgerOK(screen.runs)' /\ (OfRepository(screen.runs, screen.selectedId) =>
                                   OfRepository(screen.runs, screen.selectedId)')
  <2>1. LedgerOK(screen.runs)
    BY DEF BrowserInv
  <2> QED
    BY <1>0, <1>2, <2>1, LedgersStay
<1>8. ASSUME ~disturbed'
      PROVE  \A x \in DOMAIN net' : Meant(net, x, screen.selectedId, screen.runs)'
  <2>1. ~disturbed /\ Meant(net, m, screen.selectedId, screen.runs)
    BY <1>8 DEF BrowserInv
  <2>2. Meant(net, a, screen.selectedId, screen.runs)'
    <3>1. ASSUME a.kind = "repositories", NEW other \in DOMAIN net', other.kind \in Unguarded
          PROVE  other = a
      <4>1. SUFFICES ASSUME other # a PROVE FALSE
        OBVIOUS
      <4>2. other \in DOMAIN net /\ other = m
        BY <1>1, <1>3, <2>1, <3>1, <4>1 DEF Meant
      <4> QED
        BY <1>1, <1>4, <1>s, <3>1, <4>1, <4>2 DEF Alone
    <3>2. m.kind = "poll" => analyses'[m.id].repo = screen.selectedId
      <4>1. m.kind = "poll" => m.id \in Runs /\ analyses[m.id].repo = screen.selectedId
        BY <1>0, <2>1 DEF Sound, Meant
      <4> QED
        BY <4>1 DEF Grown
    <3>3. m.kind = "register" => SingleIn(net', a)
      BY <1>4, <2>1 DEF Meant
    <3> QED
      BY <1>0, <1>1, <2>1, <3>1, <3>2, <3>3 DEF Meant
  <2>3. ASSUME NEW x \in DOMAIN net', x # a, x.kind = "repositories" PROVE m.kind \notin Unguarded
    <3>1. SUFFICES ASSUME m.kind \in Unguarded PROVE FALSE
      OBVIOUS
    <3>2. Meant(net, x, screen.selectedId, screen.runs)
      BY <1>3, <2>1, <2>3 DEF BrowserInv
    <3>3. m = x
      BY <2>3, <3>1, <3>2 DEF Meant
    <3> QED
      BY <1>4, <1>s, <2>3, <3>3 DEF Alone
  <2>4. ASSUME NEW x \in DOMAIN net', x # a, x.kind = "register" PROVE a.kind # "register"
    <3>1. SUFFICES ASSUME m.kind = "register" PROVE FALSE
      BY <1>1
    <3>2. SingleIn(net, m)
      BY <2>1, <3>1 DEF Meant
    <3> QED
      BY <1>4, <2>4, <3>1, <3>2
  <2>5. NetOf(net')
    BY <1>2 DEF Typed
  <2> QED
    BY <1>0, <1>1, <1>b, <2>1, <2>2, <2>3, <2>4, <2>5, AllMeant
<1> QED
  BY <1>0, <1>2, <1>6, <1>7, <1>8 DEF BrowserInv

LEMMA AnswerKeeps == ASSUME BrowserInv, NEW m \in BagToSet(net), Answer(m) PROVE BrowserInv'
<1>0. /\ Typed /\ m \in DOMAIN net /\ m \in AnyMessage /\ ~m.answered /\ Sound(net, m)
      /\ UNCHANGED <<snapshots, screen, disturbed>>
  BY DEF Answer, BrowserInv, Typed, NetOf, BagToSet
<1>t. /\ analyses \in Seq(AnyRun) /\ Len(analyses) \in Nat /\ registered \in Repository
      /\ Repository \subseteq Nat /\ snapshots \in [Repository -> Nat]
  BY <1>0, DashboardAssumption DEF Typed, Repository
<1>g. analyses' = analyses => Grown
  BY <1>t DEF Grown
<1>e. <<>> \in Seq(AnyCopy)
  OBVIOUS
<1>1. CASE m.kind = "repositories"
  <2>1. Answered(m, registered, <<>>) /\ registered' = registered /\ analyses' = analyses
    BY <1>1 DEF Answer
  <2>2. registered \in Nat
    BY <1>t
  <2> QED
    BY <1>0, <1>1, <1>t, <1>g, <1>e, <2>1, <2>2, ReplyKeeps
<1>2. CASE m.kind = "register"
  <2>1. /\ Answered(m, registered + 1, <<>>) /\ registered' = registered + 1
        /\ analyses' = analyses /\ registered < MaxRepositories
    BY <1>2 DEF Answer
  <2>2. registered + 1 \in Repository /\ registered + 1 \in Nat
    BY <1>t, <2>1, DashboardAssumption DEF Repository
  <2> QED
    BY <1>0, <1>2, <1>t, <1>g, <1>e, <2>1, <2>2, ReplyKeeps
<1>3. CASE m.kind = "analyses"
  <2>1. Answered(m, 0, ListAnalyses(m.repo)) /\ registered' = registered /\ analyses' = analyses
    BY <1>3 DEF Answer
  <2>2. ListAnalyses(m.repo) \in Seq(AnyCopy) /\ LedgerOK(ListAnalyses(m.repo))
        /\ OfRepository(ListAnalyses(m.repo), m.repo)
    BY <1>t, ListAnalysesIs
  <2>a. PICK runs : runs = ListAnalyses(m.repo)
    OBVIOUS
  <2>3. runs \in Seq(AnyCopy) /\ LedgerOK(runs)' /\ OfRepository(runs, m.repo)'
    BY <2>1, <2>2, <2>a DEF LedgerOK, OfRepository, Runs
  <2>4. Answered(m, 0, runs)
    BY <2>1, <2>a
  <2> QED
    BY <1>0, <1>3, <1>t, <1>g, <2>1, <2>3, <2>4, ReplyKeeps DEF Selecting
<1>4. CASE m.kind = "create"
  <2> DEFINE c == [id |-> Len(analyses) + 1, state |-> "QUEUED", sha |-> NoSnapshot]
  <2>1. Answered(m, 0, <<c>>) /\ registered' = registered /\ analyses' = Append(analyses, Queued(m.repo))
    BY <1>4 DEF Answer
  <2>2. m.repo \in Repository
    BY <1>0, <1>4 DEF Sound
  <2>3. /\ analyses' \in Seq(AnyRun) /\ Grown /\ Len(analyses) + 1 \in Runs'
        /\ analyses'[Len(analyses) + 1].repo = m.repo /\ Len(analyses) + 1 \in Nat
    BY <1>0, <2>1, <2>2, QueuedGrows
  <2>4. c \in AnyCopy /\ c.id = Len(analyses) + 1
    BY <2>3 DEF AnyCopy, AnalysisState, NoSnapshot, Sha, Nobody
  <2> HIDE DEF c
  <2>5. <<c>> \in Seq(AnyCopy) /\ Len(<<c>>) = 1 /\ <<c>>[1] = c
    BY <2>4
  <2> QED
    BY <1>0, <1>4, <1>t, <2>1, <2>3, <2>4, <2>5, ReplyKeeps DEF Selecting
<1>5. CASE m.kind = "poll"
  <2>1. Answered(m, 0, <<CopyOf(m.id)>>) /\ registered' = registered /\ analyses' = analyses
    BY <1>5 DEF Answer
  <2>2. m.id \in Runs /\ m.id \in Nat
    BY <1>0, <1>5 DEF Sound, AnyMessage
  <2>3. analyses[m.id] \in AnyRun
    BY <1>t, <2>2 DEF Runs
  <2>4. CopyOf(m.id) \in AnyCopy /\ CopyOf(m.id).id = m.id
    BY <2>2, <2>3 DEF CopyOf, AnyCopy, AnyRun
  <2>5. <<CopyOf(m.id)>> \in Seq(AnyCopy) /\ Len(<<CopyOf(m.id)>>) = 1 /\ <<CopyOf(m.id)>>[1] = CopyOf(m.id)
    BY <2>4
  <2>6. m.id \in Runs'
    BY <2>1, <2>2 DEF Runs
  <2> QED
    BY <1>0, <1>5, <1>t, <1>g, <2>1, <2>4, <2>5, <2>6, ReplyKeeps DEF Selecting
<1>6. CASE m.kind \in {"graph", "architecture"}
  <2>1. Answered(m, snapshots[m.repo], <<>>) /\ registered' = registered /\ analyses' = analyses
    BY <1>6 DEF Answer
  <2>2. snapshots[m.repo] \in Nat
    BY <1>0, <1>6, <1>t DEF Sound
  <2> QED
    BY <1>0, <1>6, <1>t, <1>g, <1>e, <2>1, <2>2, ReplyKeeps DEF Selecting
<1> QED
  BY <1>0, <1>1, <1>2, <1>3, <1>4, <1>5, <1>6 DEF AnyMessage, Kinds

-----------------------------------------------------------------------------
(* The component's steps                                                    *)

\* A state is shown that keeps the ledger, to which what stays in flight belongs.
LEMMA ShownKeeps ==
  ASSUME BrowserInv, NEW s \in AnyScreen, NEW rest, NetOf(rest), DOMAIN rest \subseteq DOMAIN net,
         \A x \in DOMAIN rest : rest[x] <= net[x], Render(s, rest),
         UNCHANGED server, disturbed' \in BOOLEAN, LedgerOK(s.runs),
         ~disturbed' =>
           /\ ~disturbed /\ OfRepository(s.runs, s.selectedId)
           /\ s.selectedId \in s.repositories \cup {Nobody}
           /\ \A x \in DOMAIN rest : x.kind \in Unguarded =>
                s.selectedId = screen.selectedId /\ (x.kind = "repositories" => s.runs = screen.runs)
  PROVE  BrowserInv'
<1>0. /\ Typed /\ NetOf(net) /\ analyses' = analyses /\ registered' = registered
      /\ snapshots' = snapshots
  BY DEF BrowserInv, Typed, server
<1>1. screen' = s /\ Carried(net', New(s)) /\ DOMAIN net' \subseteq DOMAIN rest \cup New(s)
  BY <1>0, RenderedIs
<1>n. PICK new : new = New(s)
  OBVIOUS
<1>c. Carried(net', new) /\ DOMAIN net' \subseteq DOMAIN rest \cup new
  BY <1>1, <1>n
<1>2. Typed'
  BY <1>0, <1>1 DEF Typed, Carried
<1>3. Grown
  BY <1>0 DEF Grown, Typed
<1>4. ASSUME NEW x \in new
      PROVE  /\ x \in AnyMessage /\ ~x.answered /\ x.repo = s.selectedId /\ x.repo \in Repository
             /\ x.kind \in {"graph", "architecture", "analyses"}
             /\ x.kind = "analyses" => s.selectedId # screen.selectedId
  BY <1>4, <1>n, NewIs
<1>5. \A x \in DOMAIN net' : Sound(net, x)'
  <2>1. \A x \in DOMAIN net' : x \in new => Sound(net, x)'
    BY <1>4 DEF Sound, Alone, Selecting
  <2>2. \A y \in new : y.kind \notin Alone
    BY <1>4 DEF Alone
  <2> QED
    BY <1>0, <1>2, <1>3, <1>c, <2>1, <2>2, AllSound
<1>6. ASSUME ~disturbed' PROVE \A x \in DOMAIN net' : Meant(net, x, screen.selectedId, screen.runs)'
  <2>1. \A x \in DOMAIN net' : x \in new => Meant(net, x, screen.selectedId, screen.runs)'
    BY <1>1, <1>4 DEF Meant
  <2>2. ASSUME NEW x \in DOMAIN net', x \notin new, x.kind = "repositories"
        PROVE  /\ screen'.selectedId = screen.selectedId /\ screen'.runs = screen.runs
               /\ \A y \in new : y \in DOMAIN net' => y.kind \notin Unguarded
    <3>1. x \in DOMAIN rest /\ x.kind \in Unguarded
      BY <1>c, <2>2 DEF Unguarded
    <3>2. s.selectedId = screen.selectedId /\ s.runs = screen.runs
      BY <1>6, <2>2, <3>1
    <3> QED
      BY <1>1, <1>4, <3>2 DEF Unguarded
  <2>3. ASSUME NEW x \in DOMAIN net', x \notin new
        PROVE  screen'.selectedId = screen.selectedId \/ x.kind \notin Unguarded
    BY <1>1, <1>6, <1>c, <2>3
  <2>4. NetOf(net') /\ \A y \in new : y.kind # "register"
    BY <1>2, <1>4 DEF Typed
  <2> QED
    BY <1>3, <1>6, <1>c, <2>1, <2>2, <2>3, <2>4, AllMeant
<1>7. LedgerOK(screen.runs)' /\ (OfRepository(s.runs, s.selectedId) =>
                                   OfRepository(screen.runs, screen.selectedId)')
  BY <1>0, <1>1 DEF LedgerOK, OfRepository, Runs
<1> QED
  BY <1>1, <1>2, <1>5, <1>6, <1>7 DEF BrowserInv

\* A ledger with a copy of a run put in front.
LEMMA InFrontKeeps ==
  ASSUME BrowserInv, NEW copy \in AnyCopy, copy.id \in Runs
  PROVE  /\ InFront(copy) \in Seq(AnyCopy) /\ LedgerOK(InFront(copy))
         /\ \A repo : OfRepository(screen.runs, repo) /\ analyses[copy.id].repo = repo =>
              OfRepository(InFront(copy), repo)
<1>1. screen.runs \in Seq(AnyCopy) /\ LedgerOK(screen.runs)
  BY DEF BrowserInv, Typed, AnyScreen
<1>2. /\ InFront(copy) \in Seq(AnyCopy)
      /\ \A i \in DOMAIN InFront(copy) :
           InFront(copy)[i] = copy \/ \E j \in DOMAIN screen.runs : InFront(copy)[i] = screen.runs[j]
      /\ \A i, j \in DOMAIN InFront(copy) : InFront(copy)[i].id = InFront(copy)[j].id => i = j
  BY <1>1, InFrontIs DEF LedgerOK
<1> QED
  BY <1>1, <1>2 DEF LedgerOK, OfRepository

\* What the then-clause of a request makes of the state.
LEMMA ReceivedIs ==
  ASSUME BrowserInv, NEW m \in DOMAIN net, m.answered
  PROVE  /\ Received(m) \in AnyScreen /\ LedgerOK(Received(m).runs)
         /\ m.kind \notin Selecting =>
              Received(m).selectedId = screen.selectedId /\ Received(m).repositories = screen.repositories
         /\ m.kind \notin Unguarded => Received(m).runs = screen.runs
         /\ m.kind \in Selecting => Received(m).selectedId \in Received(m).repositories
         /\ ~disturbed => OfRepository(Received(m).runs, Received(m).selectedId)
<1>0. /\ screen \in AnyScreen /\ m \in AnyMessage /\ Sound(net, m) /\ LedgerOK(screen.runs)
      /\ ~disturbed => /\ OfRepository(screen.runs, screen.selectedId)
                       /\ Meant(net, m, screen.selectedId, screen.runs)
  BY DEF BrowserInv, Typed, NetOf
<1>e. <<>> \in Seq(AnyCopy) /\ LedgerOK(<<>>) /\ \A repo : OfRepository(<<>>, repo)
  BY DEF LedgerOK, OfRepository
<1>s. NoSnapshot \in Sha
  BY DEF NoSnapshot, Sha, Nobody
<1>1. CASE m.kind = "repositories"
  <2>1. m.n \in Repository
    BY <1>0, <1>1 DEF Sound, Selecting
  <2>2. Received(m) = [screen EXCEPT !.repositories = 1..m.n, !.selectedId = m.n]
    BY <1>1 DEF Received
  <2>3. 1..m.n \in SUBSET Repository /\ m.n \in 1..m.n
    BY <2>1, DashboardAssumption DEF Repository
  <2>4. /\ Received(m) \in AnyScreen /\ Received(m).runs = screen.runs
        /\ Received(m).selectedId = m.n /\ Received(m).repositories = 1..m.n
    BY <1>0, <2>1, <2>2, <2>3 DEF AnyScreen
  <2>5. ~disturbed => screen.runs = <<>>
    BY <1>0, <1>1 DEF Meant
  <2> QED
    BY <1>0, <1>1, <1>e, <2>3, <2>4, <2>5 DEF Selecting, Unguarded
<1>2. CASE m.kind = "register"
  <2>1. m.n \in Repository
    BY <1>0, <1>2 DEF Sound, Selecting
  <2>2. Received(m) = [Blank(screen) EXCEPT !.repositories = @ \cup {m.n}, !.selectedId = m.n]
    BY <1>2 DEF Received
  <2>3. Blank(screen) \in AnyScreen /\ Blank(screen).runs = <<>>
    BY <1>0, <1>e, <1>s DEF Blank, AnyScreen
  <2>4. /\ Received(m) \in AnyScreen /\ Received(m).runs = <<>>
        /\ Received(m).selectedId = m.n /\ m.n \in Received(m).repositories
    BY <2>1, <2>2, <2>3 DEF AnyScreen
  <2> QED
    BY <1>2, <1>e, <2>4 DEF Selecting, Unguarded
<1>3. CASE m.kind = "analyses"
  <2>1. LedgerOK(m.runs) /\ OfRepository(m.runs, m.repo)
    BY <1>0, <1>3 DEF Sound
  <2>2. ~disturbed => m.repo = screen.selectedId
    BY <1>0, <1>3 DEF Meant
  <2>3. Received(m) = [screen EXCEPT !.runs = m.runs]
    BY <1>3 DEF Received
  <2>4. /\ Received(m) \in AnyScreen /\ Received(m).runs = m.runs
        /\ Received(m).selectedId = screen.selectedId
        /\ Received(m).repositories = screen.repositories
    BY <1>0, <2>3 DEF AnyScreen, AnyMessage
  <2> QED
    BY <1>3, <2>1, <2>2, <2>4 DEF Selecting, Unguarded
<1>4. CASE m.kind \in {"create", "poll"}
  <2>1. Len(m.runs) = 1 /\ m.runs[1].id \in Runs /\ m.runs \in Seq(AnyCopy)
    BY <1>0, <1>4 DEF Sound, AnyMessage
  <2>2. m.runs[1] \in AnyCopy
    BY <2>1
  <2>3. /\ InFront(m.runs[1]) \in Seq(AnyCopy) /\ LedgerOK(InFront(m.runs[1]))
        /\ \A repo : OfRepository(screen.runs, repo) /\ analyses[m.runs[1].id].repo = repo =>
             OfRepository(InFront(m.runs[1]), repo)
    BY <2>1, <2>2, InFrontKeeps
  <2>4. ~disturbed => analyses[m.runs[1].id].repo = screen.selectedId
    BY <1>0, <1>4 DEF Meant, Sound
  <2>5. \/ Received(m) = [screen EXCEPT !.runs = InFront(m.runs[1]), !.isStarting = FALSE]
        \/ Received(m) = [screen EXCEPT !.runs = InFront(m.runs[1])]
    BY <1>4 DEF Received
  <2>a. PICK runs : runs = InFront(m.runs[1])
    OBVIOUS
  <2>6. /\ Received(m) \in AnyScreen /\ Received(m).runs = runs
        /\ Received(m).selectedId = screen.selectedId
        /\ Received(m).repositories = screen.repositories
    BY <1>0, <2>3, <2>5, <2>a DEF AnyScreen
  <2> QED
    BY <1>0, <1>4, <2>3, <2>4, <2>6, <2>a DEF Selecting, Unguarded
<1>5. CASE m.kind \in {"graph", "architecture"}
  <2>1. /\ m.about \in Sha /\ NoSnapshot \in Sha
        /\ m.repo \in Repository \cup {Nobody} /\ m.n \in Nat
        /\ [repo |-> m.repo, n |-> m.n] \in Sha
    BY <1>0, <1>s DEF AnyMessage, Sha
  <2>2. \/ Received(m) = screen
        \/ Received(m) = [screen EXCEPT !.graph = m.about, !.inventory = [repo |-> m.repo, n |-> m.n]]
        \/ Received(m) = [screen EXCEPT !.architecture = NoSnapshot]
        \/ Received(m) = [screen EXCEPT !.architecture = m.about]
    <3>1. CASE m.kind = "graph"
      BY <3>1 DEF Received
    <3>2. CASE m.kind = "architecture"
      BY <3>2 DEF Received
    <3> QED
      BY <1>5, <3>1, <3>2
  <2>3. /\ Received(m) \in AnyScreen /\ Received(m).runs = screen.runs
        /\ Received(m).selectedId = screen.selectedId
        /\ Received(m).repositories = screen.repositories
    BY <1>0, <2>1, <2>2 DEF AnyScreen
  <2> QED
    BY <1>0, <1>5, <2>3 DEF Selecting, Unguarded
<1> QED
  BY <1>0, <1>1, <1>2, <1>3, <1>4, <1>5 DEF AnyMessage, Kinds

LEMMA DeliverKeeps == ASSUME BrowserInv, NEW m \in BagToSet(net), Deliver(m) PROVE BrowserInv'
<1>a. PICK rest : rest = net (-) SetToBag({m})
  OBVIOUS
<1>b. PICK s : s = Received(m)
  OBVIOUS
<1>0. /\ m \in DOMAIN net /\ m.answered /\ NetOf(net) /\ Sound(net, m) /\ disturbed \in BOOLEAN
      /\ Render(s, rest) /\ UNCHANGED server
      /\ disturbed' = (disturbed \/ (m.kind = "register" /\ InFlight(Unguarded) # {m}))
  BY <1>a, <1>b DEF Deliver, BrowserInv, Typed, BagToSet
<1>1. /\ NetOf(rest) /\ DOMAIN rest \subseteq DOMAIN net
      /\ \A x \in DOMAIN rest : rest[x] <= net[x]
      /\ net[m] = 1 => m \notin DOMAIN rest
  BY <1>0, <1>a, RestIs
<1>2. /\ s \in AnyScreen /\ LedgerOK(s.runs)
      /\ m.kind \notin Selecting =>
           s.selectedId = screen.selectedId /\ s.repositories = screen.repositories
      /\ m.kind \notin Unguarded => s.runs = screen.runs
      /\ m.kind \in Selecting => s.selectedId \in s.repositories
      /\ ~disturbed => OfRepository(s.runs, s.selectedId)
  BY <1>0, <1>b, ReceivedIs
<1>3. ASSUME ~disturbed', NEW x \in DOMAIN rest, x.kind \in Unguarded
      PROVE  s.selectedId = screen.selectedId /\ (x.kind = "repositories" => s.runs = screen.runs)
  <2>1. x \in DOMAIN net /\ ~disturbed /\ (m.kind = "register" => InFlight(Unguarded) = {m})
    BY <1>0, <1>1, <1>3
  <2>2. m.kind \in Selecting => x # m
    <3>1. Meant(net, m, screen.selectedId, screen.runs)
      BY <1>0, <2>1 DEF BrowserInv
    <3> QED
      BY <1>0, <1>1, <3>1 DEF Sound, Meant, SingleIn, Selecting, Alone
  <2>3. m.kind # "register"
    BY <1>3, <2>1, <2>2 DEF InFlight, BagToSet, Selecting
  <2>4. m.kind # "repositories"
    <3>1. Meant(net, m, screen.selectedId, screen.runs)
      BY <1>0, <2>1 DEF BrowserInv
    <3> QED
      BY <1>3, <2>1, <2>2, <3>1 DEF Meant, Selecting
  <2>5. ASSUME x.kind = "repositories" PROVE m.kind \notin Unguarded
    <3>1. Meant(net, x, screen.selectedId, screen.runs)
      BY <2>1 DEF BrowserInv
    <3>2. m.kind \in Unguarded => m = x
      BY <1>0, <2>5, <3>1 DEF Meant
    <3> QED
      BY <2>4, <2>5, <3>2
  <2> QED
    BY <1>2, <2>3, <2>4, <2>5 DEF Selecting
<1>4. ~disturbed => screen.selectedId \in screen.repositories \cup {Nobody}
  BY DEF BrowserInv
<1>5. disturbed' \in BOOLEAN /\ (~disturbed' => ~disturbed)
  BY <1>0
<1> QED
  BY <1>0, <1>1, <1>2, <1>3, <1>4, <1>5, ShownKeeps

LEMMA FailKeeps == ASSUME BrowserInv, NEW m \in BagToSet(net), Fail(m) PROVE BrowserInv'
<1>a. PICK rest : rest = net (-) SetToBag({m})
  OBVIOUS
<1>b. PICK s : s = CASE m.kind = "create" -> [screen EXCEPT !.isStarting = FALSE]
                     [] m.kind = "architecture" -> [screen EXCEPT !.architecture = NoSnapshot]
                     [] OTHER -> screen
  OBVIOUS
<1>0. /\ m \in DOMAIN net /\ NetOf(net) /\ screen \in AnyScreen /\ disturbed \in BOOLEAN
      /\ Render(s, rest) /\ UNCHANGED server /\ disturbed' = disturbed
  BY <1>a, <1>b DEF Fail, BrowserInv, Typed, BagToSet
<1>1. /\ NetOf(rest) /\ DOMAIN rest \subseteq DOMAIN net
      /\ \A x \in DOMAIN rest : rest[x] <= net[x]
  BY <1>0, <1>a, RestIs
<1>2. /\ s \in AnyScreen /\ s.runs = screen.runs /\ s.selectedId = screen.selectedId
      /\ s.repositories = screen.repositories
  <2>1. NoSnapshot \in Sha
    BY DEF NoSnapshot, Sha, Nobody
  <2>2. \/ s = [screen EXCEPT !.isStarting = FALSE]
        \/ s = [screen EXCEPT !.architecture = NoSnapshot]
        \/ s = screen
    BY <1>b
  <2> QED
    BY <1>0, <2>1, <2>2 DEF AnyScreen
<1>3. LedgerOK(s.runs)
  BY <1>2 DEF BrowserInv
<1>4. ~disturbed => /\ OfRepository(s.runs, s.selectedId)
                    /\ s.selectedId \in s.repositories \cup {Nobody}
  BY <1>2 DEF BrowserInv
<1> QED
  BY <1>0, <1>1, <1>2, <1>3, <1>4, ShownKeeps

LEMMA SelectKeeps == ASSUME BrowserInv, NEW repo, SelectRepository(repo) PROVE BrowserInv'
<1>a. PICK s : s = [Blank(screen) EXCEPT !.selectedId = repo]
  OBVIOUS
<1>0. /\ NetOf(net) /\ screen \in AnyScreen /\ disturbed \in BOOLEAN
      /\ repo \in screen.repositories /\ Render(s, net) /\ UNCHANGED server
      /\ disturbed' = (disturbed \/ InFlight(Unguarded) # {})
  BY <1>a DEF SelectRepository, Acts, BrowserInv, Typed
<1>1. \A x \in DOMAIN net : net[x] <= net[x]
  <2>1. \A x \in DOMAIN net : net[x] \in Nat
    BY <1>0 DEF NetOf
  <2> QED
    BY <2>1
<1>2. s \in AnyScreen /\ s.runs = <<>> /\ s.selectedId = repo /\ s.repositories = screen.repositories
  <2>1. NoSnapshot \in Sha /\ <<>> \in Seq(AnyCopy)
    BY DEF NoSnapshot, Sha, Nobody
  <2>2. /\ Blank(screen) \in AnyScreen /\ Blank(screen).runs = <<>>
        /\ Blank(screen).repositories = screen.repositories
    BY <1>0, <2>1 DEF Blank, AnyScreen
  <2>3. repo \in Repository
    BY <1>0 DEF AnyScreen
  <2> QED
    BY <1>a, <2>2, <2>3 DEF AnyScreen
<1>3. LedgerOK(s.runs) /\ OfRepository(s.runs, s.selectedId)
  BY <1>2 DEF LedgerOK, OfRepository
<1>4. ~disturbed' => ~disturbed /\ \A x \in DOMAIN net : x.kind \notin Unguarded
  BY <1>0 DEF InFlight, BagToSet
<1>5. disturbed' \in BOOLEAN
  BY <1>0
<1> QED
  BY <1>0, <1>1, <1>2, <1>3, <1>4, <1>5, ShownKeeps

\* A request is sent that no request in flight is at odds with.
LEMMA SendKeeps ==
  ASSUME BrowserInv, NEW a \in AnyMessage, ~a.answered, net' = net (+) SetToBag({a}),
         UNCHANGED server, screen' \in AnyScreen, screen'.runs = screen.runs,
         screen'.selectedId = screen.selectedId, screen'.repositories = screen.repositories,
         a.kind \in {"register", "create", "poll"},
         a.kind = "create" => a.repo \in Repository,
         a.kind = "poll" => a.id \in Runs,
         disturbed' \in BOOLEAN,
         ~disturbed' =>
           /\ ~disturbed /\ \A x \in DOMAIN net : x.kind # "repositories"
           /\ a.kind = "register" => \A x \in DOMAIN net : x.kind # "register"
           /\ a.kind = "create" => a.repo = screen.selectedId
           /\ a.kind = "poll" => analyses[a.id].repo = screen.selectedId
  PROVE  BrowserInv'
<1>0. /\ Typed /\ NetOf(net) /\ analyses' = analyses /\ registered' = registered
      /\ snapshots' = snapshots
  BY DEF BrowserInv, Typed, server
<1>1. Carried(net', {a}) /\ a \in DOMAIN net' /\ (a \notin DOMAIN net => net'[a] = 1)
  BY <1>0, AskedCarries
<1>n. PICK new : new = {a}
  OBVIOUS
<1>c. Carried(net', new) /\ \A x \in DOMAIN net' : x \notin new => x \in DOMAIN net
  BY <1>1, <1>n DEF Carried
<1>2. Typed'
  BY <1>0, <1>1 DEF Typed, Carried
<1>3. Grown
  BY <1>0 DEF Grown, Typed
<1>4. ASSUME ~disturbed', a.kind = "register" PROVE SingleIn(net', a)
  <2>1. a \notin DOMAIN net /\ \A x \in DOMAIN net : x.kind # "register"
    BY <1>4
  <2> QED
    BY <1>1, <1>4, <1>c, <1>n, <2>1 DEF SingleIn
<1>5. \A x \in DOMAIN net' : Sound(net, x)'
  <2>1. Sound(net, a)'
    BY <1>0 DEF Sound, Alone, Selecting, Runs
  <2>2. \A x \in DOMAIN net' : x \in new => Sound(net, x)'
    BY <1>n, <2>1
  <2>3. \A x \in DOMAIN net' : \A y \in new : x \notin new /\ y.kind \in Alone => y.kind # x.kind
    BY <1>c, <1>n DEF Alone
  <2> QED
    BY <1>0, <1>2, <1>3, <1>c, <2>2, <2>3, AllSound
<1>6. ASSUME ~disturbed' PROVE \A x \in DOMAIN net' : Meant(net, x, screen.selectedId, screen.runs)'
  <2>1. Meant(net, a, screen.selectedId, screen.runs)'
    BY <1>0, <1>4, <1>6 DEF Meant
  <2>2. \A x \in DOMAIN net' : x \in new => Meant(net, x, screen.selectedId, screen.runs)'
    BY <1>n, <2>1
  <2>3. \A x \in DOMAIN net' : x \notin new => x.kind # "repositories"
    BY <1>6, <1>c
  <2>4. NetOf(net') /\ \A x \in DOMAIN net' : x \notin new /\ x.kind = "register" =>
                          \A y \in new : y.kind # "register"
    BY <1>2, <1>6, <1>c, <1>n DEF Typed
  <2> QED
    BY <1>3, <1>6, <1>c, <2>2, <2>3, <2>4, AllMeant
<1>7. /\ LedgerOK(screen.runs)'
      /\ OfRepository(screen.runs, screen.selectedId) => OfRepository(screen.runs, screen.selectedId)'
  <2>1. LedgerOK(screen.runs)
    BY DEF BrowserInv
  <2> QED
    BY <1>0, <2>1 DEF LedgerOK, OfRepository, Runs
<1>8. ~disturbed' => screen'.selectedId \in screen'.repositories \cup {Nobody}
                     /\ OfRepository(screen.runs, screen.selectedId)
  BY DEF BrowserInv
<1> QED
  BY <1>2, <1>5, <1>6, <1>7, <1>8 DEF BrowserInv

LEMMA PollKeeps == ASSUME BrowserInv, Poll PROVE BrowserInv'
<1>a. PICK a : a = Asked("poll", Nobody, NoSnapshot, screen.runs[1].id)
  OBVIOUS
<1>0. /\ screen \in AnyScreen /\ screen.runs \in Seq(AnyCopy) /\ screen.runs # <<>> /\ disturbed \in BOOLEAN
      /\ net' = net (+) SetToBag({a}) /\ UNCHANGED <<server, screen, disturbed>>
  BY <1>a DEF Poll, HasRun, BrowserInv, Typed, AnyScreen
<1>1. 1 \in DOMAIN screen.runs /\ screen.runs[1] \in AnyCopy
  BY <1>0
<1>2. screen.runs[1].id \in Runs /\ screen.runs[1].id \in Nat
  BY <1>1 DEF BrowserInv, LedgerOK, AnyCopy
<1>3. NoSnapshot \in Sha /\ Nobody \in Repository \cup {Nobody} /\ "poll" \in Kinds
  BY DEF NoSnapshot, Sha, Kinds
<1>4. a \in AnyMessage /\ a.kind = "poll" /\ a.id = screen.runs[1].id /\ ~a.answered
  BY <1>2, <1>3, <1>a, AskedIs
<1>5. ASSUME ~disturbed
      PROVE  /\ \A x \in DOMAIN net : x.kind # "repositories"
             /\ analyses[a.id].repo = screen.selectedId
  <2>1. OfRepository(screen.runs, screen.selectedId)
        /\ \A x \in DOMAIN net : Meant(net, x, screen.selectedId, screen.runs)
    BY <1>5 DEF BrowserInv
  <2> QED
    BY <1>0, <1>1, <1>4, <2>1 DEF Meant, OfRepository
<1> QED
  BY <1>0, <1>2, <1>4, <1>5, SendKeeps

LEMMA StartKeeps == ASSUME BrowserInv, StartAnalysis PROVE BrowserInv'
<1>a. PICK a : a = Asked("create", screen.selectedId, NoSnapshot, 0)
  OBVIOUS
<1>0. /\ screen \in AnyScreen /\ disturbed \in BOOLEAN /\ screen.selectedId \in screen.repositories
      /\ screen' = [screen EXCEPT !.isStarting = TRUE]
      /\ net' = net (+) SetToBag({a}) /\ UNCHANGED server
      /\ disturbed' = (disturbed \/ InFlight(Unguarded) # {})
  BY <1>a DEF StartAnalysis, Acts, BrowserInv, Typed
<1>1. /\ screen' \in AnyScreen /\ screen'.runs = screen.runs
      /\ screen'.selectedId = screen.selectedId /\ screen'.repositories = screen.repositories
      /\ screen.selectedId \in Repository
  BY <1>0 DEF AnyScreen
<1>2. NoSnapshot \in Sha /\ "create" \in Kinds /\ 0 \in Nat
  BY DEF NoSnapshot, Sha, Kinds, Nobody
<1>3. a \in AnyMessage /\ a.kind = "create" /\ a.repo = screen.selectedId /\ ~a.answered
  BY <1>1, <1>2, <1>a, AskedIs
<1>4. ~disturbed' => ~disturbed /\ \A x \in DOMAIN net : x.kind # "repositories"
  BY <1>0 DEF InFlight, BagToSet, Unguarded
<1>5. disturbed' \in BOOLEAN
  BY <1>0
<1> QED
  BY <1>0, <1>1, <1>3, <1>4, <1>5, SendKeeps

LEMMA AddKeeps == ASSUME BrowserInv, AddRepository PROVE BrowserInv'
<1>a. PICK a : a = Asked("register", Nobody, NoSnapshot, 0)
  OBVIOUS
<1>0. /\ screen \in AnyScreen /\ disturbed \in BOOLEAN /\ screen' = screen
      /\ net' = net (+) SetToBag({a}) /\ UNCHANGED server
      /\ disturbed' = (disturbed \/ InFlight(Unguarded) # {})
  BY <1>a DEF AddRepository, Acts, BrowserInv, Typed
<1>1. NoSnapshot \in Sha /\ "register" \in Kinds /\ 0 \in Nat /\ Nobody \in Repository \cup {Nobody}
  BY DEF NoSnapshot, Sha, Kinds, Nobody
<1>2. a \in AnyMessage /\ a.kind = "register" /\ ~a.answered
  BY <1>1, <1>a, AskedIs
<1>4. ~disturbed' => ~disturbed /\ \A x \in DOMAIN net : x.kind # "repositories" /\ x.kind # "register"
  BY <1>0 DEF InFlight, BagToSet, Unguarded
<1>5. disturbed' \in BOOLEAN
  BY <1>0
<1> QED
  BY <1>0, <1>2, <1>4, <1>5, SendKeeps

LEMMA BrowserStep == BrowserInv /\ [Next]_vars => BrowserInv'
<1> SUFFICES ASSUME BrowserInv, [Next]_vars PROVE BrowserInv'
  OBVIOUS
<1>1. ASSUME NEW id \in 1..MaxRuns, Work(id) PROVE BrowserInv'
  BY <1>1, WorkKeeps
<1>2. ASSUME NEW repo \in Repository, OtherStarts(repo) PROVE BrowserInv'
  BY <1>2, OtherStartsKeeps
<1>3. ASSUME NEW repo \in Repository, SelectRepository(repo) PROVE BrowserInv'
  BY <1>3, SelectKeeps
<1>4. ASSUME NEW m \in BagToSet(net), Answer(m) PROVE BrowserInv'
  BY <1>4, AnswerKeeps
<1>5. ASSUME NEW m \in BagToSet(net), Deliver(m) PROVE BrowserInv'
  BY <1>5, DeliverKeeps
<1>6. ASSUME NEW m \in BagToSet(net), Fail(m) PROVE BrowserInv'
  BY <1>6, FailKeeps
<1>7. CASE Poll
  BY <1>7, PollKeeps
<1>8. CASE StartAnalysis
  BY <1>8, StartKeeps
<1>9. CASE AddRepository
  BY <1>9, AddKeeps
<1>10. CASE UNCHANGED vars
  BY <1>10 DEF vars, BrowserInv, Typed, LedgerOK, OfRepository, Runs, Sound, Meant, SingleIn
<1> QED
  BY <1>1, <1>2, <1>3, <1>4, <1>5, <1>6, <1>7, <1>8, <1>9, <1>10 DEF Next

\* Whatever anybody does and in whatever order answers arrive, the ledger holds runs that
\* exist, each once, and what is in flight is sound; unless somebody outran the answers,
\* everything in flight for a ledger is for the one that is shown.
THEOREM BrowserCorrect == Spec => []BrowserInv
<1>1. Init => BrowserInv
  BY InitFits
<1>2. BrowserInv /\ [Next]_vars => BrowserInv'
  BY BrowserStep
<1> QED
  BY <1>1, <1>2, PTL DEF Spec

\* Unless somebody outruns the answers of lists, creations and polls, the ledger holds runs
\* of the selected repository, each once, and the selection is on the list: the clean-up of
\* the component's effects is enough for that, although it cancels neither lists nor polls.
THEOREM LedgersAreOfSelections == Spec => []LedgerIsOfSelection
<1>1. BrowserInv => LedgerIsOfSelection
  BY DEF BrowserInv, LedgerIsOfSelection, LedgerOK, OfRepository
<1> QED
  BY <1>1, BrowserCorrect, PTL
=============================================================================
