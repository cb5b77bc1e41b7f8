---------------------------- MODULE MCIntelligence ----------------------------
(* A small instance of Intelligence: two commits, of which the second changes   *)
(* both paths, a question about a topic and one about recent changes.           *)
EXTENDS Intelligence, TLC

TwoPaths == {1, 2}
TouchedBy == <<{1}, {1, 2}>>
ChurnOf == <<3, 5>>
ModulesAt == <<{1}, {1}>>

Topic == "topic"
News == "news"
TwoQuestions == {Topic, News}
RecentOnes == {News}
TermsOfQuestion == [x \in TwoQuestions |-> IF x = Topic THEN {"auth", "token"} ELSE {"latest", "changes"}]
TermsOf ==
  [d \in [kind : {"commit", "hotspot", "module"}, of : 1..2] |->
     CASE d.kind = "commit" -> IF d.of = 1 THEN {"token"} ELSE {"session"}
       [] d.kind = "hotspot" -> IF d.of = 1 THEN {"auth", "token"} ELSE {"docs"}
       [] d.kind = "module" -> {"auth"}]

TwoPayloads == {[rating |-> 1, comment |-> "good"], [rating |-> 2, comment |-> "bad"]}

SlotSymmetry == Permutations(Requests) \cup Permutations(Users)
=============================================================================
