------------------------------ MODULE MCAnalyses ------------------------------
(* The two analyses that keep no state of their own, on growing inputs: texts of  *)
(* reports for ClaimParsing, histories of three files for Evolution.  Only one of *)
(* the inputs grows in a behaviour, and a text only beside an empty tree.         *)
EXTENDS ClaimParsing, Evolution

ThreeFiles == {"README", "src/a", "src/b"}
Ordered == [p \in ThreeFiles |-> CASE p = "README" -> 1 [] p = "src/a" -> 2 [] p = "src/b" -> 3]
Directory == [p \in ThreeFiles |-> IF p = "README" THEN "repository-root" ELSE "src"]

\* Any files of the three with a small commit, a large one of one file or two, and an empty one.
SomeDiffs ==
  [files : SUBSET ThreeFiles, churn : {1}]
  \cup {[files |-> {"src/a"}, churn |-> 20], [files |-> {"README", "src/b"}, churn |-> 20]}

\* Files that import each other, and one that imports itself.
ThreeImports == {<<"src/a", "src/b">>, <<"src/b", "src/a">>, <<"src/b", "src/b">>}

AnalysesInit == ParsingInit /\ EvolutionInit

AnalysesNext ==
  \/ history = <<>> /\ currentFiles = {} /\ Type /\ UNCHANGED evolutionVars
  \/ text = <<>> /\ EvolutionNext /\ UNCHANGED text

AnalysesSpec == AnalysesInit /\ [][AnalysesNext]_<<text, evolutionVars>>
=============================================================================
