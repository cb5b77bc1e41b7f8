-------------------------- MODULE MCAnalysisSystem --------------------------
(* Small instances of AnalysisSystem: executions and request slots are         *)
(* interchangeable, and so are run ids, which new_id draws.                    *)
EXTENDS AnalysisSystem, TLC

SlotSymmetry == Permutations(Execs) \cup Permutations(Requests)

FullSymmetry == SlotSymmetry \cup Permutations(Runs) \cup Permutations(Keys)
=============================================================================
