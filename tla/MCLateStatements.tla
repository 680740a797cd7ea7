--------------------------- MODULE MCLateStatements ---------------------------
(* Instances of LateStatements for TLC.                                      *)
EXTENDS LateStatements, TLC

CONSTANTS w1, w2

ExtractOnly    == 1 :> "extract_audio"
ProbeThenMerge == 1 :> "analyze" @@ 2 :> "merge"

WorkerSymmetry == Permutations(Workers)
===============================================================================
