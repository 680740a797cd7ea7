----------------------------- MODULE MCWorkerPool -----------------------------
(* Instances of WorkerPool for TLC.                                         *)
EXTENDS WorkerPool, TLC

CONSTANTS w1, w2

(* The kinds of job in an instance, by age.                                 *)
ExtractOnly      == 1 :> "extract_audio"
ExtractThenProbe == 1 :> "extract_audio" @@ 2 :> "analyze"
ProbeThenMerge   == 1 :> "analyze" @@ 2 :> "merge"

WorkerSymmetry == Permutations(Workers)
===============================================================================
