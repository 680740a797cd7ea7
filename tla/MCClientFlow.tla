------------------------------ MODULE MCClientFlow ------------------------------
(* Instances of ClientFlow for TLC.                                           *)
EXTENDS ClientFlow, TLC

CONSTANTS w1, w2

(* An analysis, and two actions on what it found.                             *)
ProbeMergeExtract == 1 :> "analyze" @@ 2 :> "merge" @@ 3 :> "extract_audio"
===============================================================================
