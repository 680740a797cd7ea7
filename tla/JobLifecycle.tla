----------------------------- MODULE JobLifecycle -----------------------------
(***************************************************************************)
(* What the job queue promises, without saying how: the life of a job as   *)
(* its owner may describe it.  A job waits, is taken, and then is done, is *)
(* put back with one try more, or is given up when its tries are used up.  *)
(* Where something may be Lost, a job can also drop out of sight: its row  *)
(* still says that somebody works on it, and nobody does.  From there it   *)
(* does not come back.                                                     *)
(***************************************************************************)
EXTENDS Integers

CONSTANTS
    Jobs,
    MaxRetry,
    Lossy       \* whether the environment can make the queue lose a job

VARIABLES phase, tries

lifeVars == <<phase, tries>>

Phases == {"absent", "waiting", "taken", "done", "failed", "lost"}

LifeTypeOK ==
    /\ phase \in [Jobs -> Phases]
    /\ tries \in [Jobs -> Nat]

Init ==
    /\ phase = [j \in Jobs |-> "absent"]
    /\ tries = [j \in Jobs |-> 0]

Move(j, from, to) ==
    /\ phase[j] = from
    /\ phase' = [phase EXCEPT ![j] = to]

Arrive(j) == Move(j, "absent", "waiting") /\ UNCHANGED tries
Take(j)   == Move(j, "waiting", "taken")  /\ UNCHANGED tries
Finish(j) == Move(j, "taken", "done")     /\ UNCHANGED tries

PutBack(j) ==
    /\ tries[j] < MaxRetry
    /\ Move(j, "taken", "waiting")
    /\ tries' = [tries EXCEPT ![j] = @ + 1]

GiveUp(j) ==
    /\ tries[j] >= MaxRetry
    /\ Move(j, "taken", "failed")
    /\ UNCHANGED tries

(* Some taken jobs are dropped, by one worker or by all of them at once;   *)
(* or a waiting one is, taken by somebody who never heard of it.           *)
Drop(S) ==
    /\ Lossy
    /\ phase' = [j \in Jobs |-> IF j \in S THEN "lost" ELSE phase[j]]
    /\ UNCHANGED tries

Next ==
    \/ \E j \in Jobs :
        \/ Arrive(j) \/ Take(j) \/ Finish(j) \/ PutBack(j) \/ GiveUp(j)
        \/ phase[j] = "waiting" /\ Drop({j})
    \/ \E S \in SUBSET {j \in Jobs : phase[j] = "taken"} : Drop(S)

Spec == Init /\ [][Next]_lifeVars
===============================================================================
