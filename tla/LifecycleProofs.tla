---------------------------- MODULE LifecycleProofs ----------------------------
(***************************************************************************)
(* WorkerPool implements JobLifecycle: initial states map to initial       *)
(* states and every step of the pool is a step of a job's life, or none.   *)
(***************************************************************************)
EXTENDS DeliveryProofs

CanLose == Faults \cap {"db", "ack", "timeout", "stop", "crash"} # {}

(* A dead context, and a completion that did not reach the row, both need  *)
(* a fault that can lose a job.                                            *)
LossInv ==
    /\ proc # "up" => CanLose
    /\ \A w \in Workers :
        /\ expired[w] => CanLose
        /\ pc[w] = "report" /\ status[held[w]] \in Active => CanLose

LEMMA LossInit == Init => LossInv
  BY DEF Init, LossInv

(* A call is refused or goes unacknowledged only where a job may be lost,  *)
(* unless it is the object store that refuses it.                          *)
LEMMA DatabaseFailureIsLossy ==
    ASSUME LossInv, NEW w \in Workers, NEW o, o # "ok",
           o \in Outcomes(JobCtxLive(w), "db") \/ o \in Outcomes(WorkerCtxLive, "db")
    PROVE  CanLose
  BY DEF LossInv, CanLose, Outcomes, JobCtxLive, WorkerCtxLive

LEMMA LossStep == TypeInv /\ CoreInv /\ LossInv /\ [Next]_vars => LossInv'
<1> SUFFICES ASSUME TypeInv, CoreInv, LossInv, [Next]_vars
             PROVE  LossInv'
  OBVIOUS
<1> USE DEF TypeInv, TypeOK, WorkerTypeOK
<1>a. \A w \in Workers : pc[w] # "idle" => held[w] \in Jobs
  BY HolderHasJob
<1>b. \A v, w \in Workers : v # w /\ pc[v] # "idle" => held[v] # held[w]
  BY <1>a DEF CoreInv, ExclusiveClaim, NoJob, Jobs
<1>c. status \in [Jobs -> Statuses]
  BY DEF StoreTypeOK
<1>1. ASSUME NEW w \in Workers, OwnStep(w) \/ ToolEnds(w)
      PROVE  LossInv'
  <2>1. /\ UNCHANGED proc
        /\ \A v \in Workers : v # w => held'[v] = held[v] /\ pc'[v] = pc[v]
        /\ \A v \in Workers : expired'[v] => expired[v]
    BY <1>1 DEF OwnStep, ToolEnds, Select, Claim, SetProgress, ReadInput, StartTool,
       ToolSucceeds, ToolFails, ToolKilled, Persist, Upload, CopyLocal, Record, Complete,
       Report, LogError, Settle, Release, Goto, claimVars
  <2>2. ASSUME NEW v \in Workers, v # w, pc[v] = "report"
        PROVE  status'[held[v]] = status[held[v]]
    <3>1. held[v] \in Jobs /\ held[v] # held[w]
      BY <1>a, <1>b, <2>2
    <3>2. QED
      BY <1>1, <1>c, <3>1 DEF OwnStep, ToolEnds, Select, Claim, SetProgress, ReadInput, StartTool,
         ToolSucceeds, ToolFails, ToolKilled, Persist, Upload, CopyLocal, Record, Complete,
         Report, LogError, Settle, MarkClaimed, UpdateStatus, UpdateError, IncrementRetry,
         Write, storeVars, jobVars
  <2>3. ASSUME pc'[w] = "report", status'[held'[w]] \in Active
        PROVE  CanLose
    <3>1. Complete(w)
      BY <1>1, <2>3 DEF OwnStep, ToolEnds, Select, Claim, SetProgress, ReadInput, StartTool,
         ToolSucceeds, ToolFails, ToolKilled, Persist, Upload, CopyLocal, Record,
         Report, LogError, Settle, Release, Goto, AfterMilestone, AfterPersist
    <3>2. PICK o \in Outcomes(JobCtxLive(w), "db") : UpdateStatus(o, held[w], "completed", 100)
      BY <3>1 DEF Complete
    <3>3. held'[w] = held[w] /\ held[w] \in Jobs
      BY <1>a, <3>1 DEF Complete, claimVars
    <3>4. o # "ok"
      BY <1>c, <2>3, <3>2, <3>3 DEF UpdateStatus, Write, Applied, Active
    <3>5. QED
      BY <3>2, <3>4, DatabaseFailureIsLossy
  <2>4. QED
    BY <2>1, <2>2, <2>3 DEF LossInv
<1>2. ASSUME NEW j \in Jobs, Submit(j)
      PROVE  LossInv'
  BY <1>a, <1>c, <1>2 DEF Submit, Create, LossInv, Active, workerVars, claimVars
<1>3. ASSUME NEW w \in Workers, Expire(w)
      PROVE  LossInv'
  BY <1>3 DEF Expire, LossInv, CanLose, storeVars, jobVars
<1>4. ASSUME Stop \/ Start \/ Exit
      PROVE  LossInv'
  BY <1>4 DEF Stop, Start, Exit, LossInv, CanLose, workerVars, claimVars, storeVars, jobVars
<1>5. ASSUME UNCHANGED vars
      PROVE  LossInv'
  BY <1>5 DEF vars, LossInv, CanLose, workerVars, claimVars, storeVars, jobVars
<1>6. QED
  BY <1>1, <1>2, <1>3, <1>4, <1>5 DEF Next, PollEmpty

-------------------------------------------------------------------------------
Phase == [j \in Jobs |-> PhaseOf(j)]

LEMMA LifecycleInit == Init => Lifecycle!Init
  BY DEF Init, StoreInit, Lifecycle!Init, PhaseOf

(* A job's phase depends on its own row and on whether somebody holds it.  *)
LEMMA SamePhase ==
    ASSUME StoreTypeOK, NEW i \in Jobs, status'[i] = status[i],
           status[i] \in Active => (HasHolder(i)' <=> HasHolder(i))
    PROVE  PhaseOf(i)' = PhaseOf(i)
  BY DEF PhaseOf, Active, StoreTypeOK, Statuses, Terminal

(* A worker's step moves its own job from phase to phase and no other job. *)
LEMMA OneMoves ==
    ASSUME TypeInv, ExclusiveClaim, NEW w \in Workers, NEW j \in Jobs, held[w] = j,
           held' = held \/ Release(w),
           \A i \in Jobs : i # j => status'[i] = status[i]
    PROVE  Phase' = [Phase EXCEPT ![j] = PhaseOf(j)']
<1> USE DEF TypeInv, TypeOK, WorkerTypeOK
<1>1. ASSUME NEW i \in Jobs, i # j
      PROVE  PhaseOf(i)' = PhaseOf(i)
  <2>1. HasHolder(i)' <=> HasHolder(i)
    BY <1>1 DEF HasHolder, Release, NoJob, Jobs
  <2>2. QED
    BY <1>1, <2>1, SamePhase
<1>2. QED
  BY <1>1 DEF Phase

(* A step of a worker with its job, from where it is to where it goes.     *)
LEMMA WorkerMoves ==
    ASSUME TypeInv, CoreInv, NEW w \in Workers, NEW j \in Jobs, held[w] = j,
           held' = held \/ Release(w),
           \A i \in Jobs : i # j => status'[i] = status[i],
           status'[j] \in Statuses
    PROVE  /\ Phase' = [Phase EXCEPT ![j] = PhaseOf(j)']
           /\ status[j] \in Active => Phase[j] = "taken"
           /\ status[j] = "queued" => Phase[j] = "waiting"
           /\ status'[j] = status[j] /\ held' = held => Phase' = Phase
           /\ status'[j] = status[j] /\ status[j] \notin Active => Phase' = Phase
           /\ status'[j] \in Active /\ held' = held => PhaseOf(j)' = "taken"
           /\ status'[j] \in Active /\ Release(w) => PhaseOf(j)' = "lost"
           /\ status'[j] = "queued" => PhaseOf(j)' = "waiting"
           /\ status'[j] = "completed" => PhaseOf(j)' = "done"
           /\ status'[j] = "failed" => PhaseOf(j)' = "failed"
<1> USE DEF TypeInv, TypeOK, WorkerTypeOK
<1>1. Phase' = [Phase EXCEPT ![j] = PhaseOf(j)']
  BY OneMoves DEF CoreInv
<1>2. Phase[j] = PhaseOf(j) /\ Phase \in [Jobs -> {PhaseOf(i) : i \in Jobs}]
  BY DEF Phase
<1>3. HasHolder(j) /\ (held' = held => HasHolder(j)')
  BY DEF HasHolder
<1>4. Release(w) => ~HasHolder(j)'
  BY DEF HasHolder, Release, CoreInv, ExclusiveClaim, NoJob, Jobs
<1>5. status'[j] = status[j] /\ (held' = held \/ status[j] \notin Active) => Phase' = Phase
  <2> SUFFICES ASSUME status'[j] = status[j], held' = held \/ status[j] \notin Active
               PROVE  PhaseOf(j)' = PhaseOf(j)
    BY <1>1, <1>2
  <2>1. QED
    BY <1>3, SamePhase
<1>6. QED
  BY <1>1, <1>2, <1>3, <1>4, <1>5 DEF PhaseOf, Active

LEMMA LifecycleStep ==
    TypeInv /\ TypeInv' /\ CoreInv /\ LossInv /\ [Next]_vars =>
        [Lifecycle!Next]_(Lifecycle!lifeVars)
<1> SUFFICES ASSUME TypeInv, TypeInv', CoreInv, LossInv, [Next]_vars
             PROVE  Lifecycle!Next \/ (Phase' = Phase /\ retry' = retry)
  BY DEF Lifecycle!lifeVars, Phase
<1> USE DEF TypeInv, TypeOK, StoreTypeOK
<1>a. ASSUME NEW w \in Workers, pc[w] # "idle"
      PROVE  held[w] \in Jobs
  BY <1>a, HolderHasJob
<1>b. ASSUME NEW w \in Workers, pc[w] \in (HandlerPCs \ {"report"}) \cup {"error", "settle"}
      PROVE  held[w] \in Jobs /\ status[held[w]] \in Active
  <2>1. pc[w] \in ProcessPCs /\ pc[w] # "report" /\ pc[w] # "idle"
    BY <1>b DEF ProcessPCs, HandlerPCs
  <2>2. QED
    BY <1>a, <2>1 DEF CoreInv, RowFollowsHolder
<1>c. ASSUME NEW j \in Jobs, CanLose, Phase[j] \in {"taken", "waiting"},
             Phase' = [Phase EXCEPT ![j] = "lost"], UNCHANGED retry
      PROVE  Lifecycle!Next
  <2>1. Phase' = [i \in Jobs |-> IF i \in {j} THEN "lost" ELSE Phase[i]]
    BY <1>c DEF Phase
  <2>2. Lifecycle!Drop({j})
    BY <1>c, <2>1 DEF Lifecycle!Drop, CanLose, Phase
  <2>3. CASE Phase[j] = "waiting"
    BY <2>2, <2>3 DEF Lifecycle!Next, Phase
  <2>4. CASE Phase[j] = "taken"
    <3>1. {j} \in SUBSET {i \in Jobs : PhaseOf(i) = "taken"}
      BY <2>4 DEF Phase
    <3>2. QED
      BY <2>2, <3>1 DEF Lifecycle!Next
  <2>5. QED
    BY <1>c, <2>3, <2>4
<1>1. ASSUME NEW j \in Jobs, Submit(j)
      PROVE  Lifecycle!Next
  <2>1. /\ status[j] = "absent" /\ status' = [status EXCEPT ![j] = "queued"]
        /\ UNCHANGED <<held, retry>>
    BY <1>1 DEF Submit, Create, workerVars, claimVars
  <2>2. PhaseOf(j) = "absent" /\ PhaseOf(j)' = "waiting"
    BY <2>1 DEF PhaseOf
  <2>3. \A i \in Jobs : i # j => PhaseOf(i)' = PhaseOf(i)
    BY <2>1, SamePhase DEF HasHolder
  <2>4. Phase' = [Phase EXCEPT ![j] = "waiting"]
    BY <2>2, <2>3 DEF Phase
  <2>5. Lifecycle!Arrive(j)
    BY <2>1, <2>2, <2>4 DEF Lifecycle!Arrive, Lifecycle!Move, Phase
  <2>6. QED
    BY <2>5 DEF Lifecycle!Next
<1>2. ASSUME NEW w \in Workers, Select(w)
      PROVE  Phase' = Phase /\ retry' = retry
  <2>1. PICK j \in Jobs : Selectable(j) /\ held' = [held EXCEPT ![w] = j]
    BY <1>2 DEF Select
  <2>2. /\ pc[w] = "idle" /\ held[w] = NoJob /\ UNCHANGED <<status, retry>>
    BY <1>2 DEF Select, storeVars, jobVars, HoldsJobUnlessIdle
  <2>3. ASSUME NEW i \in Jobs
        PROVE  PhaseOf(i)' = PhaseOf(i)
    <3>1. status[i] \in Active => i # j /\ i # NoJob
      BY <2>1 DEF Selectable, Active, NoJob, Jobs
    <3>2. i # j /\ i # NoJob => (HasHolder(i)' <=> HasHolder(i))
      BY <2>1, <2>2 DEF HasHolder, WorkerTypeOK
    <3>3. QED
      BY <2>2, <3>1, <3>2, SamePhase
  <2>4. QED
    BY <2>2, <2>3 DEF Phase
<1>3. ASSUME NEW w \in Workers, Claim(w)
      PROVE  Lifecycle!Next \/ (Phase' = Phase /\ retry' = retry)
  <2>1. PICK o \in Outcomes(WorkerCtxLive, "db") :
            /\ MarkClaimed(o, held[w])
            /\ IF Acked(o) THEN Goto(w, "begin") /\ UNCHANGED claimVars
                           ELSE Release(w)
    BY <1>3 DEF Claim
  <2>2. PICK j \in Jobs : j = held[w] /\ status[j] = "queued"
    BY <1>3, <1>a DEF Claim, CoreInv, RowFollowsHolder
  <2>3. /\ UNCHANGED retry
        /\ \A i \in Jobs : i # j => status'[i] = status[i]
        /\ status'[j] = IF Applied(o) THEN "analyzing" ELSE "queued"
        /\ status'[j] \in Statuses
        /\ held' = held \/ Release(w)
    BY <2>1, <2>2 DEF MarkClaimed, Write, Acked, claimVars
  <2>4. CASE o = "ok"
    <3>1. Phase[j] = "waiting" /\ Phase' = [Phase EXCEPT ![j] = "taken"]
      BY <2>1, <2>2, <2>3, <2>4, WorkerMoves DEF Applied, Acked, Active, claimVars
    <3>2. Lifecycle!Take(j)
      BY <2>3, <3>1 DEF Lifecycle!Take, Lifecycle!Move, Phase
    <3>3. QED
      BY <3>2 DEF Lifecycle!Next
  <2>5. CASE o = "refused"
    BY <2>2, <2>3, <2>5, WorkerMoves DEF Applied, Active
  <2>6. CASE o = "unacked"
    <3>1. Phase[j] = "waiting" /\ Phase' = [Phase EXCEPT ![j] = "lost"]
      BY <2>1, <2>2, <2>3, <2>6, WorkerMoves DEF Applied, Acked, Active
    <3>2. CanLose
      BY <2>1, <2>6, DatabaseFailureIsLossy
    <3>3. QED
      BY <1>c, <2>3, <3>1, <3>2
  <2>7. QED
    BY <2>1, <2>4, <2>5, <2>6 DEF Outcomes
<1>4. ASSUME NEW w \in Workers, SetProgress(w)
      PROVE  Phase' = Phase /\ retry' = retry
  <2>1. PICK j \in Jobs : j = held[w] /\ status[j] \in Active
    BY <1>4, <1>b DEF SetProgress, HandlerPCs
  <2>2. /\ UNCHANGED <<held, retry>>
        /\ \A i \in Jobs : i # j => status'[i] = status[i]
        /\ status'[j] \in Active
    BY <1>4, <2>1, ActiveStatusType DEF SetProgress, UpdateStatus, Write, claimVars
  <2>3. Phase' = [Phase EXCEPT ![j] = "taken"] /\ Phase[j] = "taken"
    BY <2>1, <2>2, WorkerMoves DEF Statuses
  <2>4. QED
    BY <2>2, <2>3 DEF Phase
<1>5. ASSUME NEW w \in Workers,
             \/ ReadInput(w) \/ StartTool(w) \/ ToolEnds(w) \/ ToolKilled(w) \/ Persist(w)
             \/ Upload(w) \/ CopyLocal(w) \/ Record(w) \/ LogError(w)
      PROVE  UNCHANGED <<status, retry, held>>
  BY <1>5 DEF ReadInput, StartTool, ToolEnds, ToolSucceeds, ToolFails, ToolKilled, Persist,
              Upload, CopyLocal, Record, LogError, claimVars, storeVars, jobVars
<1>6. ASSUME NEW w \in Workers, Complete(w)
      PROVE  Lifecycle!Next \/ (Phase' = Phase /\ retry' = retry)
  <2>1. PICK j \in Jobs : j = held[w] /\ status[j] \in Active
    BY <1>6, <1>b DEF Complete, HandlerPCs
  <2>2. /\ UNCHANGED <<held, retry>>
        /\ \A i \in Jobs : i # j => status'[i] = status[i]
        /\ status'[j] \in {status[j], "completed"}
    BY <1>6, <2>1 DEF Complete, UpdateStatus, Write, claimVars
  <2>3. CASE status'[j] = status[j]
    BY <2>1, <2>2, <2>3, WorkerMoves
  <2>4. CASE status'[j] = "completed"
    <3>1. Phase[j] = "taken" /\ Phase' = [Phase EXCEPT ![j] = "done"]
      BY <2>1, <2>2, <2>4, WorkerMoves DEF Statuses, Terminal
    <3>2. Lifecycle!Finish(j)
      BY <2>2, <3>1 DEF Lifecycle!Finish, Lifecycle!Move, Phase
    <3>3. QED
      BY <3>2 DEF Lifecycle!Next
  <2>5. QED
    BY <2>2, <2>3, <2>4
<1>7. ASSUME NEW w \in Workers, Report(w)
      PROVE  Lifecycle!Next \/ (Phase' = Phase /\ retry' = retry)
  <2>1. PICK j \in Jobs : j = held[w]
    BY <1>7, <1>a DEF Report
  <2>2. Release(w) /\ UNCHANGED <<status, retry>> /\ pc[w] = "report"
    BY <1>7 DEF Report, jobVars
  <2>3. CASE status[j] \in Active
    <3>1. Phase[j] = "taken" /\ Phase' = [Phase EXCEPT ![j] = "lost"]
      BY <2>1, <2>2, <2>3, WorkerMoves
    <3>2. CanLose
      BY <2>1, <2>2, <2>3 DEF LossInv
    <3>3. QED
      BY <1>c, <2>2, <3>1, <3>2
  <2>4. CASE status[j] \notin Active
    BY <2>1, <2>2, <2>4, WorkerMoves
  <2>5. QED
    BY <2>3, <2>4
<1>8. ASSUME NEW w \in Workers, Settle(w)
      PROVE  Lifecycle!Next \/ (Phase' = Phase /\ retry' = retry)
  <2>1. PICK o \in Outcomes(WorkerCtxLive, "db") :
            IF MayRetry(w) THEN IncrementRetry(o, held[w]) ELSE UpdateError(o, held[w])
    BY <1>8 DEF Settle
  <2>2. PICK j \in Jobs : j = held[w] /\ status[j] \in Active
    BY <1>8, <1>b DEF Settle, HandlerPCs
  <2>3. Release(w) /\ seenRetry[w] = retry[j]
    BY <1>8, <2>2 DEF Settle, CoreInv, SnapshotIsCurrent
  <2>4. CASE ~Applied(o)
    <3>1. UNCHANGED <<status, retry>>
      BY <2>1, <2>4 DEF IncrementRetry, UpdateError, Write
    <3>2. Phase[j] = "taken" /\ Phase' = [Phase EXCEPT ![j] = "lost"]
      BY <2>2, <2>3, <3>1, WorkerMoves
    <3>3. CanLose
      BY <2>1, <2>4, DatabaseFailureIsLossy DEF Applied
    <3>4. QED
      BY <1>c, <3>1, <3>2, <3>3
  <2>5. CASE Applied(o) /\ MayRetry(w)
    <3>1. /\ status' = [status EXCEPT ![j] = "queued"]
          /\ retry' = [retry EXCEPT ![j] = retry[j] + 1]
      BY <2>1, <2>2, <2>5 DEF IncrementRetry, Write
    <3>2. Phase[j] = "taken" /\ Phase' = [Phase EXCEPT ![j] = "waiting"]
      BY <2>2, <2>3, <3>1, WorkerMoves DEF Statuses
    <3>3. Lifecycle!PutBack(j)
      BY <2>3, <2>5, <3>1, <3>2
         DEF MayRetry, Lifecycle!PutBack, Lifecycle!Move, Phase
    <3>4. QED
      BY <3>3 DEF Lifecycle!Next
  <2>6. CASE Applied(o) /\ ~MayRetry(w)
    <3>1. status' = [status EXCEPT ![j] = "failed"] /\ retry' = retry
      BY <2>1, <2>2, <2>6 DEF UpdateError, Write
    <3>2. Phase[j] = "taken" /\ Phase' = [Phase EXCEPT ![j] = "failed"]
      BY <2>2, <2>3, <3>1, WorkerMoves DEF Statuses, Terminal
    <3>3. retry[j] >= MaxRetry
      BY <2>3, <2>6, MaxRetryAssumption DEF MayRetry
    <3>4. Lifecycle!GiveUp(j)
      BY <3>1, <3>2, <3>3 DEF Lifecycle!GiveUp, Lifecycle!Move, Phase
    <3>5. QED
      BY <3>4 DEF Lifecycle!Next
  <2>7. QED
    BY <2>4, <2>5, <2>6
<1>9. ASSUME Exit
      PROVE  Lifecycle!Next
  <2>1. CanLose
    BY <1>9 DEF Exit, LossInv, CanLose
  <2>2. UNCHANGED <<status, retry>> /\ \A i \in Jobs : ~HasHolder(i)'
    BY <1>9 DEF Exit, storeVars, jobVars, HasHolder, NoJob, Jobs
  <2> DEFINE S == {i \in Jobs : Phase[i] = "taken"}
  <2>3. ASSUME NEW i \in Jobs
        PROVE  PhaseOf(i)' = IF i \in S THEN "lost" ELSE Phase[i]
    BY <2>2 DEF PhaseOf, Phase
  <2>4. Lifecycle!Drop(S)
    BY <2>1, <2>2, <2>3 DEF Lifecycle!Drop, CanLose, Phase
  <2>5. S \in SUBSET {i \in Jobs : PhaseOf(i) = "taken"}
    BY DEF Phase
  <2>6. QED
    BY <2>4, <2>5 DEF Lifecycle!Next
<1>10. ASSUME UNCHANGED <<status, retry, held>>
       PROVE  Phase' = Phase /\ retry' = retry
  BY <1>10 DEF Phase, PhaseOf, HasHolder
<1>11. ASSUME \/ Stop \/ Start \/ UNCHANGED vars
              \/ \E w \in Workers : Expire(w) \/ PollEmpty(w)
       PROVE  UNCHANGED <<status, retry, held>>
  BY <1>11 DEF Stop, Start, vars, Expire, PollEmpty, workerVars, claimVars, storeVars, jobVars
<1>12. QED
  BY <1>1, <1>2, <1>3, <1>4, <1>5, <1>6, <1>7, <1>8, <1>9, <1>10, <1>11 DEF Next, OwnStep

(* The pool implements the abstract life of a job, for every number of     *)
(* workers and every set of faults.  Without a fault that can lose a job,  *)
(* a taken job is finished, put back or given up, and nothing else.        *)
THEOREM PoolImplementsLifecycle == Spec => ImplementsLifecycle
<1>1. Spec => [](TypeInv /\ CoreInv /\ LossInv)
  BY TypeInit, TypeStep, CoreInit, CoreStep, LossInit, LossStep, PTL DEF Spec
<1>2. QED
  BY <1>1, LifecycleInit, LifecycleStep, PTL DEF Spec, ImplementsLifecycle, Lifecycle!Spec

-------------------------------------------------------------------------------
(* A job is not worked on for ever.                                        *)

LEMMA CallsLeftType ==
    /\ \A p : CallsLeft(p) \in 0 .. 17
    /\ \A p \in PCs \ {"idle"} : CallsLeft(p) > 0
  BY DEF CallsLeft, PCs, ProcessPCs, HandlerPCs

(* With one holder at most, "the" holder is any holder.                    *)
LEMMA StepsOfHeld ==
    ASSUME ExclusiveClaim, NEW w \in Workers, NEW j \in Jobs, held[w] = j
    PROVE  StepsLeft(j) = AttemptSteps * RetriesLeft(j) + CallsLeft(pc[w])
<1>1. HolderOf(j) = w
  BY DEF HolderOf, ExclusiveClaim, NoJob, Jobs
<1>2. QED
  BY <1>1 DEF StepsLeft, HasHolder

LEMMA StepsOfHeldNext ==
    ASSUME ExclusiveClaim', NEW w \in Workers, NEW j \in Jobs, held'[w] = j
    PROVE  StepsLeft(j)' = AttemptSteps * RetriesLeft(j)' + CallsLeft(pc'[w])
<1>1. HolderOf(j)' = w
  BY DEF HolderOf, ExclusiveClaim, NoJob, Jobs
<1>2. QED
  BY <1>1 DEF StepsLeft, HasHolder

LEMMA StepsType ==
    ASSUME StoreTypeOK, NEW j \in Jobs
    PROVE  RetriesLeft(j) \in Nat /\ StepsLeft(j) \in Nat
<1>1. RetriesLeft(j) \in Nat
  BY MaxRetryAssumption DEF StoreTypeOK, RetriesLeft
<1>2. QED
  BY <1>1, CallsLeftType DEF StepsLeft, AttemptSteps

(* What EveryStepCounts asks of one job in one step.                       *)
Nearer(j) ==
    /\ StepsLeft(j)' <= StepsLeft(j)
    /\ \A w \in Workers : held[w] = j /\ pc'[w] # pc[w] => StepsLeft(j)' < StepsLeft(j)

GivenBack(j) ==
    \E w \in Workers :
        held[w] = j /\ pc[w] = "claim" /\ pc'[w] = "idle" /\ status'[j] = "queued"

(* A job whose row, holder and holder's place stay as they are.            *)
LEMMA StaysPut ==
    ASSUME TypeInv, CoreInv, CoreInv', NEW j \in Jobs,
           status'[j] = status[j], retry'[j] = retry[j],
           \A w \in Workers : held[w] = j <=> held'[w] = j,
           \A w \in Workers : held[w] = j => pc'[w] = pc[w]
    PROVE  Nearer(j)
<1>1. RetriesLeft(j)' = RetriesLeft(j)
  BY DEF RetriesLeft
<1>2. StepsLeft(j) \in Nat
  BY StepsType DEF TypeInv, TypeOK
<1>3. StepsLeft(j)' = StepsLeft(j)
  <2>1. CASE HasHolder(j)
    <3>1. PICK w \in Workers : held[w] = j
      BY <2>1 DEF HasHolder
    <3>2. QED
      BY <1>1, <3>1, StepsOfHeld, StepsOfHeldNext DEF CoreInv
  <2>2. CASE ~HasHolder(j)
    BY <1>1, <2>2 DEF HasHolder, StepsLeft
  <2>3. QED
    BY <2>1, <2>2
<1>4. QED
  BY <1>2, <1>3 DEF Nearer

(* The job of a worker that makes its next call.                           *)
LEMMA OwnJobGetsNearer ==
    ASSUME TypeInv, TypeInv', CoreInv, CoreInv', NEW w \in Workers, pc[w] # "idle",
           OwnStep(w) \/ ToolEnds(w), NEW j \in Jobs, held[w] = j
    PROVE  StepsLeft(j)' < StepsLeft(j) \/ GivenBack(j)
<1> USE DEF TypeInv
<1>a. /\ status \in [Jobs -> Statuses] /\ retry \in [Jobs -> Nat]
      /\ pc \in [Workers -> PCs] /\ held \in [Workers -> Jobs \cup {NoJob}]
      /\ ExclusiveClaim /\ ExclusiveClaim' /\ j # NoJob
  BY DEF TypeOK, StoreTypeOK, WorkerTypeOK, CoreInv, NoJob, Jobs
<1>b. /\ pc[w] = "claim" => status[j] = "queued"
      /\ pc[w] \in ProcessPCs => status[j] \in Active \cup {"completed"}
      /\ seenRetry[w] = retry[j]
  BY DEF CoreInv, RowFollowsHolder, SnapshotIsCurrent
<1>c. \A v \in Workers : v # w => held'[v] # j
  BY <1>a, WorkerStepIsLocal DEF ExclusiveClaim
<1>1. PICK n \in Nat : n = RetriesLeft(j)
  BY StepsType DEF TypeOK
<1>2. PICK c \in 1 .. 17 : c = CallsLeft(pc[w])
  BY <1>a, CallsLeftType
<1>3. StepsLeft(j) = 18 * n + c
  BY <1>a, <1>1, <1>2, StepsOfHeld DEF AttemptSteps
<1>4. ASSUME NEW p \in PCs, Goto(w, p), UNCHANGED claimVars, retry'[j] = retry[j],
             CallsLeft(p) < CallsLeft(pc[w])
      PROVE  StepsLeft(j)' < StepsLeft(j)
  <2>1. pc'[w] = p /\ held'[w] = j /\ RetriesLeft(j)' = n
    BY <1>a, <1>1, <1>4 DEF Goto, claimVars, RetriesLeft
  <2>2. StepsLeft(j)' = 18 * n + CallsLeft(p)
    BY <1>a, <2>1, StepsOfHeldNext DEF AttemptSteps
  <2>3. CallsLeft(p) \in 0 .. 17
    BY CallsLeftType
  <2>4. QED
    BY <1>2, <1>3, <1>4, <2>2, <2>3
<1>5. ASSUME Release(w), status'[j] \notin {"absent", "queued"}
      PROVE  StepsLeft(j)' < StepsLeft(j)
  <2>1. ~HasHolder(j)'
    BY <1>a, <1>c, <1>5 DEF Release, HasHolder
  <2>2. StepsLeft(j)' = 0
    BY <1>5, <2>1 DEF StepsLeft
  <2>3. QED
    BY <1>2, <1>3, <2>2
<1>6. CASE Claim(w)
  <2>1. CASE Goto(w, "begin") /\ UNCHANGED claimVars
    BY <1>4, <1>6, <2>1 DEF Claim, MarkClaimed, CallsLeft, PCs, ProcessPCs, HandlerPCs
  <2>2. CASE Release(w)
    <3>1. status'[j] \in {"queued", "analyzing"}
      BY <1>a, <1>b, <1>6 DEF Claim, MarkClaimed, Write
    <3>2. status'[j] = "queued" => GivenBack(j)
      BY <1>a, <1>6, <2>2 DEF Claim, Release, Goto, GivenBack
    <3>3. QED
      BY <1>5, <2>2, <3>1, <3>2
  <2>3. QED
    BY <1>6, <2>1, <2>2 DEF Claim
<1>7. CASE Report(w)
  BY <1>5, <1>7, <1>b DEF Report, ProcessPCs, HandlerPCs, Active, jobVars
<1>8. CASE Settle(w)
  <2>1. Release(w)
    BY <1>8 DEF Settle
  <2>2. CASE status'[j] = "queued"
    <3>1. retry'[j] = retry[j] + 1 /\ retry[j] < MaxRetry
      BY <1>8, <1>a, <1>b, <2>2
         DEF Settle, MayRetry, IncrementRetry, UpdateError, Write, ProcessPCs, Active
    <3>2. RetriesLeft(j)' = n - 1
      <4>1. retry[j] \in Nat
        BY <1>a
      <4>2. QED
        BY <1>1, <3>1, <4>1, MaxRetryAssumption DEF RetriesLeft
    <3>3. ~HasHolder(j)'
      BY <1>a, <1>c, <2>1 DEF Release, HasHolder
    <3>4. StepsLeft(j)' = 18 * (n - 1) + 18
      BY <2>2, <3>2, <3>3 DEF StepsLeft, AttemptSteps
    <3>5. QED
      BY <1>2, <1>3, <3>4
  <2>3. CASE status'[j] # "queued"
    <3>1. status'[j] # "absent"
      BY <1>8, <1>a, <1>b DEF Settle, IncrementRetry, UpdateError, Write, ProcessPCs, Active
    <3>2. QED
      BY <1>5, <2>1, <2>3, <3>1
  <2>4. QED
    BY <2>2, <2>3
<1>9. CASE SetProgress(w)
  <2>1. retry'[j] = retry[j] /\ UNCHANGED claimVars
    BY <1>9 DEF SetProgress, UpdateStatus
  <2>2. PICK p \in PCs : p = AfterMilestone(TypeAt(w), pc[w])
    BY DEF AfterMilestone, PCs, ProcessPCs, HandlerPCs
  <2>3. Goto(w, p)
    BY <1>9, <2>2 DEF SetProgress
  <2>4. CallsLeft(p) < CallsLeft(pc[w])
    BY <1>9, <2>2 DEF SetProgress, AfterMilestone, CallsLeft
  <2>5. QED
    BY <1>4, <2>1, <2>3, <2>4
<1>10. CASE \/ ReadInput(w) \/ StartTool(w) \/ ToolKilled(w) \/ ToolEnds(w) \/ Persist(w)
            \/ Upload(w) \/ CopyLocal(w) \/ Record(w) \/ Complete(w) \/ LogError(w)
  <2>1. retry'[j] = retry[j] /\ UNCHANGED claimVars
    BY <1>10 DEF ReadInput, StartTool, ToolKilled, ToolEnds, ToolSucceeds, ToolFails, Persist,
                 Upload, CopyLocal, Record, Complete, LogError, UpdateStatus, storeVars, jobVars
  <2>2. \E p \in PCs : Goto(w, p) /\ CallsLeft(p) < CallsLeft(pc[w])
    <3>1. CASE ReadInput(w) \/ StartTool(w) \/ ToolKilled(w) \/ ToolEnds(w)
      BY <3>1 DEF ReadInput, StartTool, ToolKilled, ToolEnds, ToolSucceeds, ToolFails, CallsLeft,
                  PCs, ProcessPCs, HandlerPCs
    <3>2. CASE Persist(w) \/ Complete(w) \/ LogError(w)
      BY <3>2 DEF Persist, AfterPersist, Complete, AfterComplete, LogError, CallsLeft, PCs,
                  ProcessPCs, HandlerPCs
    <3>3. CASE Upload(w) \/ CopyLocal(w) \/ Record(w)
      BY <3>3 DEF Upload, CopyLocal, Record, CallsLeft, PCs, ProcessPCs, HandlerPCs
    <3>4. QED
      BY <1>10, <3>1, <3>2, <3>3
  <2>3. QED
    BY <1>4, <2>1, <2>2
<1>11. QED
  BY <1>6, <1>7, <1>8, <1>9, <1>10 DEF OwnStep, Select

LEMMA StepCounts ==
    ASSUME TypeInv, TypeInv', CoreInv, CoreInv', [Next]_vars, NEW j \in Jobs
    PROVE  Nearer(j) \/ GivenBack(j)
<1> USE DEF TypeInv
<1>a. /\ status \in [Jobs -> Statuses] /\ retry \in [Jobs -> Nat]
      /\ pc \in [Workers -> PCs] /\ held \in [Workers -> Jobs \cup {NoJob}]
      /\ ExclusiveClaim /\ ExclusiveClaim' /\ j # NoJob
      /\ \A w \in Workers : held[w] = NoJob <=> pc[w] = "idle"
  BY DEF TypeOK, StoreTypeOK, WorkerTypeOK, CoreInv, NoJob, Jobs, HoldsJobUnlessIdle
<1>b. ASSUME status[j] \in {"absent", "queued"}, ~Locked(j)
      PROVE  \A w \in Workers : held[w] # j
  BY <1>a, <1>b DEF CoreInv, RowFollowsHolder, Locked, PCs, ProcessPCs, Active
<1>c. PICK n \in Nat : n = RetriesLeft(j)
  BY StepsType DEF TypeOK
<1>1. ASSUME NEW w \in Workers, pc[w] # "idle", OwnStep(w) \/ ToolEnds(w)
      PROVE  Nearer(j) \/ GivenBack(j)
  <2>1. CASE held[w] = j
    <3>1. CASE GivenBack(j)
      BY <3>1
    <3>2. CASE StepsLeft(j)' < StepsLeft(j)
      <4>1. StepsLeft(j) \in Nat /\ StepsLeft(j)' \in Nat
        <5>1. StepsLeft(j)' \in Nat
          <6>1. retry' \in [Jobs -> Nat]
            BY DEF TypeOK, StoreTypeOK
          <6>2. RetriesLeft(j)' \in Nat
            BY <6>1, MaxRetryAssumption DEF RetriesLeft
          <6>3. QED
            BY <6>2, CallsLeftType DEF StepsLeft, AttemptSteps
        <5>2. QED
          BY <5>1, StepsType DEF TypeOK
      <4>2. QED
        BY <3>2, <4>1 DEF Nearer
    <3>3. QED
      BY <1>1, <2>1, <3>1, <3>2, OwnJobGetsNearer
  <2>2. CASE held[w] # j
    <3>1. /\ status'[j] = status[j] /\ retry'[j] = retry[j]
          /\ \A v \in Workers : v # w => pc'[v] = pc[v] /\ held'[v] = held[v]
          /\ held'[w] # j
      BY <1>a, <1>1, <2>2, WorkerStepIsLocal DEF Release
    <3>2. QED
      BY <2>2, <3>1, StaysPut
  <2>3. QED
    BY <2>1, <2>2
<1>2. ASSUME NEW i \in Jobs, Submit(i)
      PROVE  Nearer(j)
  <2>1. UNCHANGED <<pc, held, retry>>
    BY <1>2 DEF Submit, Create, workerVars, claimVars
  <2>2. CASE i # j
    <3>1. status'[j] = status[j]
      BY <1>a, <1>2, <2>2 DEF Submit, Create
    <3>2. QED
      BY <2>1, <3>1, StaysPut
  <2>3. CASE i = j
    <3>1. status[j] = "absent" /\ status'[j] = "queued"
      BY <1>a, <1>2, <2>3 DEF Submit, Create
    <3>2. ~Locked(j)
      BY <3>1 DEF Locked, CoreInv, RowFollowsHolder
    <3>3. \A w \in Workers : held[w] # j
      BY <1>b, <3>1, <3>2
    <3>4. ~HasHolder(j) /\ ~HasHolder(j)'
      BY <2>1, <3>3 DEF HasHolder
    <3>5. RetriesLeft(j)' = n
      BY <1>c, <2>1 DEF RetriesLeft
    <3>6. StepsLeft(j) = 18 * n + 19 /\ StepsLeft(j)' = 18 * n + 18
      BY <1>c, <3>1, <3>4, <3>5 DEF StepsLeft, AttemptSteps
    <3>7. QED
      BY <3>3, <3>6 DEF Nearer
  <2>4. QED
    BY <2>2, <2>3
<1>3. ASSUME NEW w \in Workers, Select(w)
      PROVE  Nearer(j)
  <2>1. PICK i \in Jobs : Selectable(i) /\ held' = [held EXCEPT ![w] = i]
    BY <1>3 DEF Select
  <2>2. /\ UNCHANGED <<status, retry>>
        /\ pc' = [pc EXCEPT ![w] = "claim"]
        /\ held[w] = NoJob
    BY <1>a, <1>3 DEF Select, Goto, storeVars, jobVars
  <2>3. CASE i # j
    <3>1. /\ \A v \in Workers : held[v] = j <=> held'[v] = j
          /\ \A v \in Workers : held[v] = j => pc'[v] = pc[v]
      BY <1>a, <2>1, <2>2, <2>3
    <3>2. QED
      BY <2>2, <3>1, StaysPut
  <2>4. CASE i = j
    <3>1. status[j] = "queued" /\ \A v \in Workers : held[v] # j
      BY <1>b, <2>1, <2>4 DEF Selectable
    <3>2. held'[w] = j /\ pc'[w] = "claim"
      BY <1>a, <2>1, <2>2, <2>4
    <3>3. RetriesLeft(j)' = n
      BY <1>c, <2>2 DEF RetriesLeft
    <3>4. StepsLeft(j)' = 18 * n + 17
      BY <1>a, <3>2, <3>3, StepsOfHeldNext DEF AttemptSteps, CallsLeft
    <3>5. StepsLeft(j) = 18 * n + 18
      BY <1>c, <3>1 DEF StepsLeft, HasHolder, AttemptSteps
    <3>6. QED
      BY <3>1, <3>4, <3>5 DEF Nearer
  <2>5. QED
    BY <2>3, <2>4
<1>4. ASSUME Exit
      PROVE  Nearer(j) \/ GivenBack(j)
  <2>1. /\ UNCHANGED <<status, retry>>
        /\ \A w \in Workers : held'[w] = NoJob /\ pc'[w] = "idle"
    BY <1>4 DEF Exit, storeVars, jobVars
  <2>2. CASE \A w \in Workers : held[w] # j
    BY <1>a, <2>1, <2>2, StaysPut
  <2>3. ASSUME NEW w \in Workers, held[w] = j
        PROVE  Nearer(j) \/ GivenBack(j)
    <3>1. pc[w] \in PCs \ {"idle"}
      BY <1>a, <2>3
    <3>2. CASE pc[w] = "claim"
      BY <2>1, <2>3, <3>2 DEF GivenBack, CoreInv, RowFollowsHolder
    <3>3. CASE pc[w] # "claim"
      <4>1. status[j] \notin {"absent", "queued"}
        BY <2>3, <3>1, <3>3 DEF CoreInv, RowFollowsHolder, PCs, Active
      <4>2. StepsLeft(j)' = 0
        BY <1>a, <2>1, <4>1 DEF StepsLeft, HasHolder
      <4>3. PICK c \in 1 .. 17 : c = CallsLeft(pc[w])
        BY <3>1, CallsLeftType
      <4>4. StepsLeft(j) = 18 * n + c
        BY <1>a, <1>c, <2>3, <4>3, StepsOfHeld DEF AttemptSteps
      <4>5. QED
        BY <4>2, <4>4 DEF Nearer
    <3>4. QED
      BY <3>2, <3>3
  <2>4. QED
    BY <2>2, <2>3
<1>5. ASSUME UNCHANGED <<pc, held, seenRetry, storeVars, fileVars>>
      PROVE  Nearer(j)
  BY <1>5, StaysPut DEF storeVars, jobVars
<1>6. QED
  BY <1>1, <1>2, <1>3, <1>4, <1>5, StepKinds

(* Under any faults, the steps a job can still take run out: each step of  *)
(* its worker uses one up, and nothing but a claim that was never          *)
(* committed gives one back.  With workers that go on when they can, this  *)
(* is why WorkersReturn holds.                                             *)
THEOREM NoJobIsWorkedOnForEver == Spec => EveryStepCounts
<1>1. TypeInv /\ TypeInv' /\ CoreInv /\ CoreInv' /\ [Next]_vars
        => [\A j \in Jobs : Nearer(j) \/ GivenBack(j)]_vars
  BY StepCounts
<1>2. [\A j \in Jobs : Nearer(j) \/ GivenBack(j)]_vars
        => [\A j \in Jobs :
              \/ /\ StepsLeft(j)' <= StepsLeft(j)
                 /\ \A w \in Workers : held[w] = j /\ pc'[w] # pc[w] => StepsLeft(j)' < StepsLeft(j)
              \/ \E w \in Workers :
                  held[w] = j /\ pc[w] = "claim" /\ pc'[w] = "idle" /\ status'[j] = "queued"]_vars
  BY DEF Nearer, GivenBack
<1>3. QED
  BY <1>1, <1>2, TypeInit, TypeStep, CoreInit, CoreStep, PTL DEF Spec, EveryStepCounts
===============================================================================
